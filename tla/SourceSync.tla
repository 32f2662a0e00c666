------------------------------ MODULE SourceSync ------------------------------
(***************************************************************************)
(* A crawl of a GitHub or a Stack Exchange source, from the job to the     *)
(* commit of its fetch state: fetchGithubSource, fetchStackExchangeSource, *)
(* indexCrawlResult and the operations of KnowledgeRepository.             *)
(*                                                                         *)
(* GitHub has a fetch state for each endpoint, with an etag; Stack         *)
(* Exchange has one for all of its pages.  Attempts of a job may overlap   *)
(* (see JobQueue), so a state is written by compare-and-set only, and when *)
(* everything it speaks of is in the index.                                *)
(***************************************************************************)
EXTENDS JobQueue

CONSTANTS
  Endpoints,   \* endpoints of the repository, or pages of the site: 1..n
  Changing,    \* those whose content changes
  Delays,      \* how long a rate limit may last, in ticks
  MaxClock     \* bound on the clock

ASSUME SyncAssumption ==
  /\ MaxClock \in Nat /\ MaxClock >= 2
  /\ Delays \subseteq Nat \ {0}
  /\ Endpoints \subseteq Nat /\ 1 \in Endpoints

Times == 1..MaxClock
Deadlines == Nat

\* A version is the time of the change that made it; 0 is none.
Versions == 0..MaxClock

\* A row of fetch_state; at is checkedAt.
State == [etag : Versions, retry : Deadlines, at : 0..MaxClock]
NoState == [etag |-> 0, retry |-> 0, at |-> 0]

VARIABLES
  kind,      \* what a behaviour is about: here "github" or "stackexchange"
  now,
  remote,    \* the version each endpoint serves
  state,     \* fetch_state, by endpoint
  indexed,   \* versions whose chunks are complete
  started,   \* now of the crawl
  todo,      \* endpoints the current loop has yet to visit
  seen,      \* the states it has read
  got,       \* versions it has fetched, 0 for none
  etags,     \* etags it is going to store
  wait       \* retryAt it is going to store

crawlVars == <<started, todo, seen, got, etags, wait>>
worldVars == <<kind, now, remote>>
storeVars == <<state, indexed>>
syncVars == <<queueVars, crawlVars, worldVars, storeVars>>

Keys == IF kind = "github" THEN Endpoints ELSE {1}
KeyOf(e) == IF kind = "github" THEN e ELSE 1

Stages == {"idle", "look", "fetch", "defer", "recheck", "index", "replace", "commit"}

SyncTypeOK ==
  /\ now \in Times
  /\ remote \in [Endpoints -> Versions]
  /\ state \in [Endpoints -> State] /\ indexed \in [Endpoints -> SUBSET Versions]
  /\ started \in [Handlers -> 0..MaxClock] /\ todo \in [Handlers -> SUBSET Endpoints]
  /\ seen \in [Handlers -> [Endpoints -> State]]
  /\ got \in [Handlers -> [Endpoints -> Versions]]
  /\ etags \in [Handlers -> [Endpoints -> Versions]]
  /\ wait \in [Handlers -> Deadlines]

None == [e \in Endpoints |-> 0]

SyncInit ==
  /\ now = 2
  /\ remote = [e \in Endpoints |-> 1]
  /\ state = [e \in Endpoints |-> NoState] /\ indexed = [e \in Endpoints |-> {}]
  /\ started = [h \in Handlers |-> 0] /\ todo = [h \in Handlers |-> {}]
  /\ seen = [h \in Handlers |-> [e \in Endpoints |-> NoState]]
  /\ got = [h \in Handlers |-> None] /\ etags = [h \in Handlers |-> None]
  /\ wait = [h \in Handlers |-> 0]

Set(f, h, value) == [f EXCEPT ![h] = value]

\* A handler that ends forgets what it knew.
Forgets(h) ==
  /\ started' = Set(started, h, 0) /\ todo' = Set(todo, h, {})
  /\ seen' = Set(seen, h, [e \in Endpoints |-> NoState])
  /\ got' = Set(got, h, None) /\ etags' = Set(etags, h, None)
  /\ wait' = Set(wait, h, 0)

Throws(h) == Throw(h) /\ Forgets(h)

\* An await throws: because the signal is aborted, or because the call failed.
Interrupted(h) == (IF aborted[h] THEN NoFault ELSE Fault) /\ Throws(h)

\* The next stage, unless the job's signal is aborted.
Proceed(h, stage) ==
  /\ ~aborted[h]
  /\ Goto(h, stage)
  /\ JobUntouched

Visits(h, e) == e \in todo[h] /\ \A d \in todo[h] : e <= d
Left(h, e) == todo[h] \ {e}

\* A read or a request fails: by itself, by its deadline, or by the signal.
CallFails(h) ==
  /\ pc[h] # "idle"
  /\ Interrupted(h)
  /\ UNCHANGED <<worldVars, storeVars>>

\* A transaction that changes something: it commits, and then the operation
\* goes on, or finds that its time is over and throws all the same.
Commits(h, next) == next \/ Interrupted(h)

-----------------------------------------------------------------------------
(* The crawl.                                                              *)

\* The source is stored (ensureSource), and then its states are read.
TakeJob(h, u) ==
  /\ Take(h, u, "look")
  /\ started' = Set(started, h, now) /\ todo' = Set(todo, h, Keys)
  /\ UNCHANGED <<seen, got, etags, wait, worldVars, storeVars>>

\* A retryAt that lies in the future for the crawl.
Future(h, s) == s.retry > started[h]

\* A state is read.  If one of them has a deferral the crawl ends without a
\* request, and the job is done.
Look(h) ==
  /\ pc[h] = "look" /\ ~aborted[h]
  /\ \E e \in Keys : Visits(h, e) /\
       LET states == [seen[h] EXCEPT ![e] = state[e]]
           last == Left(h, e) = {}
           deferred == \E d \in Keys : Future(h, states[d])
       IN \/ /\ last /\ deferred
             /\ Return(h) /\ Forgets(h)
          \/ /\ ~(last /\ deferred)
             /\ Proceed(h, IF last THEN "fetch" ELSE "look")
             /\ todo' = Set(todo, h, IF last THEN Endpoints ELSE Left(h, e))
             /\ seen' = Set(seen, h, states)
             /\ UNCHANGED <<faults, started, got, etags, wait>>
  /\ UNCHANGED <<worldVars, storeVars>>

\* The request was refused for its rate, or Stack Exchange asks for a pause;
\* Stack Exchange's counts from the answer, GitHub's from the crawl's start.
IsDeferred(h, e) ==
  \E d \in Delays :
    /\ started' = IF kind = "github" THEN started ELSE Set(started, h, now)
    /\ wait' = Set(wait, h, started'[h] + d)
    /\ todo' = Set(todo, h, {KeyOf(e)})
    /\ Proceed(h, "defer")
    /\ UNCHANGED <<seen, got, etags>>

\* The states are stored last, when every document is in the index.
AfterFetch_Commits(docs) == "commit"  \* Broken: stores the states with the responses

AfterFetch(docs) == IF docs = {} THEN "commit" ELSE "index"

\* What one endpoint answers: 304 if it still serves the version of the etag,
\* a document otherwise, with an etag or without.
IsAnswered(h, e) ==
  LET version == IF kind = "github" /\ seen[h][e].etag = remote[e] THEN 0 ELSE remote[e]
      fetched == [got[h] EXCEPT ![e] = version]
  IN /\ got' = Set(got, h, fetched)
     /\ \E tag \in IF kind = "github" THEN {seen[h][e].etag, remote[e]} ELSE {0} :
          etags' = [etags EXCEPT ![h][e] = tag]
     /\ IF Left(h, e) # {}
        THEN todo' = Set(todo, h, Left(h, e)) /\ Proceed(h, "fetch")
        ELSE LET docs == {d \in Endpoints : fetched[d] # 0}
             IN /\ todo' = Set(todo, h, docs)
                /\ Proceed(h, AfterFetch(docs))
     /\ UNCHANGED <<started, seen, wait>>

FetchEndpoint(h) ==
  /\ pc[h] = "fetch"
  /\ \E e \in Endpoints : Visits(h, e) /\ (IsDeferred(h, e) \/ IsAnswered(h, e))
  /\ NoFault
  /\ UNCHANGED <<worldVars, storeVars>>

-----------------------------------------------------------------------------
(* Fetch states and chunks.                                                *)

\* compare-and-set of the fetch states with the given keys, in one transaction.
Unchanged_Unchecked(h, keys) == TRUE  \* Broken: the UPDATE without its expected state

Unchanged(h, keys) == \A k \in keys : state[k] = seen[h][k]

\* deferEndpoint, deferFetch: the deferral is stored unless another crawl was
\* faster; then that crawl's deferral, if there is one, is as good.
Defer(h) ==
  /\ pc[h] = "defer"
  /\ \E k \in todo[h] :
       \/ /\ Unchanged(h, {k})
          /\ state' = [state EXCEPT ![k] =
                          [etag |-> seen[h][k].etag, retry |-> wait[h], at |-> started[h]]]
          /\ Commits(h, ~aborted[h] /\ Return(h) /\ Forgets(h))
       \/ /\ ~Unchanged(h, {k})
          /\ Proceed(h, "recheck")
          /\ UNCHANGED <<faults, crawlVars, state>>
  /\ UNCHANGED <<indexed, worldVars>>

Recheck(h) ==
  /\ pc[h] = "recheck" /\ ~aborted[h]
  /\ \E k \in todo[h] :
       IF Future(h, state[k]) THEN Return(h) /\ Forgets(h) ELSE Throws(h) /\ NoFault
  /\ UNCHANGED <<worldVars, storeVars>>

NextDocument(h, e) ==
  /\ Proceed(h, IF Left(h, e) = {} THEN "commit" ELSE "index")
  /\ todo' = Set(todo, h, Left(h, e))
  /\ UNCHANGED <<faults, started, seen, got, etags, wait>>

\* storeVersion and hasCompleteChunks.
Index(h) ==
  /\ pc[h] = "index"
  /\ \E e \in Endpoints : Visits(h, e) /\
       IF got[h][e] \in indexed[e] THEN NextDocument(h, e)
       ELSE Proceed(h, "replace") /\ UNCHANGED <<faults, crawlVars>>
  /\ UNCHANGED <<worldVars, storeVars>>

\* The chunks are embedded, and then they replace the version's.
WriteChunks(h) ==
  /\ pc[h] = "replace"
  /\ \E e \in Endpoints : Visits(h, e) /\
       /\ indexed' = [indexed EXCEPT ![e] = @ \cup {got[h][e]}]
       /\ Commits(h, NextDocument(h, e))
  /\ UNCHANGED <<worldVars, state>>

\* commitState: all the states of the crawl, or none and the job fails.
Success(h, k) == [etag |-> etags[h][k], retry |-> 0, at |-> started[h]]

CommitState(h) ==
  /\ pc[h] = "commit"
  /\ \/ /\ Unchanged(h, Keys)
        /\ state' = [e \in Endpoints |-> IF e \in Keys THEN Success(h, e) ELSE state[e]]
        /\ Commits(h, ~aborted[h] /\ Return(h) /\ Forgets(h))
     \/ /\ ~Unchanged(h, Keys)
        /\ Throws(h) /\ NoFault
        /\ UNCHANGED state
  /\ UNCHANGED <<indexed, worldVars>>

-----------------------------------------------------------------------------
(* The world.                                                              *)

Tick ==
  /\ now < MaxClock
  /\ now' = now + 1
  /\ UNCHANGED <<queueVars, crawlVars, kind, remote, storeVars>>

PublishEndpoint(e) ==
  /\ e \in Changing /\ remote[e] < now
  /\ remote' = [remote EXCEPT ![e] = now]
  /\ UNCHANGED <<queueVars, crawlVars, kind, now, storeVars>>

Expires(h) ==
  /\ Outlive(h)
  /\ UNCHANGED <<crawlVars, worldVars, storeVars>>

\* The worker's process dies with its handlers and its pool.
Crash ==
  /\ Fault
  /\ \E h \in Handlers : pc[h] # "idle"
  /\ pc' = [h \in Handlers |-> "idle"]
  /\ started' = [h \in Handlers |-> 0] /\ todo' = [h \in Handlers |-> {}]
  /\ seen' = [h \in Handlers |-> [e \in Endpoints |-> NoState]]
  /\ got' = [h \in Handlers |-> None] /\ etags' = [h \in Handlers |-> None]
  /\ wait' = [h \in Handlers |-> 0]
  /\ JobUntouched
  /\ UNCHANGED <<worldVars, storeVars>>

SyncStep(h) ==
  \/ \E u \in Updates : TakeJob(h, u)
  \/ Look(h) \/ FetchEndpoint(h) \/ Defer(h) \/ Recheck(h)
  \/ Index(h) \/ WriteChunks(h) \/ CommitState(h)
  \/ CallFails(h)

SyncWorld ==
  \/ Tick \/ Crash
  \/ \E e \in Endpoints : PublishEndpoint(e)
  \/ \E h \in Handlers : Expires(h)

-----------------------------------------------------------------------------
\* A fetch state never promises more than the index holds: the version of its
\* etag, which will be answered by 304, is indexed, and so is the version
\* a source has had since before the crawl that wrote the state.
StateIsTrue ==
  /\ \A k \in Keys : state[k].etag \in indexed[k] \cup {0}
  /\ \A e \in Endpoints :
       LET s == state[KeyOf(e)]
       IN s.retry = 0 /\ s.at > remote[e] => remote[e] \in indexed[e]
=============================================================================
