------------------------------ MODULE Promotion ------------------------------
(***************************************************************************)
(* Live promotion: the question the answer worker signs, the server of     *)
(* knowledgePromotionServer.ts, its audit table (promotionAudit.ts) and    *)
(* promoteQuestionSources of liveDiscovery.ts behind it.                   *)
(*                                                                         *)
(* A signed request is valid for a short time and may arrive more than     *)
(* once.  The audit table decides which arrival runs it, remembers how it  *)
(* ended, and forgets rows only long after; a flag in memory keeps         *)
(* the server at one promotion at a time.                                  *)
(***************************************************************************)
EXTENDS Integers, FiniteSets

CONSTANTS
  Requests,       \* signed requests
  Ids, Nonces,    \* request ids, digests of nonces
  IdOf, NonceOf,
  SignedAt,       \* timestamps, by a clock that may differ from the server's
  Malformed,      \* requests whose body is not a valid question
  Handlers,       \* connections to the server
  MaxLinks,       \* matched sources a search may find
  MaxPromoted,    \* the first three of them are promoted
  Skew,           \* KNOWLEDGE_PROMOTION_CLOCK_SKEW_SECONDS, in ticks
  Retention,      \* the thirty days of prune
  PruneInterval,  \* PRUNE_INTERVAL_MS
  MaxClock,       \* bound on the clock
  MaxFaults,      \* bound on failing calls, abandoned requests and crashes
  NoRow, NoRequest

Succeeded == {"promoted", "no_match"}
Failed == {"busy", "timeout", "upstream_failed", "invalid_authenticated_request"}
Outcomes == Succeeded \cup Failed

Times == 0..MaxClock
Row == [nonce : Nonces, outcome : Outcomes \cup {"started"}, count : 0..MaxPromoted, at : Times]

\* The client draws an id and a nonce for each request: one of them may be taken
\* already, both name the request.
ASSUME RequestAssumption ==
  /\ IdOf \in [Requests -> Ids]
  /\ NonceOf \in [Requests -> Nonces]
  /\ SignedAt \in [Requests -> Int]
  /\ Malformed \subseteq Requests
  /\ \A r, s \in Requests : IdOf[r] = IdOf[s] /\ NonceOf[r] = NonceOf[s] => r = s

ASSUME TimeAssumption ==
  /\ Skew \in Nat /\ Retention \in Nat /\ PruneInterval \in Nat /\ MaxClock \in Nat
  /\ Retention >= 2 * Skew

ASSUME BoundAssumption ==
  MaxLinks \in Nat /\ MaxPromoted \in Nat /\ MaxFaults \in Nat

ASSUME NullAssumption == NoRow \notin Row /\ NoRequest \notin Requests

VARIABLES
  clock,
  rows,       \* knowledge_promotion_requests
  active,     \* the server's flag
  nextPrune,  \* nextPruneAt
  pruning,    \* dates of prunes under way
  pc,         \* where a handler is
  request,    \* the request it handles
  gone,       \* its signal: the client is gone, or 45 s are over
  left,       \* links it has yet to promote
  promoted,   \* promotedCount
  ending,     \* the outcome it is recording
  faults,
  runs,       \* history: how often the promotion of a request was started
  indexed,    \* history: how many of its links were indexed
  recorded,   \* history: the outcome that was committed for it
  abandoned,  \* history: ids whose claim nobody completes
  told        \* history: requests that were answered by 204

tableVars == <<rows, recorded>>
pruneVars == <<nextPrune, pruning>>
handlerVars == <<pc, request, gone, left, promoted, ending>>
historyVars == <<runs, indexed, abandoned, told>>
vars == <<clock, rows, active, nextPrune, pruning, pc, request, gone, left, promoted,
          ending, faults, runs, indexed, recorded, abandoned, told>>

\* "finish" is inside the try, "recover" in its catch.
Holding == {"discover", "promote", "finish", "recover"}
Stages == {"idle", "claim", "look", "claimed", "busy", "invalid"} \cup Holding

TypeOK ==
  /\ clock \in Times
  /\ rows \in [Ids -> Row \cup {NoRow}]
  /\ active \in BOOLEAN
  /\ nextPrune \in Nat /\ pruning \in SUBSET Times
  /\ pc \in [Handlers -> Stages]
  /\ request \in [Handlers -> Requests \cup {NoRequest}]
  /\ gone \in [Handlers -> BOOLEAN]
  /\ left \in [Handlers -> 0..MaxPromoted]
  /\ promoted \in [Handlers -> 0..MaxPromoted]
  /\ ending \in [Handlers -> Outcomes \cup {"started"}]
  /\ faults \in 0..MaxFaults
  /\ runs \in [Requests -> Nat] /\ indexed \in [Requests -> Nat]
  /\ recorded \in [Requests -> Outcomes \cup {"started"}]
  /\ abandoned \in SUBSET Ids
  /\ told \in SUBSET Requests

Idle(h) ==
  /\ pc' = [pc EXCEPT ![h] = "idle"]
  /\ request' = [request EXCEPT ![h] = NoRequest]
  /\ gone' = [gone EXCEPT ![h] = FALSE]
  /\ left' = [left EXCEPT ![h] = 0] /\ promoted' = [promoted EXCEPT ![h] = 0]
  /\ ending' = [ending EXCEPT ![h] = "started"]

NoneHandled ==
  /\ pc = [h \in Handlers |-> "idle"]
  /\ request = [h \in Handlers |-> NoRequest]
  /\ gone = [h \in Handlers |-> FALSE]
  /\ left = [h \in Handlers |-> 0] /\ promoted = [h \in Handlers |-> 0]
  /\ ending = [h \in Handlers |-> "started"]

Init ==
  /\ clock = 0
  /\ rows = [i \in Ids |-> NoRow]
  /\ active = FALSE /\ nextPrune = 0 /\ pruning = {}
  /\ NoneHandled
  /\ faults = 0
  /\ runs = [r \in Requests |-> 0] /\ indexed = [r \in Requests |-> 0]
  /\ recorded = [r \in Requests |-> "started"]
  /\ abandoned = {}
  /\ told = {}

Fault == faults < MaxFaults /\ faults' = faults + 1
Goto(h, stage) == pc' = [pc EXCEPT ![h] = stage]
IdAt(h) == IdOf[request[h]]
Reply(h, status) == told' = IF status = 204 THEN told \cup {request[h]} ELSE told

-----------------------------------------------------------------------------
(* The clock and the client.                                               *)

\* A handler past its claim, which stands in the row of its request.
Claimed(h) == pc[h] \notin {"idle", "claim", "look"}

\* A tick is long compared with a query of claim, and short enough for a
\* promotion to last several; but its 45 s are nothing against the retention.
Tick ==
  /\ clock < MaxClock
  /\ \A h \in Handlers : pc[h] \notin {"claim", "look"}
  /\ \A h \in Handlers :
       Claimed(h) /\ rows[IdAt(h)] # NoRow => clock < rows[IdAt(h)].at + Retention
  /\ clock' = clock + 1
  /\ UNCHANGED <<tableVars, active, pruneVars, handlerVars, faults, historyVars>>

\* The client hangs up, its own 50 s or the server's 45 s are over.
Abort(h) ==
  /\ Fault
  /\ pc[h] # "idle" /\ ~gone[h]
  /\ gone' = [gone EXCEPT ![h] = TRUE]
  /\ UNCHANGED <<clock, tableVars, active, pruneVars, pc, request, left, promoted, ending,
                 historyVars>>

-----------------------------------------------------------------------------
(* audit.claim.                                                            *)

\* authenticatePromotionRequest; what fails it gets 401 and leaves no trace.
Fresh(r) == clock - SignedAt[r] \in -Skew..Skew

\* The first arrival of a request, or one more.
Deliver(h, r) ==
  /\ pc[h] = "idle"
  /\ Fresh(r)
  /\ request' = [request EXCEPT ![h] = r]
  /\ Goto(h, "claim")
  /\ UNCHANGED <<clock, tableVars, active, pruneVars, gone, left, promoted, ending,
                 faults, historyVars>>

Matching(h) ==
  {i \in Ids : rows[i] # NoRow /\ (i = IdAt(h) \/ rows[i].nonce = NonceOf[request[h]])}

\* INSERT ... ON CONFLICT DO NOTHING: primary key and unique nonce.
InsertRow(h) ==
  rows' = [rows EXCEPT ![IdAt(h)] =
             [nonce |-> NonceOf[request[h]], outcome |-> "started", count |-> 0, at |-> clock]]

Claim(h) ==
  /\ pc[h] = "claim"
  /\ IF Matching(h) = {}
     THEN InsertRow(h) /\ Goto(h, "claimed")
     ELSE Goto(h, "look") /\ UNCHANGED rows
  /\ UNCHANGED <<clock, recorded, active, pruneVars, request, gone, left, promoted, ending,
                 faults, historyVars>>

StatusFor(outcome) ==
  CASE outcome \in Succeeded -> 204
    [] outcome = "invalid_authenticated_request" -> 400
    [] OTHER -> 503

\* The SELECT of the same transaction: only a request that is the same in both
\* respects is answered by the outcome, all else is 409.
Look(h) ==
  LET i == IdAt(h)
      same == Matching(h) = {i} /\ rows[i].nonce = NonceOf[request[h]]
  IN /\ pc[h] = "look"
     /\ Reply(h, IF same /\ rows[i].outcome # "started" THEN StatusFor(rows[i].outcome) ELSE 409)
     /\ Idle(h)
     /\ UNCHANGED <<clock, tableVars, active, pruneVars, faults, runs, indexed, abandoned>>

\* The transaction fails, before its COMMIT or after it.
ClaimFails(h) ==
  /\ Fault
  /\ pc[h] \in {"claim", "look"}
  /\ \/ UNCHANGED <<rows, abandoned>>
     \/ /\ pc[h] = "claim" /\ Matching(h) = {}
        /\ InsertRow(h)
        /\ abandoned' = abandoned \cup {IdAt(h)}
  /\ Reply(h, 503)
  /\ Idle(h)
  /\ UNCHANGED <<clock, recorded, active, pruneVars, runs, indexed>>

-----------------------------------------------------------------------------
(* After the claim, up to the next await.                                  *)

\* maybePrune, which does not wait for the DELETE.
MaybePrune ==
  IF clock < nextPrune
  THEN UNCHANGED pruneVars
  ELSE nextPrune' = clock + PruneInterval /\ pruning' = pruning \cup {clock}

Admit(h) ==
  /\ pc[h] = "claimed" /\ ~gone[h]
  /\ MaybePrune
  /\ request[h] \notin Malformed /\ ~active
  /\ active' = TRUE
  /\ runs' = [runs EXCEPT ![request[h]] = @ + 1]
  /\ Goto(h, "discover")
  /\ UNCHANGED <<clock, tableVars, request, gone, left, promoted, ending, faults,
                 indexed, abandoned, told>>

Ending(h, stage, outcome) ==
  Goto(h, stage) /\ ending' = [ending EXCEPT ![h] = outcome]

\* The client was gone before the promotion could begin: the slot is taken, but
\* throwIfAborted comes first.
AdmitGone(h) ==
  /\ pc[h] = "claimed" /\ gone[h]
  /\ MaybePrune
  /\ request[h] \notin Malformed /\ ~active
  /\ active' = TRUE
  /\ Ending(h, "recover", "timeout")
  /\ UNCHANGED <<clock, tableVars, request, gone, left, promoted, faults, historyVars>>

\* Broken: the busy answer is sent and its claim is left as it is.
Refuse_NotRecorded(h) ==
  /\ pc[h] = "claimed"
  /\ MaybePrune
  /\ request[h] \notin Malformed /\ active
  /\ Reply(h, 503)
  /\ Idle(h)
  /\ UNCHANGED <<clock, tableVars, active, faults, runs, indexed, abandoned>>

\* The body is no question, or the slot is taken: both are recorded.
Refuse(h) ==
  /\ pc[h] = "claimed"
  /\ MaybePrune
  /\ \/ request[h] \in Malformed /\ Ending(h, "invalid", "invalid_authenticated_request")
     \/ request[h] \notin Malformed /\ active /\ Ending(h, "busy", "busy")
  /\ UNCHANGED <<clock, tableVars, active, request, gone, left, promoted, faults,
                 historyVars>>

-----------------------------------------------------------------------------
(* promoteQuestionSources.                                                 *)

Selected(links) == IF links > MaxPromoted THEN MaxPromoted ELSE links

\* One search, or a second one among community sources, found the links.
Discover(h) ==
  /\ pc[h] = "discover" /\ ~gone[h]
  /\ \E links \in 0..MaxLinks : left' = [left EXCEPT ![h] = Selected(links)]
  /\ Goto(h, "promote")
  /\ UNCHANGED <<clock, tableVars, active, pruneVars, request, gone, promoted, ending,
                 faults, historyVars>>

PromoteLink(h) ==
  /\ pc[h] = "promote" /\ ~gone[h] /\ left[h] > 0
  /\ left' = [left EXCEPT ![h] = @ - 1]
  /\ promoted' = [promoted EXCEPT ![h] = @ + 1]
  /\ indexed' = [indexed EXCEPT ![request[h]] = @ + 1]
  /\ UNCHANGED <<clock, tableVars, active, pruneVars, pc, request, gone, ending, faults,
                 runs, abandoned, told>>

Promoted(h) ==
  /\ pc[h] = "promote" /\ ~gone[h] /\ left[h] = 0
  /\ Ending(h, "finish", IF promoted[h] > 0 THEN "promoted" ELSE "no_match")
  /\ UNCHANGED <<clock, tableVars, active, pruneVars, request, gone, left, promoted,
                 faults, historyVars>>

\* What the catch records.
CaughtOutcome(h) == IF gone[h] THEN "timeout" ELSE "upstream_failed"

Catch(h) == Ending(h, "recover", CaughtOutcome(h)) /\ promoted' = [promoted EXCEPT ![h] = 0]

\* The signal ends it at its next await, or a call fails; the link in
\* work may have been indexed.
PromoteThrows(h) ==
  /\ pc[h] \in {"discover", "promote"}
  /\ (IF gone[h] THEN UNCHANGED faults ELSE Fault)
  /\ \/ UNCHANGED indexed
     \/ left[h] > 0 /\ indexed' = [indexed EXCEPT ![request[h]] = @ + 1]
  /\ Catch(h)
  /\ UNCHANGED <<clock, tableVars, active, pruneVars, request, gone, left, runs, abandoned,
                 told>>

-----------------------------------------------------------------------------
(* finish and what follows it.                                             *)

Recorded(h) == [rows[IdAt(h)] EXCEPT !.outcome = ending[h], !.count = promoted[h]]

\* UPDATE ... WHERE request_id = $1 AND state = 'started'.
Complete(h) ==
  /\ rows[IdAt(h)] # NoRow /\ rows[IdAt(h)].outcome = "started"
  /\ rows' = [rows EXCEPT ![IdAt(h)] = Recorded(h)]
  /\ recorded' = [recorded EXCEPT ![request[h]] = ending[h]]

\* The finally of the holder.
Release(h) == active' = IF pc[h] \in Holding THEN FALSE ELSE active

Ends(h) == pc[h] \in {"finish", "recover", "busy", "invalid"}

Finish(h) ==
  /\ Ends(h)
  /\ Complete(h)
  /\ Reply(h, StatusFor(ending[h]))
  /\ Release(h)
  /\ Idle(h)
  /\ UNCHANGED <<clock, pruneVars, faults, runs, indexed, abandoned>>

\* complete throws: the database failed, before the UPDATE or after it, or
\* there is no started row.
CompleteThrows(h) ==
  \/ /\ Fault
     /\ Complete(h) \/ UNCHANGED tableVars
  \/ /\ rows[IdAt(h)] # NoRow => rows[IdAt(h)].outcome # "started"
     /\ UNCHANGED <<faults, tableVars>>

\* Inside the try it is caught and recorded once more, as a failure.
FinishCaught(h) ==
  /\ pc[h] = "finish"
  /\ CompleteThrows(h)
  /\ Catch(h)
  /\ UNCHANGED <<clock, active, pruneVars, request, gone, left, historyVars>>

\* Anywhere else it is the end.
FinishFails(h) ==
  /\ pc[h] \in {"recover", "busy", "invalid"}
  /\ CompleteThrows(h)
  /\ abandoned' = abandoned \cup {IdAt(h)}
  /\ Reply(h, 503)
  /\ Release(h)
  /\ Idle(h)
  /\ UNCHANGED <<clock, pruneVars, runs, indexed>>

-----------------------------------------------------------------------------
(* Pruning and restarts.                                                   *)

\* Broken: every row that is older than the prune goes.
Expired_AnyAge(i, date) == rows[i] # NoRow /\ rows[i].at < date

Expired(i, date) == rows[i] # NoRow /\ rows[i].at < date - Retention

Pruned(date) == rows' = [i \in Ids |-> IF Expired(i, date) THEN NoRow ELSE rows[i]]

\* The DELETE of a prune under way, or its failure, which nobody sees.
Prune(date) ==
  /\ date \in pruning
  /\ pruning' = pruning \ {date}
  /\ Pruned(date) \/ UNCHANGED rows
  /\ UNCHANGED <<clock, recorded, active, nextPrune, handlerVars, faults, historyVars>>

\* The process dies and is started again, which prunes before it listens.
Restart ==
  /\ Fault
  /\ pc' = [h \in Handlers |-> "idle"] /\ request' = [h \in Handlers |-> NoRequest]
  /\ gone' = [h \in Handlers |-> FALSE] /\ ending' = [h \in Handlers |-> "started"]
  /\ left' = [h \in Handlers |-> 0] /\ promoted' = [h \in Handlers |-> 0]
  /\ active' = FALSE /\ nextPrune' = 0 /\ pruning' = {}
  /\ abandoned' = abandoned \cup
       {IdAt(h) : h \in {k \in Handlers : Claimed(k)}}
  /\ Pruned(clock) \/ UNCHANGED rows
  /\ UNCHANGED <<clock, recorded, runs, indexed, told>>

-----------------------------------------------------------------------------
Work(h) ==
  \/ Claim(h) \/ Look(h) \/ Admit(h) \/ AdmitGone(h) \/ Refuse(h)
  \/ Discover(h) \/ PromoteLink(h) \/ Promoted(h) \/ PromoteThrows(h)
  \/ Finish(h) \/ FinishCaught(h) \/ FinishFails(h)

Next ==
  \/ Tick \/ Restart
  \/ \E date \in pruning : Prune(date)
  \/ \E h \in Handlers :
       \/ \E r \in Requests : Deliver(h, r)
       \/ Abort(h) \/ ClaimFails(h) \/ Work(h)

Spec == Init /\ [][Next]_vars

\* Queries and searches answer, or the signal ends them.
FairSpec == Spec /\ \A h \in Handlers : WF_vars(Work(h))

-----------------------------------------------------------------------------
\* However often a signed request arrives, and whatever fails, is pruned or
\* restarted between its arrivals, its promotion is started at most once.  No
\* other request under its id or its nonce is run, unless it was signed so
\* long after it that the row may be forgotten.
PromotedOnce ==
  /\ \A r \in Requests : runs[r] <= 1
  /\ \A r, s \in Requests :
       /\ runs[r] > 0 /\ runs[s] > 0
       /\ IdOf[r] = IdOf[s] \/ NonceOf[r] = NonceOf[s]
       /\ SignedAt[s] - SignedAt[r] \in 0..(Retention - 2 * Skew)
       => r = s

\* The flag is up exactly while one handler holds it, so no path leaks it and
\* no two promotions run side by side.
SingleFlight ==
  /\ \A g, h \in Handlers : pc[g] \in Holding /\ pc[h] \in Holding => g = h
  /\ active <=> \E h \in Handlers : pc[h] \in Holding

\* The row of a request, not of one that took its id later.
RowIsOf(i, r) == rows[i] # NoRow /\ i = IdOf[r] /\ rows[i].nonce = NonceOf[r]

\* A client is told 204 only for a committed success of its own request, and the
\* audit calls "promoted" only what indexed the links it counts.
AuditIsTrue ==
  /\ \A r \in told : runs[r] > 0 /\ recorded[r] \in Succeeded
  /\ \A r \in Requests :
       /\ recorded[r] = "promoted" => indexed[r] > 0
       /\ recorded[r] = "no_match" => indexed[r] = 0
       /\ \A i \in Ids : RowIsOf(i, r) /\ rows[i].outcome \in Succeeded =>
            rows[i].outcome = recorded[r] /\ rows[i].count = indexed[r]

\* Requests run once and one at a time, and the audit says what they did.
PromotedInTurn == PromotedOnce /\ SingleFlight /\ AuditIsTrue

\* An outcome, once committed, stays until the row is pruned: the second finish
\* of a handler whose first one was in doubt does not change it.
SettledForGood ==
  [][\A i \in Ids :
       rows[i] # NoRow /\ rows[i].outcome # "started" => rows'[i] \in {rows[i], NoRow}]_vars

\* Every claim is completed, unless the process died or the database failed
\* when it mattered: no path of the handler forgets to.
EventuallySettled ==
  \A i \in Ids :
    (rows[i] # NoRow /\ rows[i].outcome = "started")
      ~> (rows[i] = NoRow \/ rows[i].outcome # "started" \/ i \in abandoned)

\* Every claim is completed, and what it was completed with is final.
SettledOnce == SettledForGood /\ EventuallySettled
=============================================================================
