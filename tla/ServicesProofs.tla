--------------------------- MODULE ServicesProofs ---------------------------
(***************************************************************************)
(* Theorems about the parts of Services.  Each part has an inductive       *)
(* invariant of its own, shown to be kept by the steps of the part; the    *)
(* steps of the others leave its variables alone (the frame lemma).        *)
(***************************************************************************)
EXTENDS Services, TLAPS, FiniteSetTheorems, WellFoundedInduction

-----------------------------------------------------------------------------
(* Numbers, and things in a row.                                           *)

LEMMA Highest ==
  ASSUME NEW n \in Nat, NEW S \in SUBSET (0..n), S # {}
  PROVE  \E m \in S : \A x \in S : x <= m
<1> DEFINE D == {n - x : x \in S}
<1>1. \A x \in S : x \in 0..n /\ n - x \in Nat OBVIOUS
<1>2. D \subseteq Nat /\ D # {} BY <1>1
<1>3. PICK d \in D : \A e \in D : ~(<<e, d>> \in OpToRel(<, Nat))
  BY <1>2, WFMin, NatLessThanWellFounded
<1>4. PICK m \in S : d = n - m OBVIOUS
<1>5. \A x \in S : x <= m
  <2> SUFFICES ASSUME NEW x \in S PROVE x <= m OBVIOUS
  <2>1. n - x \in D /\ n - x \in Nat /\ d \in Nat BY <1>1, <1>2
  <2>2. ~(n - x < d) BY <1>3, <2>1 DEF OpToRel
  <2> QED BY <1>1, <1>4, <2>1, <2>2
<1> QED BY <1>5

LEMMA MinOfSet ==
  ASSUME NEW S \in SUBSET Nat, S # {}
  PROVE  Min(S) \in S /\ \A x \in S : Min(S) <= x
<1>1. PICK m \in S : \A x \in S : ~(<<x, m>> \in OpToRel(<, Nat))
  BY WFMin, NatLessThanWellFounded
<1>2. \A x \in S : ~(x < m) BY <1>1, Zenon DEF OpToRel
<1>3. \A x \in S : m <= x BY <1>2
<1> QED BY <1>3 DEF Min

\* A row of things: B gives for each those before it.
InRow(S, B) ==
  /\ B \in [S -> SUBSET S]
  /\ \A p \in S : p \notin B[p]
  /\ \A p, q \in S : p # q => p \in B[q] \/ q \in B[p]
  /\ \A p, q \in S : q \in B[p] => B[q] \subseteq B[p]

LastOf(T, B) == {m \in T : \A p \in T : p # m => p \in B[m]}

\* Finitely many of them have a last one.
LEMMA LastInRow ==
  ASSUME NEW S, IsFiniteSet(S), NEW B, InRow(S, B), NEW T, T \subseteq S, T # {}
  PROVE  LastOf(T, B) # {}
<1>1. \A p \in S : IsFiniteSet(B[p]) /\ Cardinality(B[p]) \in 0..Cardinality(S)
  BY FS_Subset, FS_CardinalityType DEF InRow
<1>2. Cardinality(S) \in Nat BY FS_CardinalityType
<1> DEFINE counts == {Cardinality(B[p]) : p \in T}
<1>3. counts \in SUBSET (0..Cardinality(S)) /\ counts # {} BY <1>1
<1>4. PICK c \in counts : \A x \in counts : x <= c BY <1>2, <1>3, Highest
<1>5. PICK m \in T : c = Cardinality(B[m]) OBVIOUS
<1>6. ASSUME NEW p \in T, p # m PROVE p \in B[m]
  <2> SUFFICES ASSUME m \in B[p] PROVE FALSE BY <1>6 DEF InRow
  <2>1. B[m] \subseteq B[p] /\ B[m] # B[p] BY DEF InRow
  <2>2. Cardinality(B[m]) < Cardinality(B[p]) BY <1>1, <1>2, <2>1, FS_Subset
  <2>3. Cardinality(B[p]) <= c BY <1>4, <1>6
  <2> QED BY <1>1, <1>2, <1>5, <2>2, <2>3
<1> QED BY <1>6 DEF LastOf

FewBefore(S, B, n) == {p \in S : Cardinality(B[p]) < n}

\* At most n of them have fewer than n before them.
LEMMA FewAreFew ==
  ASSUME NEW S, IsFiniteSet(S), NEW n \in Nat, NEW B, InRow(S, B)
  PROVE  IsFiniteSet(FewBefore(S, B, n)) /\ Cardinality(FewBefore(S, B, n)) <= n
<1> DEFINE few == FewBefore(S, B, n)
<1>1. IsFiniteSet(few) /\ Cardinality(few) \in Nat
  BY FS_Subset, FS_CardinalityType DEF FewBefore
<1>2. CASE few = {} BY <1>1, <1>2, FS_EmptySet
<1>3. CASE few # {}
  <2>0. few \subseteq S BY DEF FewBefore
  <2> HIDE DEF few
  <2>1. PICK m \in few : \A p \in few : p # m => p \in B[m] BY <1>3, <2>0, LastInRow DEF LastOf
  <2>2. IsFiniteSet(B[m]) /\ Cardinality(B[m]) \in Nat BY <2>0, FS_Subset, FS_CardinalityType DEF InRow
  <2>3. few \subseteq B[m] \cup {m} BY <2>1
  <2>4. IsFiniteSet(B[m] \cup {m}) /\ Cardinality(B[m] \cup {m}) = Cardinality(B[m]) + 1
    BY <2>0, <2>2, FS_AddElement DEF InRow
  <2>5. Cardinality(few) <= Cardinality(B[m] \cup {m}) BY <2>3, <2>4, FS_Subset
  <2>6. Cardinality(B[m] \cup {m}) \in Nat BY <2>4, FS_CardinalityType
  <2>7. Cardinality(B[m]) < n BY DEF few, FewBefore
  <2> QED BY <1>1, <2>2, <2>4, <2>5, <2>6, <2>7 DEF few
<1> QED BY <1>1, <1>2, <1>3

Below(S) == [i \in S |-> {j \in S : j < i}]

LEMMA NumbersInRow ==
  ASSUME NEW S \in SUBSET Nat
  PROVE  InRow(S, Below(S))
<1> DEFINE B == Below(S)
<1>1. B \in [S -> SUBSET S] BY DEF Below
<1>2. \A p, q \in S : q \in B[p] <=> q < p BY DEF Below
<1> HIDE DEF B
<1>3. \A p, q \in S : p # q => p \in B[q] \/ q \in B[p]
  <2> TAKE p, q \in S
  <2>1. p \in Nat /\ q \in Nat OBVIOUS
  <2> QED BY <1>2, <2>1
<1>4. \A p, q \in S : q \in B[p] => B[q] \subseteq B[p]
  <2> SUFFICES ASSUME NEW p \in S, NEW q \in S, q \in B[p], NEW x \in B[q] PROVE x \in B[p]
    OBVIOUS
  <2>1. x \in S /\ p \in Nat /\ q \in Nat /\ x \in Nat BY <1>1
  <2>2. x < q /\ q < p BY <1>2, <2>1
  <2> QED BY <1>2, <2>1, <2>2
<1>5. InRow(S, B) BY <1>1, <1>2, <1>3, <1>4 DEF InRow
<1> QED BY <1>5 DEF B

LEMMA MaxOfFinite ==
  ASSUME NEW S \in SUBSET Nat, IsFiniteSet(S), S # {}
  PROVE  Max(S) \in S /\ \A x \in S : x <= Max(S)
<1>0. InRow(S, Below(S)) /\ S \subseteq S BY NumbersInRow
<1>1. PICK m \in S : \A p \in S : p # m => p \in Below(S)[m] BY <1>0, LastInRow DEF LastOf
<1>2. \A p \in S : m >= p BY <1>1 DEF Below
<1>3. Max(S) \in S /\ \A x \in S : Max(S) >= x BY <1>2 DEF Max
<1> QED BY <1>3

\* Counting those before numbers a row from 0 upwards.
LEMMA Ranks ==
  ASSUME NEW S, IsFiniteSet(S), NEW B, InRow(S, B)
  PROVE  /\ Cardinality(S) \in Nat
         /\ \A p, q \in S : Cardinality(B[p]) = Cardinality(B[q]) => p = q
         /\ \A p \in S : Cardinality(B[p]) + 1 \in 1..Cardinality(S)
         /\ \A n \in 1..Cardinality(S) : \E p \in S : Cardinality(B[p]) + 1 = n
<1> DEFINE c == Cardinality(S)
           rank == [p \in S |-> Cardinality(B[p]) + 1]
<1>0. c \in Nat BY FS_CardinalityType
<1>1. ASSUME NEW p \in S
      PROVE  IsFiniteSet(B[p]) /\ Cardinality(B[p]) \in Nat /\ Cardinality(B[p]) < c
  <2>1. B[p] \subseteq S /\ p \notin B[p] BY DEF InRow
  <2>2. IsFiniteSet(B[p]) /\ Cardinality(B[p]) \in Nat BY <2>1, FS_Subset, FS_CardinalityType
  <2>3. B[p] # S BY <2>1
  <2>4. Cardinality(B[p]) < c BY <1>0, <2>1, <2>2, <2>3, FS_Subset
  <2> QED BY <2>2, <2>4
<1>2. ASSUME NEW p \in S, NEW q \in S, p \in B[q] PROVE Cardinality(B[p]) # Cardinality(B[q])
  <2>1. B[p] \subseteq B[q] /\ B[p] # B[q] BY <1>2 DEF InRow
  <2>2. Cardinality(B[p]) < Cardinality(B[q]) BY <1>1, <2>1, FS_Subset
  <2> QED BY <1>1, <2>2
<1>3. \A p, q \in S : Cardinality(B[p]) = Cardinality(B[q]) => p = q
  BY <1>2 DEF InRow
<1>4. \A p \in S : rank[p] \in 1..c BY <1>0, <1>1
<1>5. rank \in Injection(S, 1..c)
  <2>1. \A p, q \in S : rank[p] = rank[q] => p = q BY <1>1, <1>3
  <2>2. rank \in [S -> 1..c] BY <1>4
  <2> HIDE DEF rank
  <2> QED BY <2>1, <2>2 DEF Injection, IsInjective
<1>6. IsFiniteSet(1..c) /\ Cardinality(1..c) = c BY <1>0, FS_Interval
<1>7. rank \in Surjection(S, 1..c)
  <2> HIDE DEF rank
  <2> QED BY <1>5, <1>6, FS_Injection
<1>8. \A n \in 1..c : \E p \in S : rank[p] = n BY <1>7 DEF Surjection
<1> QED BY <1>0, <1>3, <1>4, <1>8

-----------------------------------------------------------------------------
(* The life of a process.                                                  *)

StartSteps == {"partitions", "start", "prune", "listen", "register", "enqueue", "answer",
               "signal", "poll"}

\* Every handler of a request has its connection, or lost it to its client or
\* to the timer; the queue stops when no job is left that has not expired.
ProcessInv ==
  /\ mode \in Modes
  /\ spc \in StartSteps \cup {"close", "drain", "stop", "end", "exited"}
  /\ spc \in StartSteps => \E k \in DOMAIN Startup(mode) : Startup(mode)[k] = spc
  /\ server \in {"none", "listening", "draining", "closed"}
  /\ connected \subseteq Connections
  /\ work \subseteq Connections \cup Jobs \cup {"prune"}
  /\ spc \in StartSteps \cup {"close"} => server \in {"none", "listening"}
  /\ spc = "drain" => server = "draining"
  /\ spc \in {"stop", "end", "exited"} => server \in {"none", "closed"}
  /\ server \in {"none", "closed"} => connected = {}
  /\ work \cap Connections \subseteq connected \cup late \cup left
  /\ spc \in {"end", "exited"} => boss = "stopped" /\ work \cap Jobs \subseteq late
  /\ db = "ended" <=> spc = "exited"

LEMMA StartupSteps ==
  ASSUME NEW m \in Modes
  PROVE  /\ DOMAIN Startup(m) = 1..Len(Startup(m))
         /\ Len(Startup(m)) \in Nat \ {0}
         /\ \A k \in DOMAIN Startup(m) : Startup(m)[k] \in StartSteps
<1>1. Startup(m) \in Seq(StartSteps) /\ Startup(m) # <<>>
  <2>1. CASE m = "knowledge" BY <2>1 DEF Startup, StartSteps
  <2>2. CASE m = "sync" BY <2>2 DEF Startup, StartSteps
  <2>3. CASE m = "poll" BY <2>3 DEF Startup, StartSteps
  <2>4. CASE m = "worker" BY <2>4 DEF Startup, StartSteps
  <2>5. CASE m = "webhook" BY <2>5 DEF Startup, StartSteps
  <2>6. CASE m = "once" BY <2>6 DEF Startup, StartSteps
  <2> QED BY <2>1, <2>2, <2>3, <2>4, <2>5, <2>6 DEF Modes
<1> QED BY <1>1

LEMMA AfterStepIsStep ==
  ASSUME NEW m \in Modes, NEW step \in StartSteps,
         \E k \in DOMAIN Startup(m) : Startup(m)[k] = step
  PROVE  \/ AfterStep(m, step) = "close"
         \/ /\ AfterStep(m, step) \in StartSteps
            /\ \E k \in DOMAIN Startup(m) : Startup(m)[k] = AfterStep(m, step)
<1> DEFINE s == Startup(m)
           i == CHOOSE k \in DOMAIN s : s[k] = step
<1>1. i \in DOMAIN s OBVIOUS
<1>2. DOMAIN s = 1..Len(s) /\ Len(s) \in Nat BY StartupSteps
<1>3. AfterStep(m, step) = IF i < Len(s) THEN s[i + 1] ELSE "close" BY DEF AfterStep
<1>4. ASSUME i < Len(s) PROVE i + 1 \in DOMAIN s BY <1>1, <1>2, <1>4
<1> QED BY <1>3, <1>4, StartupSteps

LEMMA ProcessInvInit == ProcessInit => ProcessInv
<1> SUFFICES ASSUME ProcessInit PROVE ProcessInv OBVIOUS
<1>1. mode \in Modes BY DEF ProcessInit
<1>2. 1 \in DOMAIN Startup(mode) /\ Startup(mode)[1] \in StartSteps BY <1>1, StartupSteps
<1> QED BY <1>1, <1>2 DEF ProcessInit, ProcessInv, StartSteps

LEMMA ProcessInvStep == ProcessInv /\ (ProcessStep \/ ProcessWorld) => ProcessInv'
<1> SUFFICES ASSUME ProcessInv, ProcessStep \/ ProcessWorld PROVE ProcessInv' OBVIOUS
<1> USE DEF ProcessInv, StartSteps
<1>1. ASSUME NEW step \in StartSteps, StepDone(step) PROVE ProcessInv'
  <2>1. \/ AfterStep(mode, step) = "close"
        \/ /\ AfterStep(mode, step) \in StartSteps
           /\ \E k \in DOMAIN Startup(mode) : Startup(mode)[k] = AfterStep(mode, step)
    BY <1>1, AfterStepIsStep DEF StepDone
  <2> QED BY <1>1, <2>1 DEF StepDone, workVars
<1>2. ASSUME NEW step \in StartSteps, StepThrows(step) PROVE ProcessInv'
  BY <1>2 DEF StepThrows, workVars
<1>3. ASSUME Signal \/ ErrorUnheard PROVE ProcessInv'
  BY <1>3 DEF Signal, ErrorUnheard, workVars
<1>4. ASSUME NEW c \in Connections, ClientConnects(c) \/ RequestBegins(c) \/ ConnectionCloses(c)
      PROVE  ProcessInv'
  <2>1. CASE ClientConnects(c) BY <2>1 DEF ClientConnects
  <2>2. CASE RequestBegins(c) BY <2>2, ProcessAssumption DEF RequestBegins, Begins
  <2>3. CASE ConnectionCloses(c) BY <2>3 DEF ConnectionCloses
  <2> QED BY <1>4, <2>1, <2>2, <2>3
<1>5. ASSUME NEW j \in Jobs, JobBegins(j) \/ JobExpires(j) PROVE ProcessInv'
  <2>1. CASE JobBegins(j) BY <2>1, ProcessAssumption DEF JobBegins, Begins
  <2>2. CASE JobExpires(j) BY <2>2 DEF JobExpires
  <2> QED BY <1>5, <2>1, <2>2
<1>6. ASSUME PruneBegins PROVE ProcessInv'
  BY <1>6, ProcessAssumption DEF PruneBegins, Begins
<1>7. ASSUME NEW w \in Connections \cup Jobs \cup {"prune"}, WorkEnds(w) PROVE ProcessInv'
  BY <1>7 DEF WorkEnds
<1>8. ASSUME CloseServer PROVE ProcessInv'
  BY <1>8 DEF CloseServer
<1>9. ASSUME Drained \/ DrainTimeout PROVE ProcessInv'
  BY <1>9 DEF Drained, DrainTimeout, workVars
<1>10. ASSUME StopBoss \/ BossStopped \/ StopTimeout PROVE ProcessInv'
  BY <1>10 DEF StopBoss, BossStopped, StopTimeout, workVars
<1>11. ASSUME NEW fails \in BOOLEAN, EndDatabase(fails) PROVE ProcessInv'
  BY <1>11 DEF EndDatabase, workVars
<1> QED BY <1>1, <1>2, <1>3, <1>4, <1>5, <1>6, <1>7, <1>8, <1>9, <1>10, <1>11
        DEF ProcessStep, ProcessWorld, StartSteps

LEMMA ProcessInvImplies == ProcessInv => ClosedInOrder
BY DEF ProcessInv, ClosedInOrder, StartSteps

-----------------------------------------------------------------------------
(* One webhook request.                                                    *)

WebhookInv ==
  /\ taken \in 0..MaxUpdate
  /\ wpc = "body" <=> wbody = "locked"
  /\ wpc # "answered" => ~queued /\ status = 0
  /\ WebhookAcksTruly

LEMMA WebhookInvInit == WebhookInit => WebhookInv
BY UpdateAssumption DEF WebhookInit, WebhookInv, WebhookAcksTruly

LEMMA WebhookInvStep == WebhookInv /\ (WebhookStep \/ SenderLeaves) => WebhookInv'
<1> SUFFICES ASSUME WebhookInv, WebhookStep \/ SenderLeaves PROVE WebhookInv' OBVIOUS
<1> USE DEF WebhookInv, WebhookAcksTruly, Responds, BodyRefused
<1>1. ASSUME NotFound \/ HeadersRefused PROVE WebhookInv'
  BY <1>1 DEF NotFound, HeadersRefused
<1>2. ASSUME NEW hasBody \in BOOLEAN, HeadersPass(hasBody) PROVE WebhookInv'
  BY <1>2 DEF HeadersPass
<1>3. ASSUME NEW size \in UpdateChunks, ReadUpdateChunk(size) PROVE WebhookInv'
  BY <1>3, UpdateAssumption DEF ReadUpdateChunk
<1>4. ASSUME ReadUpdateFails \/ ReadUpdateDone PROVE WebhookInv'
  BY <1>4 DEF ReadUpdateFails, ReadUpdateDone
<1>5. ASSUME NEW u \in Updates_, ParseUpdate(u) PROVE WebhookInv'
  BY <1>5 DEF ParseUpdate
<1>6. ASSUME JobNotMade \/ Enqueued PROVE WebhookInv'
  BY <1>6 DEF JobNotMade, Enqueued
<1>7. ASSUME NEW committed \in BOOLEAN, EnqueueFails(committed) PROVE WebhookInv'
  BY <1>7 DEF EnqueueFails
<1>8. ASSUME SenderLeaves PROVE WebhookInv'
  BY <1>8 DEF SenderLeaves
<1> QED BY <1>1, <1>2, <1>3, <1>4, <1>5, <1>6, <1>7, <1>8 DEF WebhookStep

LEMMA WebhookInvImplies == WebhookInv => WebhookAcksTruly /\ WebhookBodyReleased
BY UpdateAssumption DEF WebhookInv, WebhookBodyReleased

-----------------------------------------------------------------------------
(* One public fetch.                                                       *)

PinnedIsPublic ==
  /\ Len(pinned) = 1
  /\ ToSet(pinned) \subseteq ToSet(answer)
  /\ ToSet(answer) \subseteq PublicHosts

FetchInv ==
  /\ gpc \in {"resolve", "lookup", "connect", "wait", "accept", "read", "done"}
  /\ gathered \in 0..MaxFetch
  /\ gpc \in {"resolve", "lookup", "connect"} => request = "none"
  /\ gpc \in {"resolve", "lookup", "connect", "wait"} => message = "none"
  /\ gpc \in {"resolve", "connect", "accept", "done"} => listeners = {}
  /\ gpc = "done" => message # "flowing"
  /\ gpc \in {"connect", "wait"} \/ request # "none" => PinnedIsPublic
  /\ fetched = "returned" => gpc = "done" /\ message = "complete" /\ ~expired

LEMMA ResolvedIsPublic ==
  ASSUME NEW addresses, addresses \in Seq(ToSet(addresses)), Resolved(addresses)
  PROVE  gpc' = "connect" => PinnedIsPublic'
<1> SUFFICES ASSUME gpc' = "connect" PROVE PinnedIsPublic' OBVIOUS
<1>1. Selected(addresses) # <<>> BY DEF Resolved, Rejected
<1>2. /\ addresses # <<>> /\ ToSet(addresses) \subseteq PublicHosts
      /\ pinned' = <<Head(addresses)>> /\ answer' = addresses
  BY <1>1 DEF Selected, Resolved
<1>3. Head(addresses) \in ToSet(addresses)
  <2>1. Len(addresses) \in Nat /\ 1 \in DOMAIN addresses BY <1>2
  <2>2. Head(addresses) = addresses[1] BY <1>2
  <2> QED BY <2>1, <2>2 DEF ToSet
<1>4. Len(pinned') = 1 BY <1>2
<1>5. ToSet(pinned') = {Head(addresses)} BY <1>2 DEF ToSet
<1> QED BY <1>2, <1>3, <1>4, <1>5 DEF PinnedIsPublic

LEMMA FetchInvInit == FetchInit => FetchInv
BY FetchAssumption DEF FetchInit, FetchInv

LEMMA FetchInvStep == FetchInv /\ (FetchStep \/ SignalExpires) => FetchInv'
<1> SUFFICES ASSUME FetchInv, FetchStep \/ SignalExpires PROVE FetchInv' OBVIOUS
<1> USE DEF FetchInv, Rejected
<1>p. PinnedIsPublic /\ UNCHANGED <<answer, pinned>> => PinnedIsPublic' BY DEF PinnedIsPublic
<1>1. ASSUME UrlRefused \/ LookupFails PROVE FetchInv'
  BY <1>p, <1>1 DEF UrlRefused, LookupFails
<1>2. ASSUME Resolve PROVE FetchInv'
  <2>1. CASE expired BY <1>p, <1>2, <2>1 DEF Resolve
  <2>2. CASE gpc' = "lookup" BY <1>p, <1>2, <2>2 DEF Resolve, Resolved
  <2>3. ASSUME NEW a, Resolved(<<a>>), ~expired PROVE FetchInv'
    <3>1. <<a>> \in Seq(ToSet(<<a>>)) BY DEF ToSet
    <3>2. gpc' = "connect" => PinnedIsPublic' BY <2>3, <3>1, ResolvedIsPublic
    <3> QED BY <1>2, <2>3, <3>2 DEF Resolve, Resolved
  <2> QED BY <1>2, <2>1, <2>2, <2>3 DEF Resolve
<1>3. ASSUME NEW addresses \in DnsAnswers, LookupAnswers(addresses) PROVE FetchInv'
  <2>1. gpc' = "connect" => PinnedIsPublic'
    BY <1>3, ResolvedIsPublic, FetchAssumption DEF LookupAnswers
  <2> QED BY <1>3, <2>1 DEF LookupAnswers, Resolved
<1>4. ASSUME Connect \/ RequestFails PROVE FetchInv'
  <2>1. CASE Connect BY <1>p, <2>1 DEF Connect
  <2>2. CASE RequestFails BY <1>p, <2>2 DEF RequestFails
  <2> QED BY <1>4, <2>1, <2>2
<1>5. ASSUME NEW got, OnResponse(got) PROVE FetchInv'
  BY <1>p, <1>5 DEF OnResponse
<1>6. ASSUME ResponseRefused \/ ReadResponseBytesLimited PROVE FetchInv'
  BY <1>p, <1>6 DEF ResponseRefused, ReadResponseBytesLimited
<1>7. ASSUME NEW size \in PieceSizes, OnPiece(size) PROVE FetchInv'
  BY <1>p, <1>7, FetchAssumption DEF OnPiece, ReadEnds
<1>8. ASSUME BodyComplete \/ BodyRead \/ BodyBreaks PROVE FetchInv'
  BY <1>p, <1>8 DEF BodyComplete, BodyRead, BodyBreaks, ReadEnds
<1>9. ASSUME SignalExpires PROVE FetchInv'
  BY <1>p, <1>9 DEF SignalExpires
<1> QED BY <1>1, <1>2, <1>3, <1>4, <1>5, <1>6, <1>7, <1>8, <1>9 DEF FetchStep

LEMMA FetchInvImplies == FetchInv => FetchedIsPublic /\ FetchReleased
BY FetchAssumption DEF FetchInv, FetchedIsPublic, FetchReleased, PinnedIsPublic

-----------------------------------------------------------------------------
(* One call of a model.                                                    *)

Aligned ==
  /\ vectors \in Seq([index : Nat, of : Nat])
  /\ \A i \in 1..Len(vectors) : vectors[i] = [index |-> i - 1, of |-> i]

CallInv ==
  /\ client \in {"litellm", "embedding"}
  /\ texts \in Seq(Nat) /\ start \in 0..Len(texts)
  /\ client = "litellm" => Len(texts) = 1 /\ start = 0
  /\ mpc \in {"call", "fetch", "read", "cancel", "parse", "returned", "threw"}
  /\ Aligned
  /\ mpc \notin {"returned", "threw"} => Len(vectors) = start
  /\ mpc \in {"fetch", "read", "cancel", "parse"} => start < Len(texts)
  /\ mpc = "returned" => Len(vectors) = Len(texts)
  /\ received \in 0..MaxBody
  /\ mpc = "read" => body = "locked"
  /\ mpc \notin {"read", "cancel"} => body \notin {"open", "locked"}
  /\ mpc = "cancel" => body # "locked"

LEMMA SecondPart ==
  ASSUME NEW S, NEW s \in Seq(S), NEW t \in Seq(S), NEW i \in 1..Len(s \o t), i > Len(s)
  PROVE  (s \o t)[i] = t[i - Len(s)]
OBVIOUS

LEMMA OneFits == 1 <= MaxInputs
BY CallAssumption

LEMMA BatchFits ==
  ASSUME CallInv, start < Len(texts)
  PROVE  BatchSize \in 1..(Len(texts) - start)
<1> DEFINE S == {n \in 1..(Len(texts) - start) : \A m \in 1..n : Fits(m)}
<1>1. Len(texts) - start \in Nat \ {0} BY DEF CallInv
<1>2. Fits(1) BY Zenon, CallAssumption, OneFits DEF Fits
<1>3. \A m \in 1..1 : Fits(m)
  <2>1. \A m \in 1..1 : m = 1 OBVIOUS
  <2> QED BY <1>2, <2>1
<1>4. 1 \in S BY <1>1, <1>3
<1>5. S \in SUBSET (1..(Len(texts) - start)) OBVIOUS
<1>6. Max(S) \in S
  <2>1. IsFiniteSet(S)
    <3>1. IsFiniteSet(1..(Len(texts) - start)) BY <1>1, FS_Interval
    <3> HIDE DEF S
    <3> QED BY <1>5, <3>1, FS_Subset
  <2>2. S \in SUBSET Nat /\ S # {} BY <1>1, <1>4
  <2> HIDE DEF S
  <2> QED BY <2>1, <2>2, MaxOfFinite
<1> QED BY <1>5, <1>6 DEF BatchSize

LEMMA CallInvInit == CallInit => CallInv
BY CallAssumption DEF CallInit, CallInv, Aligned

LEMMA CallInvStep == CallInv /\ (CallStep \/ CallerAborts) => CallInv'
<1> SUFFICES ASSUME CallInv, CallStep \/ CallerAborts PROVE CallInv' OBVIOUS
<1> USE DEF CallInv, Throws, ReadRefused
<1>0. Aligned /\ UNCHANGED vectors => Aligned' BY DEF Aligned
<1>a. vectors' = <<>> => Aligned' /\ Len(vectors') = 0 BY DEF Aligned
<1>1. ASSUME NextBatch PROVE CallInv'
  BY <1>0, <1>a, <1>1 DEF NextBatch
<1>2. ASSUME FetchFails \/ CancelResponseBody \/ Malformed PROVE CallInv'
  BY <1>0, <1>a, <1>2 DEF FetchFails, CancelResponseBody, Malformed
<1>3. ASSUME NEW acceptable \in BOOLEAN, NEW declaredTooLong \in BOOLEAN, NEW hasBody \in BOOLEAN,
             FetchResponds(acceptable, declaredTooLong, hasBody)
      PROVE CallInv'
  BY <1>0, <1>a, <1>3, CallAssumption DEF FetchResponds
<1>4. ASSUME NEW size \in ChunkSizes, ReadChunk(size) PROVE CallInv'
  BY <1>0, <1>a, <1>4, CallAssumption DEF ReadChunk
<1>5. ASSUME ReadFails \/ ReadDone PROVE CallInv'
  BY <1>0, <1>a, <1>5 DEF ReadFails, ReadDone
<1>6. ASSUME ParseCompletion PROVE CallInv'
  BY <1>6 DEF ParseCompletion, Aligned
<1>7. ASSUME NEW data \in Orders, ParseResponse(data) PROVE CallInv'
  <2>1. CASE aborted \/ ~ResponseAccepted(data, BatchSize) BY <1>0, <1>a, <1>7, <2>1 DEF ParseResponse
  <2>2. CASE ~aborted /\ ResponseAccepted(data, BatchSize)
    <3> DEFINE n == BatchSize
               batch == [i \in DOMAIN data |-> [index |-> start + i - 1, of |-> start + data[i] + 1]]
    <3>1. n \in 1..(Len(texts) - start) BY <1>7, BatchFits DEF ParseResponse
    <3> HIDE DEF n
    <3>2. data = [i \in 1..n |-> i - 1] BY <2>2 DEF ResponseAccepted, n
    <3>0. start \in Nat /\ n \in Nat BY <3>1
    <3>3. batch = [i \in 1..n |-> [index |-> start + i - 1, of |-> start + i]]
      <4>1. DOMAIN data = 1..n /\ \A i \in 1..n : data[i] = i - 1 BY <3>2
      <4>2. \A i \in 1..n : start + data[i] + 1 = start + i BY <3>0, <4>1
      <4> QED BY <4>1, <4>2
    <3>4. batch \in Seq([index : Nat, of : Nat]) /\ Len(batch) = n
      <4>1. \A i \in 1..n : start + i - 1 \in Nat /\ start + i \in Nat BY <3>0
      <4>2. batch \in [1..n -> [index : Nat, of : Nat]] BY <3>3, <4>1
      <4> QED BY <3>0, <4>2
    <3>5. /\ vectors' = vectors \o batch /\ start' = start + n /\ mpc' = "call"
          /\ UNCHANGED <<client, texts, aborted, body, received, empties>>
      BY <1>7, <2>2 DEF ParseResponse, n
    <3> HIDE DEF batch
    <3>6. vectors' \in Seq([index : Nat, of : Nat]) /\ Len(vectors') = start + n
      BY <1>7, <3>1, <3>4, <3>5 DEF ParseResponse, Aligned
    <3>7. ASSUME NEW i \in 1..Len(vectors') PROVE vectors'[i] = [index |-> i - 1, of |-> i]
      <4>1. Len(vectors) = start BY <1>7 DEF ParseResponse
      <4>2. CASE i <= start BY <3>4, <3>5, <3>6, <3>7, <4>1, <4>2 DEF Aligned
      <4>3. CASE i > start
        <5>1. i - start \in 1..n BY <3>1, <3>6, <3>7, <4>3
        <5>2. vectors \in Seq([index : Nat, of : Nat]) BY DEF Aligned
        <5>3. i \in 1..Len(vectors \o batch) BY <3>5, <3>7
        <5>4. vectors'[i] = batch[i - start] BY <3>4, <3>5, <4>1, <4>3, <5>2, <5>3, SecondPart
        <5> QED BY <3>0, <3>3, <3>7, <5>1, <5>4
      <4> QED BY <3>1, <3>6, <4>2, <4>3
    <3>8. client = "embedding" BY <1>7 DEF ParseResponse
    <3>9. Aligned' BY <3>6, <3>7 DEF Aligned
    <3>10. start' \in 0..Len(texts') BY <3>1, <3>5
    <3>11. mpc = "parse" BY <1>7 DEF ParseResponse
    <3> QED BY <3>5, <3>6, <3>8, <3>9, <3>10, <3>11
  <2> QED BY <2>1, <2>2
<1>8. ASSUME CallerAborts PROVE CallInv'
  BY <1>0, <1>a, <1>8 DEF CallerAborts
<1> QED BY <1>1, <1>2, <1>3, <1>4, <1>5, <1>6, <1>7, <1>8
        DEF CallStep, EmbeddingReadChunk, LiteLlmReadChunk

LEMMA CallInvImplies == CallInv => CallAligned /\ CallBodyReleased
<1> SUFFICES ASSUME CallInv PROVE CallAligned /\ CallBodyReleased OBVIOUS
<1>1. CallBodyReleased BY CallAssumption DEF CallInv, CallBodyReleased
<1>2. DOMAIN vectors = 1..Len(vectors) BY DEF CallInv, Aligned
<1>3. CallAligned BY <1>2 DEF CallInv, Aligned, CallAligned
<1> QED BY <1>1, <1>3

-----------------------------------------------------------------------------
(* The document parser.                                                    *)

ParserInv ==
  /\ ppc \in {"detect", "unzip", "entry", "stream", "structure", "raw", "load", "page",
              "content", "layout", "release", "done"}
  /\ open \subseteq {"zip", "task", "pdf", "page"}
  /\ ppc \in {"detect", "unzip", "structure", "raw", "done"} => open = {}
  /\ ppc \in {"entry", "stream"} => open = {"zip"}
  /\ ppc = "load" => open = {"task"}
  /\ ppc = "page" => open = {"task", "pdf"}
  /\ ppc \in {"content", "layout"} => open = {"task", "pdf", "page"}
  /\ ppc = "release" => open = {"task", "pdf"} \/ open = {"task"}
  /\ ppc \in {"release", "done"} => (thrown = "none" <=> parsed # <<>>)
  /\ ppc \notin {"release", "done"} => thrown = "none" /\ parsed = <<>>

LEMMA ParserInvInit == ParserInit => ParserInv
BY DEF ParserInit, ParserInv

LEMMA ParserInvStep == ParserInv /\ ParserStep => ParserInv'
<1> SUFFICES ASSUME ParserInv, ParserStep PROVE ParserInv' OBVIOUS
<1> USE DEF ParserInv
<1>t. ASSUME NEW category \in {"unsupported", "spoofed", "unsafe", "text-unavailable"},
             ppc \notin {"release", "done"}, Throw(category)
      PROVE ParserInv'
  BY <1>t DEF Throw
<1>f. ASSUME NEW type, NEW text, ppc \in {"detect", "raw", "page"}, Finalize(type, text)
      PROVE ParserInv'
  <2>1. CASE document.text = "good"
    <3>1. /\ parsed' # <<>> /\ UNCHANGED <<open, thrown>>
          /\ ppc' = (IF "task" \in open THEN "release" ELSE "done")
      BY <1>f, <2>1 DEF Finalize
    <3> QED BY <1>f, <3>1
  <2>2. CASE document.text # "good" BY <1>t, <1>f, <2>2 DEF Finalize
  <2> QED BY <2>1, <2>2
<1>1. ASSUME Detect PROVE ParserInv'
  <2>1. ASSUME NEW type, ReadText(type), ppc = "detect" PROVE ParserInv'
    BY <1>t, <1>f, <2>1 DEF ReadText
  <2>2. CASE Throw("unsupported") \/ Throw("spoofed") \/ Throw("unsafe")
    BY <1>1, <1>t, <2>2 DEF Detect
  <2>3. CASE ppc' = "unzip" /\ UNCHANGED <<open, thrown, parsed>> BY <1>1, <2>3 DEF Detect
  <2>4. CASE ppc' = "load" /\ open' = {"task"} /\ UNCHANGED <<thrown, parsed>>
    BY <1>1, <2>4 DEF Detect
  <2> QED BY <1>1, <2>1, <2>2, <2>3, <2>4 DEF Detect
<1>2. ASSUME NEW opened \in BOOLEAN, Unzip(opened) PROVE ParserInv'
  BY <1>2, <1>t DEF Unzip
<1>3. ASSUME OnEntry PROVE ParserInv'
  BY <1>3, <1>t DEF OnEntry
<1>4. ASSUME EntryRead PROVE ParserInv'
  BY <1>4, <1>t DEF EntryRead
<1>5. ASSUME ZipFails \/ OnEnd PROVE ParserInv'
  BY <1>5, <1>t DEF ZipFails, OnEnd
<1>6. ASSUME InspectDocxStructure PROVE ParserInv'
  BY <1>6, <1>t DEF InspectDocxStructure
<1>7. ASSUME NEW works \in BOOLEAN, ExtractRawText(works) PROVE ParserInv'
  BY <1>7, <1>t, <1>f DEF ExtractRawText
<1>8. ASSUME LoadPdf PROVE ParserInv'
  BY <1>8 DEF LoadPdf
<1>9. ASSUME GetPage PROVE ParserInv'
  BY <1>9 DEF GetPage
<1>10. ASSUME PageRead PROVE ParserInv'
  BY <1>10, <1>t DEF PageRead
<1>14. ASSUME PutItem PROVE ParserInv'
  BY <1>14, <1>t DEF PutItem
<1>15. ASSUME PageEnds PROVE ParserInv'
  BY <1>15 DEF PageEnds
<1>11. ASSUME PdfRead PROVE ParserInv'
  BY <1>11, <1>t, <1>f DEF PdfRead
<1>12. ASSUME PdfFails PROVE ParserInv'
  BY <1>12, <1>t DEF PdfFails
<1>13. ASSUME ReleasePdf PROVE ParserInv'
  BY <1>13 DEF ReleasePdf
<1> QED BY <1>1, <1>2, <1>3, <1>4, <1>5, <1>6, <1>7, <1>8, <1>9, <1>10, <1>11, <1>12, <1>13,
           <1>14, <1>15
        DEF ParserStep

LEMMA ParserInvImplies == ParserInv => ParserReleased
BY DEF ParserInv, ParserReleased

\* What was looked at so far, at each stage of a parse.
CheckedInv ==
  /\ document \in Documents /\ at \in Nat \ {0} /\ expanded \in 0..MaxExpanded
  /\ ppc \in {"detect", "unzip", "load"} => at = 1 /\ parts = {}
  /\ ppc \in {"unzip", "entry", "stream", "structure", "raw"} =>
       /\ document.is = "docx" /\ document.says = "docx"
       /\ parts \subseteq {e.name : e \in ToSet(document.entries)}
       /\ \A i \in DOMAIN document.entries :
            i < at => ~document.entries[i].forbidden /\ ~document.entries[i].marked
  /\ ppc = "stream" => at \in DOMAIN document.entries /\ ~document.entries[at].forbidden
  /\ ppc \in {"structure", "raw"} => at > Len(document.entries) /\ {"types", "rels", "main"} \subseteq parts
  /\ ppc \in {"load", "page", "content", "layout"} =>
       /\ document.is = "pdf" /\ document.says = "pdf" /\ document.syntax
       /\ \A p \in DOMAIN document.pages : p < at => document.pages[p].passive
  /\ ppc \in {"page", "content", "layout"} => document.passive
  /\ ppc = "layout" => document.pages[at].passive
  /\ ParsedIsChecked

LEMMA Spans ==
  ASSUME NEW d \in Documents
  PROVE  /\ Len(d.entries) \in Nat /\ DOMAIN d.entries = 1..Len(d.entries)
         /\ Len(d.pages) \in Nat /\ DOMAIN d.pages = 1..Len(d.pages)
<1>1. PICK e, p : e = d.entries /\ p = d.pages OBVIOUS
<1>2. e \in Seq(ToSet(e)) /\ p \in Seq(ToSet(p)) BY <1>1, ParserAssumption
<1>3. PICK S, T : S = ToSet(e) /\ T = ToSet(p) OBVIOUS
<1>4. Len(e) \in Nat /\ DOMAIN e = 1..Len(e) /\ Len(p) \in Nat /\ DOMAIN p = 1..Len(p)
  BY <1>2, <1>3
<1> QED BY <1>1, <1>4

LEMMA CheckedInvInit == ParserInit => CheckedInv
<1> SUFFICES ASSUME ParserInit PROVE CheckedInv OBVIOUS
<1>1. /\ document \in Documents /\ ppc = "detect" /\ at = 1 /\ expanded = 0 /\ parts = {}
      /\ parsed = <<>>
  BY DEF ParserInit
<1> QED BY <1>1, ParserAssumption DEF CheckedInv, ParsedIsChecked

\* The parse ends without a result.
ParseFails == ppc' \in {"release", "done"} /\ parsed' = <<>>

LEMMA CheckedInvStep ==
  ASSUME ParserInv, CheckedInv, ParserStep
  PROVE  CheckedInv'
<1>0. /\ document \in Documents /\ at \in Nat \ {0} /\ expanded \in 0..MaxExpanded /\ MaxExpanded \in Nat
      /\ Len(document.entries) \in Nat /\ DOMAIN document.entries = 1..Len(document.entries)
      /\ Len(document.pages) \in Nat /\ DOMAIN document.pages = 1..Len(document.pages)
      /\ ppc \notin {"release", "done"} => parsed = <<>>
  BY Spans, ParserAssumption DEF CheckedInv, ParserInv
<1>t. ASSUME NEW category, Throw(category), ppc \notin {"release", "done"} PROVE ParseFails
  BY <1>0, <1>t DEF Throw, ParseFails
<1>e. ASSUME ParseFails, document' = document, at' \in Nat \ {0}, expanded' \in 0..MaxExpanded
      PROVE  CheckedInv'
  BY <1>0, <1>e DEF CheckedInv, ParsedIsChecked, ParseFails
<1>f. ASSUME NEW type, NEW text, Finalize(type, text), ppc \notin {"release", "done"},
             UNCHANGED <<document, at, expanded>>,
             document.says = type, document.is = (IF type \in {"pdf", "docx"} THEN type ELSE "none"),
             type = "docx" =>
               /\ \A i \in DOMAIN document.entries :
                    ~document.entries[i].forbidden /\ ~document.entries[i].marked
               /\ {"types", "rels", "main"} \subseteq {e.name : e \in ToSet(document.entries)},
             type = "pdf" =>
               /\ document.syntax /\ document.passive
               /\ \A p \in DOMAIN document.pages : document.pages[p].passive
      PROVE  CheckedInv'
  <2>1. CASE document.text = "good"
    <3>1. PICK title : parsed' = <<[type |-> type, title |-> title, text |-> text]>>
      BY <1>f, <2>1 DEF Finalize
    <3>2. ppc' \in {"release", "done"} BY <1>f, <2>1 DEF Finalize
    <3>3. parsed'[1].type = type BY <3>1
    <3>4. ParsedIsChecked' BY <1>0, <1>f, <2>1, <3>3 DEF ParsedIsChecked
    <3> QED BY <1>0, <1>f, <3>2, <3>4 DEF CheckedInv
  <2>2. CASE document.text # "good" BY <1>0, <1>t, <1>e, <1>f, <2>2 DEF Finalize
  <2> QED BY <2>1, <2>2
<1>1. ASSUME Detect PROVE CheckedInv'
  <2>0. ppc = "detect" /\ UNCHANGED <<document, at, expanded, parts>> BY <1>1 DEF Detect
  <2>1. at = 1 /\ parts = {} BY <2>0 DEF CheckedInv
  <2>2. ASSUME document.is = "none", document.says \in {"text", "markdown"}, ReadText(document.says)
        PROVE  CheckedInv'
    BY <1>0, <1>t, <1>e, <1>f, <2>0, <2>2 DEF ReadText
  <2>3. CASE Throw("unsupported") \/ Throw("spoofed") \/ Throw("unsafe")
    BY <1>0, <1>t, <1>e, <2>0, <2>3
  <2>4. CASE /\ document.is = "docx" /\ document.says = "docx" /\ ppc' = "unzip" /\ parsed' = parsed
    BY <1>0, <2>0, <2>1, <2>4 DEF CheckedInv, ParsedIsChecked
  <2>5. CASE /\ document.is = "pdf" /\ document.says = "pdf" /\ document.syntax
             /\ ppc' = "load" /\ parsed' = parsed
    BY <1>0, <2>0, <2>1, <2>5 DEF CheckedInv, ParsedIsChecked
  <2> QED BY <1>1, <2>2, <2>3, <2>4, <2>5 DEF Detect
<1>2. ASSUME NEW opened \in BOOLEAN, Unzip(opened) PROVE CheckedInv'
  <2>1. ppc = "unzip" /\ UNCHANGED <<document, at, expanded, parts>> BY <1>2 DEF Unzip
  <2>2. (ppc' = "entry" /\ parsed' = parsed) \/ Throw("unsafe") BY <1>2 DEF Unzip
  <2>3. CASE Throw("unsafe") BY <1>0, <1>t, <1>e, <2>1, <2>3
  <2>4. CASE ppc' = "entry" /\ parsed' = parsed
    BY <1>0, <2>1, <2>4 DEF CheckedInv, ParsedIsChecked
  <2> QED BY <2>2, <2>3, <2>4
<1>3. ASSUME OnEntry PROVE CheckedInv'
  <2> DEFINE e == document.entries[at]
  <2>1. /\ ppc = "entry" /\ UNCHANGED <<document, at>> /\ at <= Len(document.entries)
    BY <1>3 DEF OnEntry
  <2>2. \/ Throw("unsafe") /\ expanded' = expanded
        \/ /\ ~e.forbidden /\ ~(expanded + e.declared > MaxExpanded)
           /\ expanded' = expanded + e.declared /\ parts' = parts \cup {e.name}
           /\ ppc' = "stream" /\ parsed' = parsed
    BY <1>3 DEF OnEntry, EntryRefused
  <2>3. CASE Throw("unsafe") /\ expanded' = expanded BY <1>0, <1>t, <1>e, <2>1, <2>3
  <2>4. CASE /\ ~e.forbidden /\ ~(expanded + e.declared > MaxExpanded)
             /\ expanded' = expanded + e.declared /\ parts' = parts \cup {e.name}
             /\ ppc' = "stream" /\ parsed' = parsed
    <3>1. at \in DOMAIN document.entries BY <1>0, <2>1
    <3>2. e.declared \in Nat BY <1>0, <3>1, ParserAssumption
    <3>3. expanded' \in 0..MaxExpanded BY <1>0, <2>4, <3>2
    <3>4. e \in ToSet(document.entries) BY <3>1 DEF ToSet
    <3> HIDE DEF e
    <3>5. parts' \subseteq {x.name : x \in ToSet(document.entries)}
      BY <2>1, <2>4, <3>4 DEF CheckedInv
    <3>6. ~document'.entries[at'].forbidden BY <2>1, <2>4 DEF e
    <3> QED BY <1>0, <2>1, <2>4, <3>1, <3>3, <3>5, <3>6 DEF CheckedInv, ParsedIsChecked
  <2> QED BY <2>2, <2>3, <2>4
<1>4. ASSUME EntryRead PROVE CheckedInv'
  <2>1. ppc = "stream" /\ UNCHANGED <<document, expanded, parts>> BY <1>4 DEF EntryRead
  <2>2. \/ Throw("unsafe") /\ at' = at
        \/ /\ ~document.entries[at].marked /\ at' = at + 1
           /\ ppc' = "entry" /\ parsed' = parsed
    BY <1>4 DEF EntryRead
  <2>3. CASE Throw("unsafe") /\ at' = at BY <1>0, <1>t, <1>e, <2>1, <2>3
  <2>4. CASE /\ ~document.entries[at].marked /\ at' = at + 1
             /\ ppc' = "entry" /\ parsed' = parsed
    <3>1. ASSUME NEW i \in DOMAIN document.entries, i < at + 1
          PROVE  ~document.entries[i].forbidden /\ ~document.entries[i].marked
      <4>1. i < at \/ i = at BY <1>0, <3>1
      <4> QED BY <2>1, <2>4, <4>1 DEF CheckedInv
    <3> QED BY <1>0, <2>1, <2>4, <3>1 DEF CheckedInv, ParsedIsChecked
  <2> QED BY <2>2, <2>3, <2>4
<1>5. ASSUME ZipFails PROVE CheckedInv'
  BY <1>0, <1>5, <1>t, <1>e DEF ZipFails
<1>6. ASSUME OnEnd PROVE CheckedInv'
  <2>1. ppc = "entry" /\ UNCHANGED <<document, at, expanded, parts>> /\ at > Len(document.entries)
    BY <1>6 DEF OnEnd
  <2>2. \/ {"types", "rels", "main"} \subseteq parts /\ ppc' = "structure" /\ parsed' = parsed
        \/ Throw("unsafe")
    BY <1>6 DEF OnEnd
  <2>3. CASE Throw("unsafe") BY <1>0, <1>t, <1>e, <2>1, <2>3
  <2>4. CASE {"types", "rels", "main"} \subseteq parts /\ ppc' = "structure" /\ parsed' = parsed
    BY <1>0, <2>1, <2>4 DEF CheckedInv, ParsedIsChecked
  <2> QED BY <2>2, <2>3, <2>4
<1>7. ASSUME InspectDocxStructure PROVE CheckedInv'
  <2>1. ppc = "structure" /\ UNCHANGED <<document, at, expanded, parts>>
    BY <1>7 DEF InspectDocxStructure
  <2>2. (ppc' = "raw" /\ parsed' = parsed) \/ Throw("unsafe") BY <1>7 DEF InspectDocxStructure
  <2>3. CASE Throw("unsafe") BY <1>0, <1>t, <1>e, <2>1, <2>3
  <2>4. CASE ppc' = "raw" /\ parsed' = parsed
    BY <1>0, <2>1, <2>4 DEF CheckedInv, ParsedIsChecked
  <2> QED BY <2>2, <2>3, <2>4
<1>8. ASSUME NEW works \in BOOLEAN, ExtractRawText(works) PROVE CheckedInv'
  <2>1. ppc = "raw" /\ UNCHANGED <<document, at, expanded>> BY <1>8 DEF ExtractRawText
  <2>2. Finalize("docx", <<>>) \/ Throw("text-unavailable") BY <1>8 DEF ExtractRawText
  <2>3. CASE Throw("text-unavailable") BY <1>0, <1>t, <1>e, <2>1, <2>3
  <2>4. CASE Finalize("docx", <<>>)
    <3>1. /\ document.is = "docx" /\ document.says = "docx"
          /\ {"types", "rels", "main"} \subseteq {e.name : e \in ToSet(document.entries)}
          /\ \A i \in DOMAIN document.entries :
               i < at => ~document.entries[i].forbidden /\ ~document.entries[i].marked
          /\ at > Len(document.entries)
      BY <2>1 DEF CheckedInv
    <3>2. \A i \in DOMAIN document.entries : i < at BY <1>0, <3>1
    <3> QED BY <1>f, <2>1, <2>4, <3>1, <3>2
  <2> QED BY <2>2, <2>3, <2>4
<1>9. ASSUME LoadPdf PROVE CheckedInv'
  <2>1. ppc = "load" /\ UNCHANGED <<document, at, expanded, parts, parsed>> BY <1>9 DEF LoadPdf
  <2>2. (ppc' = "page" /\ document.passive) \/ ppc' = "release" BY <1>9 DEF LoadPdf
  <2> QED BY <1>0, <2>1, <2>2 DEF CheckedInv, ParsedIsChecked
<1>10. ASSUME GetPage PROVE CheckedInv'
  <2>1. ppc = "page" /\ ppc' = "content" /\ UNCHANGED <<document, at, expanded, parts, parsed>>
    BY <1>10 DEF GetPage
  <2> QED BY <1>0, <2>1 DEF CheckedInv, ParsedIsChecked
<1>11. ASSUME PageRead PROVE CheckedInv'
  <2>1. ppc = "content" /\ UNCHANGED <<document, at, expanded, parts>> BY <1>11 DEF PageRead
  <2>2. \/ \E category : Throw(category)
        \/ document.pages[at].passive /\ ppc' = "layout" /\ parsed' = parsed
    BY <1>11 DEF PageRead
  <2>3. CASE \E category : Throw(category) BY <1>0, <1>t, <1>e, <2>1, <2>3
  <2>4. CASE document.pages[at].passive /\ ppc' = "layout" /\ parsed' = parsed
    BY <1>0, <2>1, <2>4 DEF CheckedInv, ParsedIsChecked
  <2> QED BY <2>2, <2>3, <2>4
<1>15. ASSUME PutItem PROVE CheckedInv'
  <2>1. ppc = "layout" /\ UNCHANGED <<document, at, expanded, parts>> BY <1>15 DEF PutItem
  <2>2. (\E category : Throw(category)) \/ UNCHANGED <<ppc, parsed>> BY <1>15 DEF PutItem
  <2>3. CASE \E category : Throw(category) BY <1>0, <1>t, <1>e, <2>1, <2>3
  <2>4. CASE UNCHANGED <<ppc, parsed>> BY <1>0, <2>1, <2>4 DEF CheckedInv, ParsedIsChecked
  <2> QED BY <2>2, <2>3, <2>4
<1>16. ASSUME PageEnds PROVE CheckedInv'
  <2>1. /\ ppc = "layout" /\ ppc' = "page" /\ at' = at + 1
        /\ UNCHANGED <<document, expanded, parts, parsed>>
    BY <1>16 DEF PageEnds
  <2>2. ASSUME NEW p \in DOMAIN document.pages, p < at + 1 PROVE document.pages[p].passive
    <3>1. p < at \/ p = at BY <1>0, <2>2
    <3> QED BY <2>1, <3>1 DEF CheckedInv
  <2> QED BY <1>0, <2>1, <2>2 DEF CheckedInv, ParsedIsChecked
<1>12. ASSUME PdfRead PROVE CheckedInv'
  <2>1. ppc = "page" /\ UNCHANGED <<document, at, expanded>> /\ at > Len(document.pages)
    BY <1>12 DEF PdfRead
  <2>2. Finalize("pdf", laidOut) \/ Throw("text-unavailable") BY <1>12 DEF PdfRead
  <2>3. CASE Throw("text-unavailable") BY <1>0, <1>t, <1>e, <2>1, <2>3
  <2>4. CASE Finalize("pdf", laidOut)
    <3>1. /\ document.is = "pdf" /\ document.says = "pdf" /\ document.syntax /\ document.passive
          /\ \A p \in DOMAIN document.pages : p < at => document.pages[p].passive
      BY <2>1 DEF CheckedInv
    <3>2. \A p \in DOMAIN document.pages : p < at BY <1>0, <2>1
    <3> QED BY <1>f, <2>1, <2>4, <3>1, <3>2
  <2> QED BY <2>2, <2>3, <2>4
<1>13. ASSUME PdfFails PROVE CheckedInv'
  BY <1>0, <1>13, <1>t, <1>e DEF PdfFails
<1>14. ASSUME ReleasePdf PROVE CheckedInv'
  <2>1. /\ ppc = "release" /\ ppc' \in {"release", "done"}
        /\ UNCHANGED <<document, at, expanded, parts, parsed>>
    BY <1>14 DEF ReleasePdf
  <2> QED BY <1>0, <2>1 DEF CheckedInv, ParsedIsChecked
<1> QED BY <1>1, <1>2, <1>3, <1>4, <1>5, <1>6, <1>7, <1>8, <1>9, <1>10, <1>11, <1>12, <1>13, <1>14,
           <1>15, <1>16
        DEF ParserStep

-----------------------------------------------------------------------------
(* The text of a PDF, piece by piece.                                      *)

PieceType == [kind : {"text", "space", "line"}, place : Nat \X Nat, len : Nat, from : Nat]

\* A text so far: n long, and of the document's texts just those at the places.
Laid(pages, out, n, places) ==
  /\ out \in Seq(PieceType) /\ n \in Nat /\ Tiled(out, n)
  /\ {out[k].place : k \in TextsOf(out)} = places
  /\ \A k \in TextsOf(out) : out[k].len = TextAt(pages, out[k].place).len
  /\ \A k, l \in TextsOf(out) : k < l =>
       Precedes(out[k].place, out[l].place) /\ Apart(pages, out, k, l)

\* A separator follows the piece, fit for a text of the same page, or for one
\* of a later page.
Ended(pages, out, k, turned) ==
  \E m \in (k + 1)..Len(out) :
    out[m].kind # "text" /\ (TextAt(pages, out[k].place).eol \/ turned => out[m].kind = "line")

\* The document's texts before an item of a page.
PlacesBefore(pages, n, i) == {p \in TextPlaces(pages) : p[1] < n \/ (p[1] = n /\ p[2] < i)}

\* The next text of page n may follow each text there is: what must stand
\* between is there, and a page without content leaves the break pending.
ReadyFor(pages, out, n, due) ==
  \A k \in TextsOf(out) :
    /\ out[k].place[1] = n /\ Follows(pages[n].items, out[k].place[2]) => Ended(pages, out, k, FALSE)
    /\ out[k].place[1] < n /\ HasContent(pages[n].items) => Ended(pages, out, k, TRUE)
    /\ ~HasContent(pages[n].items) => due

\* What is laid out at each stage: whole pages, then whole items of the page.
LaidInv ==
  /\ breakPending \in BOOLEAN /\ total <= MaxLaidOut
  /\ ppc \in {"detect", "load"} => laidOut = <<>> /\ total = 0
  /\ ppc \in {"content", "layout"} => at <= Len(document.pages)
  /\ ppc \in {"page", "content"} =>
       /\ Laid(document.pages, laidOut, total, PlacesBefore(document.pages, at, 1))
       /\ at <= Len(document.pages) /\ TextsOf(laidOut) # {} => breakPending
  /\ ppc = "layout" =>
       /\ atItem \in Nat \ {0}
       /\ Laid(document.pages, laidOut, total, PlacesBefore(document.pages, at, atItem))
       /\ ReadyFor(document.pages, laidOut, at, breakPending)
  /\ parsed # <<>> /\ parsed[1].type = "pdf" => LaidOutWhole(document.pages, parsed[1].text, total)

LEMMA SeqSpans ==
  ASSUME NEW T, NEW s \in Seq(T)
  PROVE  Len(s) \in Nat /\ DOMAIN s = 1..Len(s) /\ \A i \in DOMAIN s : s[i] \in T
OBVIOUS

LEMMA LaidSpans ==
  ASSUME NEW d \in Documents, NEW p \in DOMAIN d.pages
  PROVE  /\ Len(d.pages[p].items) \in Nat
         /\ DOMAIN d.pages[p].items = 1..Len(d.pages[p].items)
         /\ \A i \in DOMAIN d.pages[p].items :
              d.pages[p].items[i].len \in Nat /\ d.pages[p].items[i].eol \in BOOLEAN
<1>1. PICK s : s = d.pages[p].items OBVIOUS
<1>2. s \in Seq([len : Nat, eol : BOOLEAN]) BY <1>1, ParserAssumption
<1>3. PICK T : T = [len : Nat, eol : BOOLEAN] OBVIOUS
<1>4. /\ Len(s) \in Nat /\ DOMAIN s = 1..Len(s)
      /\ \A i \in DOMAIN s : s[i] \in T
  BY <1>2, <1>3, SeqSpans
<1>5. \A x \in T : x.len \in Nat /\ x.eol \in BOOLEAN BY <1>3
<1> QED BY <1>1, <1>4, <1>5

LEMMA InTextPlaces ==
  ASSUME NEW d \in Documents, NEW pages, pages = d.pages
  PROVE  /\ \A n \in DOMAIN pages : \A i \in DOMAIN pages[n].items :
              pages[n].items[i].len > 0 => <<n, i>> \in TextPlaces(pages)
         /\ \A p \in TextPlaces(pages) :
              /\ p = <<p[1], p[2]>> /\ p[1] \in DOMAIN pages /\ p[1] \in Nat /\ p[2] \in Nat
              /\ p[2] \in DOMAIN pages[p[1]].items
              /\ TextAt(pages, p).len > 0 /\ TextAt(pages, p).len \in Nat /\ TextAt(pages, p).eol \in BOOLEAN
<1>1. ASSUME NEW n \in DOMAIN pages, NEW i \in DOMAIN pages[n].items
      PROVE  /\ TextAt(pages, <<n, i>>) = pages[n].items[i] /\ n \in Nat /\ i \in Nat
             /\ TextAt(pages, <<n, i>>).len \in Nat /\ TextAt(pages, <<n, i>>).eol \in BOOLEAN
  <2>1. TextAt(pages, <<n, i>>) = pages[n].items[i] BY DEF TextAt
  <2>2. n \in Nat BY Spans
  <2>3. /\ Len(pages[n].items) \in Nat
        /\ DOMAIN pages[n].items = 1..Len(pages[n].items)
        /\ pages[n].items[i].len \in Nat /\ pages[n].items[i].eol \in BOOLEAN
    BY LaidSpans
  <2> QED BY <2>1, <2>2, <2>3
<1>2. ASSUME NEW n \in DOMAIN pages, NEW i \in DOMAIN pages[n].items,
             pages[n].items[i].len > 0
      PROVE  <<n, i>> \in TextPlaces(pages)
  BY <1>1, <1>2 DEF TextPlaces
<1>3. ASSUME NEW p \in TextPlaces(pages)
      PROVE  /\ p = <<p[1], p[2]>> /\ p[1] \in DOMAIN pages /\ p[1] \in Nat /\ p[2] \in Nat
             /\ p[2] \in DOMAIN pages[p[1]].items
             /\ TextAt(pages, p).len > 0 /\ TextAt(pages, p).len \in Nat /\ TextAt(pages, p).eol \in BOOLEAN
  <2>1. PICK n \in DOMAIN pages : \E i \in DOMAIN pages[n].items :
          p = <<n, i>> /\ TextAt(pages, <<n, i>>).len > 0
    BY DEF TextPlaces
  <2>2. PICK i \in DOMAIN pages[n].items : p = <<n, i>> /\ TextAt(pages, <<n, i>>).len > 0 BY <2>1
  <2>3. p[1] = n /\ p[2] = i BY <2>2
  <2> QED BY <1>1, <2>2, <2>3
<1> QED BY <1>2, <1>3

\* A text and the text with one more piece, begun where it ends.
Longer(pages, out, new, n, piece) ==
  /\ new \in Seq(PieceType) /\ Tiled(new, n + piece.len) /\ n + piece.len \in Nat
  /\ Len(out) \in Nat /\ Len(new) = Len(out) + 1 /\ DOMAIN out = 1..Len(out)
  /\ \A k \in DOMAIN out : k \in DOMAIN new /\ new[k] = out[k]
  /\ new[Len(out) + 1] = piece
  /\ piece.kind # "text" => TextsOf(new) = TextsOf(out)
  /\ piece.kind = "text" => TextsOf(new) = TextsOf(out) \cup {Len(out) + 1}
  /\ \A k \in DOMAIN out : \A t \in BOOLEAN : Ended(pages, out, k, t) => Ended(pages, new, k, t)
  /\ \A k, l \in DOMAIN out : Apart(pages, out, k, l) => Apart(pages, new, k, l)
LEMMA OneMorePiece ==
  ASSUME NEW pages, NEW out, NEW n, NEW places, Laid(pages, out, n, places), NEW piece \in PieceType, piece.from = n,
         NEW new, new = Append(out, piece)
  PROVE  Longer(pages, out, new, n, piece)
<1>1. out \in Seq(PieceType) /\ n \in Nat /\ Tiled(out, n) BY DEF Laid
<1>2. /\ new \in Seq(PieceType) /\ Len(out) \in Nat /\ Len(new) = Len(out) + 1
      /\ DOMAIN out = 1..Len(out) /\ DOMAIN new = 1..(Len(out) + 1)
      /\ \A k \in DOMAIN out : k \in DOMAIN new /\ new[k] = out[k]
      /\ new[Len(out) + 1] = piece
  BY <1>1
<1>3. piece.len \in Nat /\ piece.from \in Nat BY DEF PieceType
<1>4. Tiled(new, n + piece.len)
  <2> DEFINE E(s, k) == IF k = 0 THEN 0 ELSE s[k].from + s[k].len
  <2>1. (\A k \in DOMAIN out : out[k].from = E(out, k - 1)) /\ n = E(out, Len(out)) BY <1>1 DEF Tiled
  <2>2. \A k \in 0..Len(out) : E(new, k) = E(out, k) BY <1>2
  <2>3. E(new, Len(new)) = n + piece.len BY <1>2, <1>3
  <2>4. \A k \in DOMAIN new : new[k].from = E(new, k - 1)
    <3> SUFFICES ASSUME NEW k \in DOMAIN new PROVE new[k].from = E(new, k - 1) OBVIOUS
    <3> HIDE DEF E
    <3>1. CASE k = Len(out) + 1
      <4>1. k - 1 = Len(out) /\ Len(out) \in 0..Len(out) BY <1>2, <3>1
      <4>2. E(new, k - 1) = n BY <1>2, <2>1, <2>2, <4>1
      <4> QED BY <1>2, <3>1, <4>2
    <3>2. CASE k # Len(out) + 1
      <4>1. k \in DOMAIN out /\ k - 1 \in 0..Len(out) BY <1>2, <3>2
      <4>2. new[k] = out[k] /\ E(new, k - 1) = E(out, k - 1) BY <1>2, <2>2, <4>1
      <4> QED BY <2>1, <4>1, <4>2
    <3> QED BY <3>1, <3>2
  <2> QED BY <2>3, <2>4 DEF Tiled
<1>5. /\ piece.kind # "text" => TextsOf(new) = TextsOf(out)
      /\ piece.kind = "text" => TextsOf(new) = TextsOf(out) \cup {Len(out) + 1}
  BY <1>2 DEF TextsOf
<1>6. \A k \in DOMAIN out : \A t \in BOOLEAN : Ended(pages, out, k, t) => Ended(pages, new, k, t)
  <2> SUFFICES ASSUME NEW k \in DOMAIN out, NEW t \in BOOLEAN, Ended(pages, out, k, t) PROVE Ended(pages, new, k, t)
    OBVIOUS
  <2>1. PICK m \in (k + 1)..Len(out) :
          out[m].kind # "text" /\ (TextAt(pages, out[k].place).eol \/ t => out[m].kind = "line")
    BY DEF Ended
  <2>2. m \in DOMAIN out /\ m \in (k + 1)..Len(new) BY <1>2
  <2>3. new[m] = out[m] /\ new[k] = out[k] BY <1>2, <2>2
  <2> QED BY <2>1, <2>2, <2>3 DEF Ended
<1>7. \A k, l \in DOMAIN out : Apart(pages, out, k, l) => Apart(pages, new, k, l)
  <2> SUFFICES ASSUME NEW k \in DOMAIN out, NEW l \in DOMAIN out, Apart(pages, out, k, l) PROVE Apart(pages, new, k, l)
    OBVIOUS
  <2>1. PICK m \in (k + 1)..(l - 1) :
          /\ out[m].kind # "text"
          /\ TextAt(pages, out[k].place).eol \/ out[k].place[1] # out[l].place[1] => out[m].kind = "line"
    BY DEF Apart
  <2>2. m \in DOMAIN out BY <1>2
  <2>3. new[m] = out[m] /\ new[k] = out[k] /\ new[l] = out[l] BY <1>2, <2>2
  <2> QED BY <2>1, <2>3 DEF Apart
<1> QED BY <1>1, <1>2, <1>3, <1>4, <1>5, <1>6, <1>7 DEF Longer

\* A text and the text with a separator after it.
Separated(pages, out, new, n, places, kind) ==
  /\ Laid(pages, new, n + 1, places) /\ TextsOf(new) = TextsOf(out)
  /\ \A k \in TextsOf(out) :
       /\ new[k] = out[k]
       /\ \A t \in BOOLEAN : Ended(pages, out, k, t) => Ended(pages, new, k, t)
       /\ \A t \in BOOLEAN : (TextAt(pages, out[k].place).eol \/ t => kind = "line") => Ended(pages, new, k, t)

LEMMA AddSeparator ==
  ASSUME NEW pages, NEW out, NEW n, NEW places, Laid(pages, out, n, places), NEW kind \in {"space", "line"},
         NEW place \in Nat \X Nat,
         NEW new, new = Append(out, [kind |-> kind, place |-> place, len |-> 1, from |-> n])
  PROVE  Separated(pages, out, new, n, places, kind)
<1> DEFINE piece == [kind |-> kind, place |-> place, len |-> 1, from |-> n]
<1>1. n \in Nat /\ out \in Seq(PieceType) BY DEF Laid
<1>2. piece \in PieceType /\ piece.from = n /\ piece.len = 1 /\ piece.kind = kind BY <1>1 DEF PieceType
<1> HIDE DEF piece
<1>3. new = Append(out, piece) BY DEF piece
<1>l. Longer(pages, out, new, n, piece) BY <1>2, <1>3, OneMorePiece
<1>4. /\ new \in Seq(PieceType) /\ Tiled(new, n + 1) /\ n + 1 \in Nat
      /\ Len(out) \in Nat /\ Len(new) = Len(out) + 1 /\ DOMAIN out = 1..Len(out)
      /\ \A k \in DOMAIN out : new[k] = out[k]
      /\ new[Len(out) + 1] = piece
      /\ TextsOf(new) = TextsOf(out)
      /\ \A k \in DOMAIN out : \A t \in BOOLEAN : Ended(pages, out, k, t) => Ended(pages, new, k, t)
      /\ \A k, l \in DOMAIN out : Apart(pages, out, k, l) => Apart(pages, new, k, l)
  BY <1>2, <1>l DEF Longer
<1>5. TextsOf(out) \subseteq DOMAIN out BY DEF TextsOf
<1>6. \A k \in TextsOf(out) : new[k] = out[k] BY <1>4, <1>5
<1>7. Laid(pages, new, n + 1, places)
  <2>1. {new[k].place : k \in TextsOf(new)} = {out[k].place : k \in TextsOf(out)} BY <1>4, <1>6
  <2>2. \A k \in TextsOf(new) : new[k].len = TextAt(pages, new[k].place).len BY <1>4, <1>6 DEF Laid
  <2>3. \A k, l \in TextsOf(new) : k < l => Precedes(new[k].place, new[l].place) /\ Apart(pages, new, k, l)
    BY <1>4, <1>5, <1>6 DEF Laid
  <2>4. {out[k].place : k \in TextsOf(out)} = places BY DEF Laid
  <2> QED BY <1>4, <2>1, <2>2, <2>3, <2>4 DEF Laid
<1>8. ASSUME NEW k \in TextsOf(out), NEW t \in BOOLEAN, TextAt(pages, out[k].place).eol \/ t => kind = "line"
      PROVE  Ended(pages, new, k, t)
  <2>1. Len(out) + 1 \in (k + 1)..Len(new) BY <1>4, <1>5
  <2>2. new[Len(out) + 1].kind = kind /\ kind # "text" BY <1>2, <1>4
  <2>3. TextAt(pages, new[k].place).eol = TextAt(pages, out[k].place).eol BY <1>6
  <2> QED BY <1>8, <2>1, <2>2, <2>3 DEF Ended
<1> QED BY <1>4, <1>5, <1>6, <1>7, <1>8 DEF Separated

\* A text and the text with one of the document's texts after it.
Continued(pages, out, new, n, places, place) ==
  /\ Laid(pages, new, n + TextAt(pages, place).len, places \cup {place})
  /\ Len(out) \in Nat /\ TextsOf(new) = TextsOf(out) \cup {Len(out) + 1}
  /\ new[Len(out) + 1].place = place
  /\ \A k \in TextsOf(out) : new[k] = out[k]
  /\ \A k \in TextsOf(out) : \A t \in BOOLEAN : Ended(pages, out, k, t) => Ended(pages, new, k, t)

LEMMA AddText ==
  ASSUME NEW pages, NEW out, NEW n, NEW places, Laid(pages, out, n, places), NEW d \in Documents, pages = d.pages,
         NEW place \in TextPlaces(pages),
         \A p \in places : Precedes(p, place),
         \A k \in TextsOf(out) : Ended(pages, out, k, out[k].place[1] # place[1]),
         NEW new, new = Append(out, [kind |-> "text", place |-> place, len |-> TextAt(pages, place).len, from |-> n])
  PROVE  Continued(pages, out, new, n, places, place)
<1> DEFINE piece == [kind |-> "text", place |-> place, len |-> TextAt(pages, place).len, from |-> n]
<1>1. n \in Nat /\ out \in Seq(PieceType) BY DEF Laid
<1>2. TextAt(pages, place).len \in Nat /\ place \in Nat \X Nat
  <2>1. TextAt(pages, place).len \in Nat /\ place = <<place[1], place[2]>> /\ place[1] \in Nat /\ place[2] \in Nat
    BY InTextPlaces
  <2> QED BY <2>1
<1>3. /\ piece \in PieceType /\ piece.from = n /\ piece.len = TextAt(pages, place).len
      /\ piece.kind = "text" /\ piece.place = place
  BY <1>1, <1>2 DEF PieceType
<1> HIDE DEF piece
<1>4. new = Append(out, piece) BY DEF piece
<1>l. Longer(pages, out, new, n, piece) BY <1>3, <1>4, OneMorePiece
<1>5. /\ new \in Seq(PieceType) /\ Tiled(new, n + TextAt(pages, place).len) /\ n + TextAt(pages, place).len \in Nat
      /\ Len(out) \in Nat /\ Len(new) = Len(out) + 1 /\ DOMAIN out = 1..Len(out)
      /\ \A k \in DOMAIN out : new[k] = out[k]
      /\ new[Len(out) + 1] = piece
      /\ TextsOf(new) = TextsOf(out) \cup {Len(out) + 1}
      /\ \A k \in DOMAIN out : \A t \in BOOLEAN : Ended(pages, out, k, t) => Ended(pages, new, k, t)
      /\ \A k, l \in DOMAIN out : Apart(pages, out, k, l) => Apart(pages, new, k, l)
  BY <1>3, <1>l DEF Longer
<1>6. TextsOf(out) \subseteq DOMAIN out BY DEF TextsOf
<1>7. \A k \in TextsOf(out) : new[k] = out[k] BY <1>5, <1>6
<1>8. new[Len(out) + 1].place = place /\ new[Len(out) + 1].len = TextAt(pages, place).len BY <1>3, <1>5
<1>9. {out[k].place : k \in TextsOf(out)} = places BY DEF Laid
<1>10. {new[k].place : k \in TextsOf(new)} = places \cup {place}
  <2>1. \A k \in TextsOf(new) : new[k].place \in places \cup {place} BY <1>5, <1>7, <1>8, <1>9
  <2>2. \A q \in places : \E k \in TextsOf(new) : new[k].place = q BY <1>5, <1>7, <1>9
  <2>3. \E k \in TextsOf(new) : new[k].place = place BY <1>5, <1>8
  <2>4. PICK Q : Q = {new[k].place : k \in TextsOf(new)} OBVIOUS
  <2>5. \A q : q \in Q <=> \E k \in TextsOf(new) : new[k].place = q BY <2>4
  <2>6. ASSUME NEW q \in Q PROVE q \in places \cup {place}
    <3>1. PICK k \in TextsOf(new) : new[k].place = q BY <2>5
    <3> QED BY <2>1, <3>1
  <2>7. \A q \in places : q \in Q BY <2>2, <2>5
  <2>8. place \in Q BY <2>3, <2>5
  <2> QED BY <2>4, <2>6, <2>7, <2>8
<1>11. \A k \in TextsOf(new) : new[k].len = TextAt(pages, new[k].place).len BY <1>5, <1>7, <1>8 DEF Laid
<1>12. ASSUME NEW k \in TextsOf(new), NEW l \in TextsOf(new), k < l
       PROVE  Precedes(new[k].place, new[l].place) /\ Apart(pages, new, k, l)
  <2>1. k \in TextsOf(out) BY <1>5, <1>6, <1>12
  <2>2. CASE l \in TextsOf(out)
    BY <1>5, <1>6, <1>7, <1>12, <2>1, <2>2 DEF Laid
  <2>3. CASE l = Len(out) + 1
    <3>1. out[k].place \in places /\ new[k] = out[k] BY <1>7, <1>9, <2>1
    <3>2. Precedes(new[k].place, new[l].place) BY <1>8, <2>3, <3>1
    <3>3. PICK m \in (k + 1)..Len(out) :
            out[m].kind # "text"
            /\ (TextAt(pages, out[k].place).eol \/ out[k].place[1] # place[1] => out[m].kind = "line")
      BY <2>1 DEF Ended
    <3>4. k \in Nat /\ m \in DOMAIN out /\ m \in (k + 1)..(l - 1) BY <1>5, <1>6, <2>1, <2>3
    <3>5. new[m] = out[m] /\ new[l].place = place BY <1>5, <1>8, <2>3, <3>4
    <3>6. Apart(pages, new, k, l) BY <3>1, <3>3, <3>4, <3>5 DEF Apart
    <3> QED BY <3>2, <3>6
  <2> QED BY <1>5, <2>2, <2>3
<1>13. Laid(pages, new, n + TextAt(pages, place).len, places \cup {place}) BY <1>5, <1>10, <1>11, <1>12 DEF Laid
<1> QED BY <1>5, <1>6, <1>7, <1>8, <1>13 DEF Continued

\* Reading a page: before its first item all texts are of earlier pages, and a
\* break that is due is put before content.
LEMMA PageBegins ==
  ASSUME NEW d \in Documents, NEW pages, pages = d.pages, NEW n \in DOMAIN pages,
         NEW due \in BOOLEAN, NEW out, NEW len, Laid(pages, out, len, PlacesBefore(pages, n, 1)),
         TextsOf(out) # {} => due
  PROVE  /\ ~(due /\ HasContent(pages[n].items)) => ReadyFor(pages, out, n, due)
         /\ \A new : new = Append(out, [kind |-> "line", place |-> <<n, 0>>, len |-> 1, from |-> len]) =>
              /\ Laid(pages, new, len + 1, PlacesBefore(pages, n, 1))
              /\ HasContent(pages[n].items) => ReadyFor(pages, new, n, FALSE)
<1>0. n \in Nat BY Spans
<1>1. \A k \in TextsOf(out) : out[k].place[1] < n /\ out[k].place[1] \in Nat
  <2> SUFFICES ASSUME NEW k \in TextsOf(out) PROVE out[k].place[1] < n /\ out[k].place[1] \in Nat OBVIOUS
  <2>1. out[k].place \in PlacesBefore(pages, n, 1) BY DEF Laid
  <2>2. PICK p : p = out[k].place OBVIOUS
  <2>3. p \in TextPlaces(pages) /\ (p[1] < n \/ (p[1] = n /\ p[2] < 1)) BY <2>1, <2>2 DEF PlacesBefore
  <2>4. p[1] \in DOMAIN pages /\ p[1] \in Nat /\ p[2] \in DOMAIN pages[p[1]].items BY <2>3, InTextPlaces
  <2>5. p[2] \in Nat /\ p[2] >= 1 BY <2>4, LaidSpans
  <2> QED BY <2>2, <2>3, <2>4, <2>5
<1>2. ASSUME ~(due /\ HasContent(pages[n].items)) PROVE ReadyFor(pages, out, n, due)
  <2>1. \A k \in TextsOf(out) : due /\ ~HasContent(pages[n].items) BY <1>2
  <2>2. \A k \in TextsOf(out) : out[k].place[1] # n BY <1>0, <1>1
  <2> QED BY <2>1, <2>2 DEF ReadyFor
<1>3. ASSUME NEW new, new = Append(out, [kind |-> "line", place |-> <<n, 0>>, len |-> 1, from |-> len])
      PROVE  /\ Laid(pages, new, len + 1, PlacesBefore(pages, n, 1))
             /\ HasContent(pages[n].items) => ReadyFor(pages, new, n, FALSE)
  <2>1. <<n, 0>> \in Nat \X Nat /\ "line" \in {"space", "line"} BY <1>0
  <2>2. Separated(pages, out, new, len, PlacesBefore(pages, n, 1), "line") BY <1>3, <2>1, AddSeparator
  <2>3. /\ Laid(pages, new, len + 1, PlacesBefore(pages, n, 1)) /\ TextsOf(new) = TextsOf(out)
        /\ \A k \in TextsOf(out) : new[k] = out[k] /\ Ended(pages, new, k, TRUE)
    BY <2>2 DEF Separated
  <2>4. \A k \in TextsOf(out) : out[k].place[1] # n BY <1>0, <1>1
  <2>5. ASSUME NEW k \in TextsOf(new) PROVE new[k].place[1] # n
    <3>1. k \in TextsOf(out) /\ new[k] = out[k] BY <2>3
    <3> QED BY <2>4, <3>1
  <2> QED BY <2>3, <2>5 DEF ReadyFor
<1> QED BY <1>2, <1>3

\* What is laid out once an item is put: the document's texts up to it, and
\* what the next item needs, whether or not a separator follows.
ItemPut(pages, len, n, i, due, item, text) ==
  /\ Laid(pages, text, len + item.len, PlacesBefore(pages, n, i + 1))
  /\ ~Follows(pages[n].items, i) => ReadyFor(pages, text, n, due)
  /\ item.len = 0 => ReadyFor(pages, text, n, due)
  /\ \A kind, new :
       kind = (IF item.eol THEN "line" ELSE "space")
       /\ new = Append(text, [kind |-> kind, place |-> <<n, i>>, len |-> 1, from |-> len + item.len]) =>
         /\ Laid(pages, new, len + item.len + 1, PlacesBefore(pages, n, i + 1))
         /\ ReadyFor(pages, new, n, due)

\* One item: its text may follow what is there, and a separator follows it if
\* text does.
LEMMA ItemLaid ==
  ASSUME NEW d \in Documents, NEW pages, pages = d.pages, NEW n \in DOMAIN pages,
         NEW i \in DOMAIN pages[n].items, NEW due \in BOOLEAN, NEW out, NEW len,
         Laid(pages, out, len, PlacesBefore(pages, n, i)), ReadyFor(pages, out, n, due),
         NEW item, item = pages[n].items[i],
         NEW text, text = (IF item.len > 0
                           THEN Append(out, [kind |-> "text", place |-> <<n, i>>, len |-> item.len, from |-> len])
                           ELSE out)
  PROVE  ItemPut(pages, len, n, i, due, item, text)
<1> DEFINE place == <<n, i>>
<1>0. /\ n \in Nat /\ i \in Nat /\ i >= 1 /\ item.len \in Nat /\ item.eol \in BOOLEAN
      /\ place[1] = n /\ place[2] = i /\ TextAt(pages, place) = item /\ place \in Nat \X Nat
  BY Spans, LaidSpans DEF TextAt
<1>1. \A p \in TextPlaces(pages) : p = <<p[1], p[2]>> /\ p[1] \in Nat /\ p[2] \in Nat BY InTextPlaces
<1> HIDE DEF place
<1>2. \A k \in TextsOf(out) :
        /\ out[k].place \in TextPlaces(pages)
        /\ out[k].place[1] < n \/ (out[k].place[1] = n /\ out[k].place[2] < i)
  BY DEF Laid, PlacesBefore
<1>3. CASE item.len = 0
  <2>1. text = out /\ len + item.len = len BY <1>0, <1>3 DEF Laid
  <2>2. place \notin TextPlaces(pages) BY <1>0, <1>3, InTextPlaces
  <2>3. PlacesBefore(pages, n, i + 1) = PlacesBefore(pages, n, i)
    <3>1. ASSUME NEW p \in TextPlaces(pages), p[1] = n, p[2] < i + 1 PROVE p[2] < i
      <4>1. p = <<p[1], p[2]>> /\ p[2] \in Nat BY <1>1
      <4>2. p[2] # i BY <2>2, <3>1, <4>1 DEF place
      <4> QED BY <1>0, <3>1, <4>1, <4>2
    <3>2. \A p \in TextPlaces(pages) : p[2] < i => p[2] < i + 1 BY <1>0, <1>1
    <3> QED BY <3>1, <3>2 DEF PlacesBefore
  <2>4. ASSUME NEW kind \in {"line", "space"}, NEW new,
               new = Append(text, [kind |-> kind, place |-> <<n, i>>, len |-> 1, from |-> len + item.len])
        PROVE  /\ Laid(pages, new, len + item.len + 1, PlacesBefore(pages, n, i + 1))
               /\ ReadyFor(pages, new, n, due)
    <3>1. <<n, i>> \in Nat \X Nat BY <1>0
    <3>2. /\ Laid(pages, new, len + 1, PlacesBefore(pages, n, i)) /\ TextsOf(new) = TextsOf(out)
          /\ \A k \in TextsOf(out) :
               new[k] = out[k] /\ \A t \in BOOLEAN : Ended(pages, out, k, t) => Ended(pages, new, k, t)
      <4>1. Separated(pages, out, new, len, PlacesBefore(pages, n, i), kind)
        BY <2>1, <2>4, <3>1, AddSeparator
      <4> QED BY <4>1 DEF Separated
    <3> QED BY <2>1, <2>3, <3>2 DEF ReadyFor
  <2> QED BY <2>1, <2>3, <2>4 DEF ItemPut
<1>4. CASE item.len > 0
  <2>1. place \in TextPlaces(pages) BY <1>0, <1>4, InTextPlaces DEF place
  <2>2. text = Append(out, [kind |-> "text", place |-> place, len |-> TextAt(pages, place).len, from |-> len])
    BY <1>0, <1>4 DEF place
  <2>3. \A p \in PlacesBefore(pages, n, i) : Precedes(p, place) BY <1>0 DEF PlacesBefore, Precedes
  <2>4. Follows(pages[n].items, i) => HasContent(pages[n].items) BY DEF Follows, HasContent
  <2>5. HasContent(pages[n].items) BY <1>4 DEF HasContent
  <2>6. \A k \in TextsOf(out) : Ended(pages, out, k, out[k].place[1] # place[1])
    <3> SUFFICES ASSUME NEW k \in TextsOf(out) PROVE Ended(pages, out, k, out[k].place[1] # place[1])
      OBVIOUS
    <3>1. CASE out[k].place[1] = n
      <4>1. out[k].place[2] < i BY <1>0, <1>2, <3>1
      <4>2. Follows(pages[n].items, out[k].place[2]) BY <1>4, <4>1 DEF Follows
      <4>3. Ended(pages, out, k, FALSE) BY <3>1, <4>2 DEF ReadyFor
      <4>4. (out[k].place[1] # place[1]) = FALSE BY <1>0, <3>1
      <4> QED BY <4>3, <4>4
    <3>2. CASE out[k].place[1] # n
      <4>1. out[k].place[1] < n BY <1>2, <3>2
      <4>2. Ended(pages, out, k, TRUE) BY <2>5, <4>1 DEF ReadyFor
      <4>3. (out[k].place[1] # place[1]) = TRUE BY <1>0, <3>2
      <4> QED BY <4>2, <4>3
    <3> QED BY <3>1, <3>2
  <2>7. /\ Laid(pages, text, len + item.len, PlacesBefore(pages, n, i) \cup {place})
        /\ Len(out) \in Nat /\ TextsOf(text) = TextsOf(out) \cup {Len(out) + 1}
        /\ text[Len(out) + 1].place = place
        /\ \A k \in TextsOf(out) : text[k] = out[k]
        /\ \A k \in TextsOf(out) : \A t \in BOOLEAN : Ended(pages, out, k, t) => Ended(pages, text, k, t)
    <3>1. Continued(pages, out, text, len, PlacesBefore(pages, n, i), place)
      BY <2>1, <2>2, <2>3, <2>6, AddText
    <3> QED BY <1>0, <3>1 DEF Continued
  <2>8. PlacesBefore(pages, n, i) \cup {place} = PlacesBefore(pages, n, i + 1)
    <3>1. \A p \in TextPlaces(pages) : p[1] = n => (p[2] < i + 1 <=> p[2] < i \/ p = place)
      BY <1>0, <1>1 DEF place
    <3>2. \A p \in TextPlaces(pages) : p = place => p[1] = n BY <1>0
    <3> QED BY <2>1, <3>1, <3>2 DEF PlacesBefore
  <2>9. ASSUME ~Follows(pages[n].items, i) PROVE ReadyFor(pages, text, n, due)
    <3> SUFFICES ASSUME NEW k \in TextsOf(text)
                 PROVE  /\ text[k].place[1] = n /\ Follows(pages[n].items, text[k].place[2]) =>
                             Ended(pages, text, k, FALSE)
                        /\ text[k].place[1] < n => Ended(pages, text, k, TRUE)
      BY <2>5 DEF ReadyFor
    <3>1. CASE k \in TextsOf(out) BY <2>5, <2>7, <3>1 DEF ReadyFor
    <3>2. CASE k = Len(out) + 1
      <4>1. text[k].place[1] = n /\ text[k].place[2] = i BY <1>0, <2>7, <3>2
      <4>2. ~(n < n) BY <1>0
      <4> QED BY <2>9, <4>1, <4>2
    <3> QED BY <2>7, <3>1, <3>2
  <2>10. ASSUME NEW kind, kind = (IF item.eol THEN "line" ELSE "space"), NEW new,
                new = Append(text, [kind |-> kind, place |-> <<n, i>>, len |-> 1, from |-> len + item.len])
         PROVE  /\ Laid(pages, new, len + item.len + 1, PlacesBefore(pages, n, i + 1))
                /\ ReadyFor(pages, new, n, due)
    <3>1. <<n, i>> \in Nat \X Nat /\ kind \in {"space", "line"} BY <1>0, <2>10
    <3>2. Laid(pages, text, len + item.len, PlacesBefore(pages, n, i + 1)) BY <2>7, <2>8
    <3>3. /\ Laid(pages, new, len + item.len + 1, PlacesBefore(pages, n, i + 1))
          /\ TextsOf(new) = TextsOf(text)
          /\ \A k \in TextsOf(text) :
               /\ new[k] = text[k]
               /\ \A t \in BOOLEAN : Ended(pages, text, k, t) => Ended(pages, new, k, t)
               /\ \A t \in BOOLEAN : (TextAt(pages, text[k].place).eol \/ t => kind = "line") =>
                    Ended(pages, new, k, t)
      <4>1. Separated(pages, text, new, len + item.len, PlacesBefore(pages, n, i + 1), kind)
        BY <2>10, <3>1, <3>2, AddSeparator
      <4> QED BY <4>1 DEF Separated
    <3>4. ASSUME NEW k \in TextsOf(new)
          PROVE  /\ new[k].place[1] = n /\ Follows(pages[n].items, new[k].place[2]) =>
                      Ended(pages, new, k, FALSE)
                 /\ new[k].place[1] < n => Ended(pages, new, k, TRUE)
      <4>1. CASE k \in TextsOf(out)
        <5>1. new[k] = out[k] /\ k \in TextsOf(text) BY <2>7, <3>3, <4>1
        <5> QED BY <2>5, <2>7, <3>3, <4>1, <5>1 DEF ReadyFor
      <4>2. CASE k = Len(out) + 1
        <5>1. k \in TextsOf(text) /\ text[k].place = place /\ new[k] = text[k] BY <2>7, <3>3, <4>2
        <5>2. TextAt(pages, text[k].place).eol \/ FALSE => kind = "line" BY <1>0, <2>10, <5>1
        <5>3. Ended(pages, new, k, FALSE) BY <3>3, <5>1, <5>2
        <5>4. new[k].place[1] = n BY <1>0, <5>1
        <5>5. ~(new[k].place[1] < n) BY <1>0, <5>4
        <5> QED BY <5>3, <5>5
      <4> QED BY <2>7, <3>3, <4>1, <4>2
    <3> QED BY <2>5, <3>3, <3>4 DEF ReadyFor
  <2>11. item.len # 0 BY <1>4
  <2> QED BY <2>7, <2>8, <2>9, <2>10, <2>11 DEF ItemPut
<1>5. item.len = 0 \/ item.len > 0 BY <1>0
<1> QED BY <1>3, <1>4, <1>5

\* After its last item a page is done.
LEMMA PageLaid ==
  ASSUME NEW d \in Documents, NEW pages, pages = d.pages, NEW n \in DOMAIN pages,
         NEW i \in Nat, i > Len(pages[n].items)
  PROVE  PlacesBefore(pages, n, i) = PlacesBefore(pages, n + 1, 1)
<1>1. ASSUME NEW p \in TextPlaces(pages)
      PROVE  p[1] < n \/ (p[1] = n /\ p[2] < i) <=> p[1] < n + 1 \/ (p[1] = n + 1 /\ p[2] < 1)
  <2>1. p[1] \in DOMAIN pages /\ p[1] \in Nat /\ p[2] \in DOMAIN pages[p[1]].items BY InTextPlaces
  <2>2. p[2] \in 1..Len(pages[p[1]].items) /\ Len(pages[p[1]].items) \in Nat BY <2>1, LaidSpans
  <2>3. n \in Nat BY Spans
  <2>4. p[1] = n => p[2] < i BY <2>2
  <2> QED BY <2>1, <2>2, <2>3, <2>4
<1> QED BY <1>1 DEF PlacesBefore

LEMMA LaidInvInit == ParserInit => LaidInv
<1> SUFFICES ASSUME ParserInit PROVE LaidInv OBVIOUS
<1>1. /\ ppc = "detect" /\ laidOut = <<>> /\ total = 0 /\ breakPending = FALSE /\ parsed = <<>>
  BY DEF ParserInit
<1>2. 0 <= MaxLaidOut BY ParserAssumption
<1> QED BY <1>1, <1>2 DEF LaidInv

LEMMA NothingLaid ==
  ASSUME NEW d \in Documents, NEW pages, pages = d.pages
  PROVE  Laid(pages, <<>>, 0, PlacesBefore(pages, 1, 1)) /\ TextsOf(<<>>) = {}
<1>1. TextsOf(<<>>) = {} BY DEF TextsOf
<1>2. PlacesBefore(pages, 1, 1) = {}
  <2> SUFFICES ASSUME NEW p \in TextPlaces(pages), p[1] < 1 \/ (p[1] = 1 /\ p[2] < 1) PROVE FALSE
    BY DEF PlacesBefore
  <2>1. p[1] \in DOMAIN pages /\ p[2] \in DOMAIN pages[p[1]].items BY InTextPlaces
  <2>2. p[1] >= 1 /\ p[2] >= 1 /\ p[1] \in Nat /\ p[2] \in Nat BY <2>1, Spans, LaidSpans
  <2> QED BY <2>2
<1>3. Tiled(<<>>, 0) BY DEF Tiled
<1> QED BY <1>1, <1>2, <1>3 DEF Laid

\* All of a PDF is laid out when its last page is.
LEMMA AllLaid ==
  ASSUME NEW d \in Documents, NEW pages, pages = d.pages, NEW n \in Nat, n > Len(pages),
         NEW out, NEW len, len <= MaxLaidOut, Laid(pages, out, len, PlacesBefore(pages, n, 1))
  PROVE  LaidOutWhole(pages, out, len)
<1>1. PlacesBefore(pages, n, 1) = TextPlaces(pages)
  <2>1. ASSUME NEW p \in TextPlaces(pages) PROVE p[1] < n
    <3>1. p[1] \in 1..Len(pages) /\ Len(pages) \in Nat BY Spans, InTextPlaces
    <3> QED BY <3>1
  <2> QED BY <2>1 DEF PlacesBefore
<1> QED BY <1>1 DEF Laid, LaidOutWhole

LEMMA LaidInvStep ==
  ASSUME ParserInv, CheckedInv, LaidInv, ParserStep
  PROVE  LaidInv'
<1> DEFINE pages == document.pages
<1>0. /\ document \in Documents /\ at \in Nat \ {0} /\ MaxLaidOut \in Nat
      /\ Len(pages) \in Nat /\ DOMAIN pages = 1..Len(pages)
      /\ breakPending \in BOOLEAN /\ total <= MaxLaidOut
      /\ ppc \notin {"release", "done"} => parsed = <<>>
  BY Spans, ParserAssumption DEF CheckedInv, ParserInv, LaidInv
<1>t. ASSUME NEW category, Throw(category), ppc \notin {"release", "done"} PROVE ParseFails
  BY <1>0, <1>t DEF Throw, ParseFails
<1>e. ASSUME ParseFails, UNCHANGED <<document, laidVars>> PROVE LaidInv'
  BY <1>0, <1>e DEF LaidInv, ParseFails, laidVars
<1>f. ASSUME NEW type, NEW text, Finalize(type, text), ppc \notin {"release", "done"},
             UNCHANGED <<document, laidVars>>,
             type = "pdf" => LaidOutWhole(pages, text, total)
      PROVE  LaidInv'
  <2>1. CASE document.text = "good"
    <3>1. PICK title : parsed' = <<[type |-> type, title |-> title, text |-> text]>>
      BY <1>f, <2>1 DEF Finalize
    <3>2. ppc' \in {"release", "done"} BY <1>f, <2>1 DEF Finalize
    <3>3. parsed'[1].type = type /\ parsed'[1].text = text BY <3>1
    <3> QED BY <1>0, <1>f, <3>2, <3>3 DEF LaidInv, laidVars
  <2>2. CASE document.text # "good" BY <1>t, <1>e, <1>f, <2>2 DEF Finalize
  <2> QED BY <2>1, <2>2
<1>o. ASSUME ppc' \in {"unzip", "entry", "stream", "structure", "raw"}, parsed' = parsed,
             ppc \notin {"release", "done"}, UNCHANGED <<document, laidVars>>
      PROVE  LaidInv'
  BY <1>0, <1>o DEF LaidInv, laidVars
<1>1. ASSUME Detect PROVE LaidInv'
  <2>1. ppc = "detect" /\ UNCHANGED <<document, laidVars>> BY <1>1 DEF Detect
  <2>2. ASSUME ReadText(document.says), document.says \in {"text", "markdown"} PROVE LaidInv'
    BY <1>t, <1>e, <1>f, <2>1, <2>2 DEF ReadText
  <2>3. CASE Throw("unsupported") \/ Throw("spoofed") \/ Throw("unsafe") BY <1>t, <1>e, <2>1, <2>3
  <2>4. CASE ppc' = "unzip" /\ parsed' = parsed BY <1>o, <2>1, <2>4
  <2>5. CASE ppc' = "load" /\ parsed' = parsed BY <1>0, <2>1, <2>5 DEF LaidInv, laidVars
  <2> QED BY <1>1, <2>2, <2>3, <2>4, <2>5 DEF Detect
<1>2. ASSUME NEW opened \in BOOLEAN, Unzip(opened) PROVE LaidInv'
  BY <1>2, <1>t, <1>e, <1>o DEF Unzip
<1>3. ASSUME OnEntry PROVE LaidInv'
  BY <1>3, <1>t, <1>e, <1>o DEF OnEntry
<1>4. ASSUME EntryRead PROVE LaidInv'
  BY <1>4, <1>t, <1>e, <1>o DEF EntryRead
<1>5. ASSUME ZipFails \/ OnEnd PROVE LaidInv'
  BY <1>5, <1>t, <1>e, <1>o DEF ZipFails, OnEnd
<1>6. ASSUME InspectDocxStructure PROVE LaidInv'
  BY <1>6, <1>t, <1>e, <1>o DEF InspectDocxStructure
<1>7. ASSUME NEW works \in BOOLEAN, ExtractRawText(works) PROVE LaidInv'
  BY <1>7, <1>t, <1>e, <1>f DEF ExtractRawText
<1>8. ASSUME LoadPdf PROVE LaidInv'
  <2>1. /\ ppc = "load" /\ UNCHANGED <<document, at, laidVars, parsed>> /\ ppc' \in {"page", "release"}
    BY <1>8 DEF LoadPdf
  <2>2. at = 1 /\ laidOut = <<>> /\ total = 0 /\ parsed = <<>> BY <1>0, <2>1 DEF LaidInv, CheckedInv
  <2>3. Laid(pages, laidOut, total, PlacesBefore(pages, at, 1)) /\ TextsOf(laidOut) = {}
    BY <1>0, <2>2, NothingLaid
  <2> QED BY <1>0, <2>1, <2>2, <2>3 DEF LaidInv, laidVars
<1>9. ASSUME GetPage PROVE LaidInv'
  <2>1. /\ ppc = "page" /\ ppc' = "content" /\ at <= Len(pages)
        /\ UNCHANGED <<document, at, laidVars, parsed>>
    BY <1>9 DEF GetPage
  <2> QED BY <1>0, <2>1 DEF LaidInv, laidVars
<1>10. ASSUME PageRead PROVE LaidInv'
  <2>1. ppc = "content" /\ UNCHANGED <<document, at>> BY <1>10 DEF PageRead
  <2>2. at \in DOMAIN pages /\ Laid(pages, laidOut, total, PlacesBefore(pages, at, 1))
        /\ (TextsOf(laidOut) # {} => breakPending) /\ parsed = <<>>
    BY <1>0, <2>1 DEF LaidInv
  <2>3. CASE (\E category : Throw(category)) /\ UNCHANGED laidVars BY <1>t, <1>e, <2>1, <2>3
  <2>4. CASE /\ breakPending /\ HasContent(Items) /\ ~(total + 1 > MaxLaidOut)
             /\ laidOut' = Append(laidOut, Piece("line", 0, 1, total)) /\ total' = total + 1
             /\ breakPending' = FALSE /\ atItem' = 1 /\ ppc' = "layout" /\ parsed' = parsed
    <3>1. laidOut' = Append(laidOut, [kind |-> "line", place |-> <<at, 0>>, len |-> 1, from |-> total])
      BY <2>4 DEF Piece
    <3>2. /\ Laid(pages, laidOut', total + 1, PlacesBefore(pages, at, 1))
          /\ ReadyFor(pages, laidOut', at, FALSE)
      BY <1>0, <2>2, <2>4, <3>1, PageBegins DEF Items
    <3>3. total' <= MaxLaidOut BY <1>0, <2>2, <2>4 DEF Laid
    <3>4. at' <= Len(document'.pages) /\ atItem' \in Nat \ {0} BY <1>0, <2>1, <2>2, <2>4
    <3>5. Laid(document'.pages, laidOut', total', PlacesBefore(document'.pages, at', atItem'))
      BY <2>1, <2>4, <3>2
    <3>6. ReadyFor(document'.pages, laidOut', at', breakPending') BY <2>1, <2>4, <3>2
    <3>7. breakPending' \in BOOLEAN /\ ppc' = "layout" /\ parsed' = <<>> BY <2>2, <2>4
    <3> QED BY <3>3, <3>4, <3>5, <3>6, <3>7 DEF LaidInv
  <2>5. CASE /\ ~(breakPending /\ HasContent(Items)) /\ UNCHANGED <<laidOut, total, breakPending>>
             /\ atItem' = 1 /\ ppc' = "layout" /\ parsed' = parsed
    <3>1. ReadyFor(pages, laidOut, at, breakPending) BY <1>0, <2>2, <2>5, PageBegins DEF Items
    <3> QED BY <1>0, <2>1, <2>2, <2>5, <3>1 DEF LaidInv
  <2> QED BY <1>10, <2>3, <2>4, <2>5 DEF PageRead
<1>11. ASSUME PutItem PROVE LaidInv'
  <2> DEFINE item == Items[atItem]
             text == IF item.len > 0
                     THEN Append(laidOut, [kind |-> "text", place |-> <<at, atItem>>, len |-> item.len,
                                           from |-> total])
                     ELSE laidOut
             kind == IF item.eol THEN "line" ELSE "space"
             new == Append(text, [kind |-> kind, place |-> <<at, atItem>>, len |-> 1,
                                  from |-> total + item.len])
             separates == Follows(Items, atItem) /\ (item.eol \/ item.len > 0)
  <2>1. ppc = "layout" /\ UNCHANGED <<document, at>> /\ atItem <= Len(Items) BY <1>11 DEF PutItem
  <2>2. /\ at \in DOMAIN pages /\ parsed = <<>> /\ atItem \in Nat \ {0}
        /\ Laid(pages, laidOut, total, PlacesBefore(pages, at, atItem))
        /\ ReadyFor(pages, laidOut, at, breakPending)
    BY <1>0, <2>1 DEF LaidInv
  <2>3. atItem \in DOMAIN Items /\ item.len \in Nat /\ item.eol \in BOOLEAN /\ total \in Nat
    BY <1>0, <2>1, <2>2, LaidSpans DEF Items, Laid
  <2>4. CASE Throw("text-unavailable") /\ UNCHANGED laidVars BY <1>t, <1>e, <2>1, <2>4
  <2>5. ASSUME UNCHANGED <<ppc, breakPending, parsed>>, atItem' = atItem + 1,
               laidOut' = (IF separates THEN new ELSE text),
               total' = (IF separates THEN total + item.len + 1 ELSE total + item.len),
               total' <= MaxLaidOut
        PROVE  LaidInv'
    <3>1. /\ Laid(pages, text, total + item.len, PlacesBefore(pages, at, atItem + 1))
          /\ ~Follows(Items, atItem) => ReadyFor(pages, text, at, breakPending)
          /\ item.len = 0 => ReadyFor(pages, text, at, breakPending)
          /\ Laid(pages, new, total + item.len + 1, PlacesBefore(pages, at, atItem + 1))
          /\ ReadyFor(pages, new, at, breakPending)
      <4>1. /\ item = pages[at].items[atItem] /\ atItem \in DOMAIN pages[at].items
            /\ breakPending \in BOOLEAN
        BY <1>0, <2>2, <2>3 DEF Items
      <4>2. /\ text = (IF item.len > 0
                      THEN Append(laidOut, [kind |-> "text", place |-> <<at, atItem>>, len |-> item.len,
                                            from |-> total])
                      ELSE laidOut)
            /\ kind = (IF item.eol THEN "line" ELSE "space")
            /\ new = Append(text, [kind |-> kind, place |-> <<at, atItem>>, len |-> 1,
                                  from |-> total + item.len])
        OBVIOUS
      <4>3. Items = pages[at].items BY DEF Items
      <4> HIDE DEF item, text, kind, new
      <4>4. ItemPut(pages, total, at, atItem, breakPending, item, text)
        BY <1>0, <2>2, <4>1, <4>2, ItemLaid
      <4> QED BY <4>2, <4>3, <4>4 DEF ItemPut
    <3>2. ~separates => ~Follows(Items, atItem) \/ item.len = 0 BY <2>3
    <3> HIDE DEF item, text, new, separates
    <3>3. /\ Laid(pages, laidOut', total', PlacesBefore(pages, at, atItem + 1))
          /\ ReadyFor(pages, laidOut', at, breakPending)
      BY <2>5, <3>1, <3>2
    <3> QED BY <1>0, <2>1, <2>2, <2>5, <3>3 DEF LaidInv
  <2> QED BY <1>11, <2>4, <2>5 DEF PutItem, Piece
<1>12. ASSUME PageEnds PROVE LaidInv'
  <2>1. /\ ppc = "layout" /\ ppc' = "page" /\ at' = at + 1 /\ atItem > Len(Items)
        /\ breakPending' = StillPending /\ UNCHANGED <<document, laidOut, total, parsed>>
    BY <1>12 DEF PageEnds
  <2>2. /\ at \in DOMAIN pages /\ parsed = <<>> /\ atItem \in Nat
        /\ Laid(pages, laidOut, total, PlacesBefore(pages, at, atItem))
        /\ ReadyFor(pages, laidOut, at, breakPending)
    BY <1>0, <2>1 DEF LaidInv
  <2>3. Laid(pages, laidOut, total, PlacesBefore(pages, at + 1, 1))
    BY <1>0, <2>1, <2>2, PageLaid DEF Items
  <2>4. TextsOf(laidOut) # {} => HasContent(Items) \/ breakPending BY <2>2 DEF ReadyFor, Items
  <2>5. at + 1 <= Len(pages) /\ TextsOf(laidOut) # {} => StillPending
    BY <1>0, <2>2, <2>4 DEF StillPending
  <2>6. StillPending \in BOOLEAN BY DEF StillPending
  <2> QED BY <1>0, <2>1, <2>2, <2>3, <2>5, <2>6 DEF LaidInv
<1>13. ASSUME PdfRead PROVE LaidInv'
  <2>1. ppc = "page" /\ UNCHANGED <<document, laidVars>> /\ at > Len(pages) BY <1>13 DEF PdfRead
  <2>2. Finalize("pdf", laidOut) \/ Throw("text-unavailable") BY <1>13 DEF PdfRead
  <2>3. LaidOutWhole(pages, laidOut, total) BY <1>0, <2>1, AllLaid DEF LaidInv
  <2> QED BY <1>t, <1>e, <1>f, <2>1, <2>2, <2>3
<1>14. ASSUME PdfFails PROVE LaidInv'
  BY <1>14, <1>t, <1>e DEF PdfFails
<1>15. ASSUME ReleasePdf PROVE LaidInv'
  <2>1. /\ ppc = "release" /\ ppc' \in {"release", "done"}
        /\ UNCHANGED <<document, laidVars, parsed>>
    BY <1>15 DEF ReleasePdf
  <2> QED BY <1>0, <2>1 DEF LaidInv, laidVars
<1> QED BY <1>1, <1>2, <1>3, <1>4, <1>5, <1>6, <1>7, <1>8, <1>9, <1>10, <1>11, <1>12, <1>13, <1>14,
           <1>15
        DEF ParserStep

-----------------------------------------------------------------------------
(* Texts that cite evidence.                                               *)

\* The uses before one, and those after it.
Before(S) == [u \in S |-> {v \in S : Earlier(v, u)}]
After(S) == [u \in S |-> {v \in S : Earlier(u, v)}]

LEMMA EarlierIsOrder ==
  /\ \A u \in Nat \X Nat : ~Earlier(u, u)
  /\ \A u, v \in Nat \X Nat : u # v => Earlier(u, v) \/ Earlier(v, u)
  /\ \A u, v, w \in Nat \X Nat : Earlier(u, v) /\ Earlier(v, w) => Earlier(u, w)
<1>1. \A u \in Nat \X Nat : u[1] \in Nat /\ u[2] \in Nat OBVIOUS
<1>2. \A u, v \in Nat \X Nat : u # v => u[1] # v[1] \/ u[2] # v[2] OBVIOUS
<1> QED BY <1>1, <1>2 DEF Earlier

LEMMA PairsInRow ==
  ASSUME NEW S, S \subseteq Nat \X Nat
  PROVE  InRow(S, Before(S)) /\ InRow(S, After(S))
<1>1. \A u, v \in S : (v \in Before(S)[u] <=> Earlier(v, u)) /\ (v \in After(S)[u] <=> Earlier(u, v))
  BY DEF Before, After
<1>2. Before(S) \in [S -> SUBSET S] /\ After(S) \in [S -> SUBSET S] BY DEF Before, After
<1>3. /\ \A u \in S : ~Earlier(u, u)
      /\ \A u, v \in S : u # v => Earlier(u, v) \/ Earlier(v, u)
      /\ \A u, v, w \in S : Earlier(u, v) /\ Earlier(v, w) => Earlier(u, w)
  BY EarlierIsOrder
<1>4. InRow(S, Before(S))
  <2>1. \A u, v \in S : v \in Before(S)[u] => Before(S)[v] \subseteq Before(S)[u]
    BY <1>1, <1>2, <1>3
  <2> QED BY <1>1, <1>2, <1>3, <2>1 DEF InRow
<1>5. InRow(S, After(S))
  <2>1. \A u, v \in S : v \in After(S)[u] => After(S)[v] \subseteq After(S)[u]
    BY <1>1, <1>2, <1>3
  <2> QED BY <1>1, <1>2, <1>3, <2>1 DEF InRow
<1> QED BY <1>4, <1>5

\* What a claim cites, without repetition.
LEMMA UniqueCites ==
  ASSUME NEW items, NEW cites \in Seq(DOMAIN items), NEW cited,
         cited = UniqueCited(Cited(cites, items))
  PROVE  /\ DOMAIN cited \subseteq Nat /\ IsFiniteSet(DOMAIN cited)
         /\ \A j \in DOMAIN cited : cites[j] \in ToSet(cites) /\ cited[j] = items[cites[j]]
         /\ \A k \in ToSet(cites) : \E j \in DOMAIN cited : cited[j].prov = items[k].prov
<1> DEFINE all == Cited(cites, items)
<1>1. Len(cites) \in Nat /\ DOMAIN cites = 1..Len(cites) OBVIOUS
<1>2. DOMAIN all = DOMAIN cites /\ \A j \in DOMAIN cites : all[j] = items[cites[j]] BY DEF Cited
<1> HIDE DEF all
<1>3. /\ DOMAIN cited \subseteq DOMAIN cites
      /\ \A j \in DOMAIN cited : cited[j] = all[j]
      /\ \A j \in DOMAIN cites : (\A m \in 1..(j - 1) : all[m].prov # all[j].prov) => j \in DOMAIN cited
  BY <1>2 DEF UniqueCited, all
<1>4. IsFiniteSet(DOMAIN cited)
  <2>1. IsFiniteSet(1..Len(cites)) BY <1>1, FS_Interval
  <2> QED BY <1>1, <1>3, <2>1, FS_Subset
<1>5. ASSUME NEW k \in ToSet(cites) PROVE \E j \in DOMAIN cited : cited[j].prov = items[k].prov
  <2> DEFINE same == {m \in DOMAIN cites : all[m].prov = items[k].prov}
  <2>1. PICK p \in DOMAIN cites : cites[p] = k BY DEF ToSet
  <2>2. p \in same BY <1>2, <2>1
  <2>3. same \in SUBSET Nat /\ same # {} BY <1>1, <2>2
  <2>4. \A m \in 1..(Min(same) - 1) : m \in DOMAIN cites /\ m \notin same
    <3>1. Min(same) \in same /\ \A x \in same : Min(same) <= x BY <2>3, MinOfSet
    <3>2. Min(same) \in 1..Len(cites) BY <1>1, <3>1
    <3> HIDE DEF same
    <3> TAKE m \in 1..(Min(same) - 1)
    <3> QED BY <1>1, <3>1, <3>2
  <2>5. Min(same) \in same BY <2>3, MinOfSet
  <2>6. Min(same) \in DOMAIN cites /\ all[Min(same)].prov = items[k].prov BY <2>5
  <2>7. \A m \in 1..(Min(same) - 1) : all[m].prov # all[Min(same)].prov BY <2>4, <2>6
  <2> HIDE DEF same
  <2> QED BY <1>3, <2>6, <2>7
<1>6. \A j \in DOMAIN cited : cites[j] \in ToSet(cites) /\ cited[j] = items[cites[j]]
  BY <1>2, <1>3 DEF ToSet
<1> QED BY <1>1, <1>3, <1>4, <1>5, <1>6

\* Claims as they are rendered.
Citing(prepared, items) ==
  /\ DOMAIN prepared \subseteq Nat /\ IsFiniteSet(DOMAIN prepared)
  /\ \A i \in DOMAIN prepared :
       /\ prepared[i].claim.cites \in Seq(DOMAIN items)
       /\ prepared[i].cited = UniqueCited(Cited(prepared[i].claim.cites, items))

LEMMA UsesAre ==
  ASSUME NEW items, NEW prepared, Citing(prepared, items)
  PROVE  /\ Uses(prepared) \subseteq Nat \X Nat /\ IsFiniteSet(Uses(prepared))
         /\ \A u \in Uses(prepared) :
              u[1] \in DOMAIN prepared /\ u[2] \in DOMAIN prepared[u[1]].cited
         /\ \A i \in DOMAIN prepared : \A j \in DOMAIN prepared[i].cited :
              <<i, j>> \in Uses(prepared) /\ Used(prepared, <<i, j>>) = prepared[i].cited[j]
         /\ \A u \in Uses(prepared) : \E k \in DOMAIN items : Used(prepared, u) = items[k]
<1>1. ASSUME NEW i \in DOMAIN prepared
      PROVE  /\ i \in Nat /\ DOMAIN prepared[i].cited \subseteq Nat
             /\ IsFiniteSet(DOMAIN prepared[i].cited)
             /\ \A j \in DOMAIN prepared[i].cited : \E k \in DOMAIN items : prepared[i].cited[j] = items[k]
  <2>1. /\ prepared[i].claim.cites \in Seq(DOMAIN items)
        /\ prepared[i].cited = UniqueCited(Cited(prepared[i].claim.cites, items))
    BY DEF Citing
  <2>2. ToSet(prepared[i].claim.cites) \subseteq DOMAIN items BY <2>1 DEF ToSet
  <2> QED BY <2>1, <2>2, UniqueCites DEF Citing
<1> DEFINE row(i) == {i} \X DOMAIN prepared[i].cited
           rows == {row(i) : i \in DOMAIN prepared}
<1>2. Uses(prepared) = UNION rows BY DEF Uses
<1>3. IsFiniteSet(rows)
  <2> DEFINE f == [i \in DOMAIN prepared |-> row(i)]
  <2>1. f \in Surjection(DOMAIN prepared, rows) BY DEF Surjection
  <2>2. IsFiniteSet(DOMAIN prepared) BY DEF Citing
  <2> HIDE DEF f, rows
  <2> QED BY <2>1, <2>2, FS_Surjection
<1>4. \A T \in rows : IsFiniteSet(T)
  <2> SUFFICES ASSUME NEW i \in DOMAIN prepared PROVE IsFiniteSet(row(i)) OBVIOUS
  <2>1. IsFiniteSet({i}) BY FS_Singleton
  <2> QED BY <1>1, <2>1, FS_Product
<1>5. IsFiniteSet(Uses(prepared))
  <2> HIDE DEF rows
  <2> QED BY <1>2, <1>3, <1>4, FS_UNION
<1>6. ASSUME NEW u \in Uses(prepared)
      PROVE  /\ u \in Nat \X Nat /\ u[1] \in DOMAIN prepared /\ u[2] \in DOMAIN prepared[u[1]].cited
             /\ \E k \in DOMAIN items : Used(prepared, u) = items[k]
  <2>1. PICK i \in DOMAIN prepared : u \in row(i) BY DEF Uses
  <2>2. u[1] = i /\ u[2] \in DOMAIN prepared[i].cited /\ u = <<u[1], u[2]>> BY <2>1
  <2> QED BY <1>1, <2>2 DEF Used
<1>7. ASSUME NEW i \in DOMAIN prepared, NEW j \in DOMAIN prepared[i].cited
      PROVE  <<i, j>> \in Uses(prepared) /\ Used(prepared, <<i, j>>) = prepared[i].cited[j]
  <2>1. <<i, j>> \in row(i) OBVIOUS
  <2> QED BY <2>1 DEF Uses, Used
<1> QED BY <1>5, <1>6, <1>7

\* Each provenance that is cited has one first use.
LEMMA FirstUsesAre ==
  ASSUME NEW items, NEW prepared, Citing(prepared, items)
  PROVE  /\ FirstUses(prepared) \subseteq Uses(prepared) /\ IsFiniteSet(FirstUses(prepared))
         /\ \A u \in Uses(prepared) : \E v \in FirstUses(prepared) :
              Used(prepared, v).prov = Used(prepared, u).prov
         /\ \A u, v \in FirstUses(prepared) :
              Used(prepared, v).prov = Used(prepared, u).prov => u = v
<1> DEFINE U == Uses(prepared)
           prov(u) == Used(prepared, u).prov
<1>1. U \subseteq Nat \X Nat /\ IsFiniteSet(U) BY UsesAre
<1>2. FirstUses(prepared) = {u \in U : \A v \in U : Earlier(v, u) => prov(v) # prov(u)}
  BY DEF FirstUses
<1> HIDE DEF U, prov
<1>3. FirstUses(prepared) \subseteq U /\ IsFiniteSet(FirstUses(prepared)) BY <1>1, <1>2, FS_Subset
<1>4. ASSUME NEW u \in U PROVE \E v \in FirstUses(prepared) : prov(v) = prov(u)
  <2> DEFINE T == {v \in U : prov(v) = prov(u)}
  <2>1. T \subseteq U /\ T # {} OBVIOUS
  <2>2. InRow(U, After(U)) BY <1>1, PairsInRow
  <2>3. PICK m \in T : \A p \in T : p # m => p \in After(U)[m]
    <3> HIDE DEF T
    <3> QED BY <1>1, <2>1, <2>2, LastInRow DEF LastOf
  <2>4. \A p \in T : p # m => Earlier(m, p) BY <2>3 DEF After
  <2>5. \A v \in U : Earlier(v, m) => prov(v) # prov(m)
    <3> SUFFICES ASSUME NEW v \in U, Earlier(v, m), prov(v) = prov(m) PROVE FALSE OBVIOUS
    <3>1. v \in T /\ m \in Nat \X Nat /\ v \in Nat \X Nat BY <1>1
    <3>2. v # m BY <3>1, EarlierIsOrder
    <3>3. Earlier(m, v) BY <2>4, <3>1, <3>2
    <3> QED BY <3>1, <3>3, EarlierIsOrder
  <2> QED BY <1>2, <2>5
<1>5. \A u, v \in FirstUses(prepared) : prov(v) = prov(u) => u = v
  <2> SUFFICES ASSUME NEW u \in FirstUses(prepared), NEW v \in FirstUses(prepared), prov(v) = prov(u), u # v
               PROVE  FALSE
    OBVIOUS
  <2>1. u \in Nat \X Nat /\ v \in Nat \X Nat BY <1>1, <1>3
  <2>2. Earlier(u, v) \/ Earlier(v, u) BY <2>1, EarlierIsOrder
  <2> QED BY <1>2, <2>2
<1> QED BY <1>3, <1>4, <1>5 DEF U, prov

\* The source block: one entry for each first use, numbered in their order.
LEMMA SourcesAre ==
  ASSUME NEW items, NEW prepared, Citing(prepared, items)
  PROVE  LET sources == Sources(prepared)
         IN  /\ \A n \in DOMAIN sources : \E u \in FirstUses(prepared) :
                  /\ sources[n].item = Used(prepared, u)
                  /\ sources[n].stale = Used(prepared, u).stale
             /\ \A u \in FirstUses(prepared) : \E n \in DOMAIN sources :
                  sources[n].item = Used(prepared, u)
             /\ \A n, m \in DOMAIN sources : sources[n].item.prov = sources[m].item.prov => n = m
             /\ \A n \in DOMAIN sources, u \in Uses(prepared) :
                  /\ prepared[u[1]].claim.kind = "conflict"
                  /\ Used(prepared, u).prov = sources[n].item.prov
                  => sources[n].conflict
<1> DEFINE F == FirstUses(prepared)
           B == Before(F)
           c == Cardinality(F)
           s == Sources(prepared)
<1>1. /\ F \subseteq Nat \X Nat /\ IsFiniteSet(F)
      /\ \A u, v \in F : Used(prepared, v).prov = Used(prepared, u).prov => u = v
  BY UsesAre, FirstUsesAre
<1>2. InRow(F, B) BY <1>1, PairsInRow
<1>3. \A u \in F : B[u] = {v \in F : Earlier(v, u)} BY DEF Before
<1>4. /\ DOMAIN s = 1..c
      /\ \A n \in 1..c : /\ s[n].item = Used(prepared, FirstUse(prepared, n))
                         /\ s[n].stale = s[n].item.stale
                         /\ s[n].conflict = (s[n].item.prov \in
                              {Used(prepared, u).prov :
                                 u \in {v \in Uses(prepared) : prepared[v[1]].claim.kind = "conflict"}})
  BY DEF Sources
<1>5. \A n : FirstUse(prepared, n) =
               CHOOSE u \in F : Cardinality({v \in F : Earlier(v, u)}) = n - 1
  BY DEF FirstUse
<1> HIDE DEF F, B, s
<1>6. /\ c \in Nat
      /\ \A p, q \in F : Cardinality(B[p]) = Cardinality(B[q]) => p = q
      /\ \A p \in F : Cardinality(B[p]) + 1 \in 1..c
      /\ \A n \in 1..c : \E p \in F : Cardinality(B[p]) + 1 = n
  BY <1>1, <1>2, Ranks
<1> HIDE DEF c
<1>7. \A p \in F : Cardinality(B[p]) \in Nat
  <2>1. \A p \in F : IsFiniteSet(B[p]) BY <1>1, <1>3, FS_Subset
  <2> QED BY <2>1, FS_CardinalityType
<1>8. ASSUME NEW n \in 1..c
      PROVE  FirstUse(prepared, n) \in F /\ Cardinality(B[FirstUse(prepared, n)]) = n - 1
  <2>1. PICK p \in F : Cardinality(B[p]) + 1 = n BY <1>6
  <2>2. Cardinality(B[p]) = n - 1 BY <1>7, <2>1
  <2>3. Cardinality({v \in F : Earlier(v, p)}) = n - 1 BY <1>3, <2>2
  <2>4. /\ FirstUse(prepared, n) \in F
        /\ Cardinality({v \in F : Earlier(v, FirstUse(prepared, n))}) = n - 1
    BY <1>5, <2>3
  <2> QED BY <1>3, <2>4
<1>9. ASSUME NEW u \in F PROVE \E n \in 1..c : FirstUse(prepared, n) = u
  <2> DEFINE n == Cardinality(B[u]) + 1
  <2>1. n \in 1..c /\ n - 1 = Cardinality(B[u]) BY <1>6, <1>7
  <2> HIDE DEF n
  <2>2. FirstUse(prepared, n) \in F /\ Cardinality(B[FirstUse(prepared, n)]) = Cardinality(B[u])
    BY <1>8, <2>1
  <2> QED BY <1>6, <2>1, <2>2
<1>10. ASSUME NEW n \in 1..c, NEW m \in 1..c, s[n].item.prov = s[m].item.prov PROVE n = m
  <2>1. FirstUse(prepared, n) = FirstUse(prepared, m) BY <1>1, <1>4, <1>8, <1>10
  <2>2. n - 1 = m - 1 BY <1>8, <2>1
  <2>3. n \in Nat /\ m \in Nat BY <1>6
  <2> QED BY <2>2, <2>3
<1>11. \A n \in DOMAIN s : \E u \in F :
         s[n].item = Used(prepared, u) /\ s[n].stale = Used(prepared, u).stale
  BY <1>4, <1>8
<1>12. \A u \in F : \E n \in DOMAIN s : s[n].item = Used(prepared, u) BY <1>4, <1>9
<1>13. \A n, m \in DOMAIN s : s[n].item.prov = s[m].item.prov => n = m BY <1>4, <1>10
<1>14. ASSUME NEW n \in DOMAIN s, NEW u \in Uses(prepared), prepared[u[1]].claim.kind = "conflict",
              Used(prepared, u).prov = s[n].item.prov
       PROVE  s[n].conflict
  <2>1. s[n].item.prov \in {Used(prepared, w).prov :
                             w \in {v \in Uses(prepared) : prepared[v[1]].claim.kind = "conflict"}}
    BY <1>14
  <2> QED BY <1>4, <2>1
<1> QED BY <1>11, <1>12, <1>13, <1>14 DEF F, s

LEMMA NumbersAre ==
  ASSUME NEW items, NEW prepared, Citing(prepared, items)
  PROVE  LET sources == Sources(prepared)
         IN  /\ \A u \in Uses(prepared) :
                  /\ Number(Used(prepared, u).prov, sources) \in DOMAIN sources
                  /\ sources[Number(Used(prepared, u).prov, sources)].item.prov = Used(prepared, u).prov
             /\ \A n \in DOMAIN sources : Number(sources[n].item.prov, sources) = n
<1> DEFINE s == Sources(prepared)
<1>1. \A n, m \in DOMAIN s : s[n].item.prov = s[m].item.prov => n = m BY SourcesAre
<1>2. ASSUME NEW u \in Uses(prepared)
      PROVE  \E n \in DOMAIN s : s[n].item.prov = Used(prepared, u).prov
  <2>1. PICK v \in FirstUses(prepared) : Used(prepared, v).prov = Used(prepared, u).prov
    BY FirstUsesAre
  <2>2. PICK n \in DOMAIN s : s[n].item = Used(prepared, v) BY SourcesAre
  <2> QED BY <2>1, <2>2
<1> HIDE DEF s
<1>3. \A n \in DOMAIN s : Number(s[n].item.prov, s) = n BY <1>1 DEF Number
<1>4. \A u \in Uses(prepared) :
        /\ Number(Used(prepared, u).prov, s) \in DOMAIN s
        /\ s[Number(Used(prepared, u).prov, s)].item.prov = Used(prepared, u).prov
  BY <1>2 DEF Number
<1> QED BY <1>3, <1>4 DEF s

LEMMA LinesAre ==
  ASSUME NEW prepared
  PROVE  LET text == Candidate(prepared)
         IN  /\ text.sources = Sources(prepared)
             /\ DOMAIN text.lines = DOMAIN prepared
             /\ \A i \in DOMAIN prepared :
                  /\ text.lines[i].claim = prepared[i].claim
                  /\ text.lines[i].flags = Flags(prepared[i].claim.kind, prepared[i].cited)
                  /\ DOMAIN text.lines[i].numbers = DOMAIN prepared[i].cited
                  /\ \A j \in DOMAIN prepared[i].cited :
                       text.lines[i].numbers[j] = Number(prepared[i].cited[j].prov, Sources(prepared))
BY DEF Candidate

\* The numbers of a text resolve, whatever its claims cite.
LEMMA CandidateResolves ==
  ASSUME NEW items, NEW prepared, Citing(prepared, items)
  PROVE  Resolves(Candidate(prepared), items)
<1> DEFINE t == Candidate(prepared)
           s == Sources(prepared)
<1>0. /\ t.sources = s /\ DOMAIN t.lines = DOMAIN prepared
      /\ \A i \in DOMAIN prepared :
           /\ t.lines[i].claim = prepared[i].claim
           /\ DOMAIN t.lines[i].numbers = DOMAIN prepared[i].cited
           /\ \A j \in DOMAIN prepared[i].cited :
                t.lines[i].numbers[j] = Number(prepared[i].cited[j].prov, s)
  BY LinesAre
<1>1. /\ \A u \in Uses(prepared) :
           /\ Number(Used(prepared, u).prov, s) \in DOMAIN s
           /\ s[Number(Used(prepared, u).prov, s)].item.prov = Used(prepared, u).prov
      /\ \A n \in DOMAIN s : Number(s[n].item.prov, s) = n
  BY NumbersAre
<1>2. \A n, m \in DOMAIN s : s[n].item.prov = s[m].item.prov => n = m BY SourcesAre
<1>3. \A n \in DOMAIN s : \E u \in Uses(prepared) : s[n].item = Used(prepared, u)
  BY SourcesAre, FirstUsesAre
<1> HIDE DEF t, s
<1>4. ASSUME NEW i \in DOMAIN prepared, NEW j \in DOMAIN prepared[i].cited
      PROVE  /\ t.lines[i].numbers[j] \in DOMAIN s
             /\ s[t.lines[i].numbers[j]].item.prov = prepared[i].cited[j].prov
  <2>1. <<i, j>> \in Uses(prepared) /\ Used(prepared, <<i, j>>) = prepared[i].cited[j] BY UsesAre
  <2> QED BY <1>0, <1>1, <2>1
<1>5. ASSUME NEW i \in DOMAIN prepared
      PROVE  {s[n].item.prov : n \in Range(t.lines[i].numbers)}
               = {items[k].prov : k \in ToSet(t.lines[i].claim.cites)}
  <2> DEFINE cites == prepared[i].claim.cites
             cited == prepared[i].cited
  <2>1. /\ \A j \in DOMAIN cited : cites[j] \in ToSet(cites) /\ cited[j] = items[cites[j]]
        /\ \A k \in ToSet(cites) : \E j \in DOMAIN cited : cited[j].prov = items[k].prov
    BY UniqueCites DEF Citing
  <2>2. Range(t.lines[i].numbers) = {t.lines[i].numbers[j] : j \in DOMAIN cited}
    BY <1>0 DEF Range
  <2>3. ASSUME NEW n \in Range(t.lines[i].numbers)
        PROVE  \E k \in ToSet(cites) : s[n].item.prov = items[k].prov
    <3>1. PICK j \in DOMAIN cited : n = t.lines[i].numbers[j] BY <2>2
    <3> QED BY <1>4, <2>1, <3>1
  <2>4. ASSUME NEW k \in ToSet(cites)
        PROVE  \E n \in Range(t.lines[i].numbers) : s[n].item.prov = items[k].prov
    <3>1. PICK j \in DOMAIN cited : cited[j].prov = items[k].prov BY <2>1
    <3>2. t.lines[i].numbers[j] \in Range(t.lines[i].numbers) BY <2>2
    <3> QED BY <1>4, <3>1, <3>2
  <2>5. t.lines[i].claim.cites = cites BY <1>0
  <2> HIDE DEF cites
  <2> QED BY <2>3, <2>4, <2>5
<1>6. DOMAIN s = UNION {Range(t.lines[i].numbers) : i \in DOMAIN prepared}
  <2>1. ASSUME NEW i \in DOMAIN prepared, NEW n \in Range(t.lines[i].numbers) PROVE n \in DOMAIN s
    <3>1. PICK j \in DOMAIN prepared[i].cited : n = t.lines[i].numbers[j] BY <1>0 DEF Range
    <3> QED BY <1>4, <3>1
  <2>2. ASSUME NEW n \in DOMAIN s PROVE \E i \in DOMAIN prepared : n \in Range(t.lines[i].numbers)
    <3>1. PICK u \in Uses(prepared) : s[n].item = Used(prepared, u) BY <1>3
    <3>2. /\ u[1] \in DOMAIN prepared /\ u[2] \in DOMAIN prepared[u[1]].cited
          /\ Used(prepared, u) = prepared[u[1]].cited[u[2]]
      BY UsesAre DEF Used
    <3>3. t.lines[u[1]].numbers[u[2]] = n BY <1>0, <1>1, <3>1, <3>2
    <3>4. n \in Range(t.lines[u[1]].numbers) BY <1>0, <3>2, <3>3 DEF Range
    <3> QED BY <3>2, <3>4
  <2> QED BY <2>1, <2>2
<1>7. IsInjective([n \in DOMAIN s |-> s[n].item.prov]) BY <1>2 DEF IsInjective
<1>8. \A i \in DOMAIN t.lines :
        {t.sources[n].item.prov : n \in Range(t.lines[i].numbers)}
          = {items[k].prov : k \in ToSet(t.lines[i].claim.cites)}
  <2>1. t.sources = s /\ DOMAIN t.lines = DOMAIN prepared BY <1>0
  <2> QED BY <1>5, <2>1
<1>9. DOMAIN t.sources = UNION {Range(t.lines[i].numbers) : i \in DOMAIN t.lines}
  BY <1>0, <1>6
<1>10. IsInjective([n \in DOMAIN t.sources |-> t.sources[n].item.prov]) BY <1>0, <1>7
<1>11. Resolves(t, items) BY <1>8, <1>9, <1>10 DEF Resolves
<1> QED BY <1>11 DEF t

-----------------------------------------------------------------------------
\* What a source of the text says of a cited item.
StandsFor(s, e) ==
  s.item.prov = e.prov /\ s.item.tier = e.tier /\ s.item.source = e.source /\ s.stale = e.stale

\* Behind a line stand the items its claim cites, and no others.
LEMMA BehindAre ==
  ASSUME NEW items, OfIndex(items), NEW prepared, Citing(prepared, items), NEW i \in DOMAIN prepared
  PROVE  LET text == Candidate(prepared)
             behind == Behind(text.lines[i], text)
             cites == prepared[i].claim.cites
         IN  /\ \A s \in behind : \E k \in ToSet(cites) : StandsFor(s, items[k])
             /\ \A k \in ToSet(cites) : \E s \in behind : StandsFor(s, items[k])
             /\ prepared[i].claim.kind = "conflict" => \A s \in behind : s.conflict
<1> DEFINE t == Candidate(prepared)
           b == Behind(t.lines[i], t)
           src == Sources(prepared)
           cites == prepared[i].claim.cites
           cited == prepared[i].cited
<1>1. /\ t.sources = src /\ t.lines[i].claim = prepared[i].claim
      /\ DOMAIN t.lines[i].numbers = DOMAIN cited
      /\ \A j \in DOMAIN cited : t.lines[i].numbers[j] = Number(cited[j].prov, src)
  BY LinesAre
<1>2. /\ \A j \in DOMAIN cited : cites[j] \in ToSet(cites) /\ cited[j] = items[cites[j]]
      /\ \A k \in ToSet(cites) : \E j \in DOMAIN cited : cited[j].prov = items[k].prov
  BY UniqueCites DEF Citing
<1>3. ToSet(cites) \subseteq DOMAIN items
  <2>1. cites \in Seq(DOMAIN items) BY DEF Citing
  <2> HIDE DEF cites
  <2> QED BY <2>1 DEF ToSet
<1>4. \A u \in Uses(prepared) :
        /\ Number(Used(prepared, u).prov, src) \in DOMAIN src
        /\ src[Number(Used(prepared, u).prov, src)].item.prov = Used(prepared, u).prov
  BY NumbersAre
<1>5. \A n \in DOMAIN src : \E k \in DOMAIN items : src[n].item = items[k] /\ src[n].stale = items[k].stale
  <2> TAKE n \in DOMAIN src
  <2>1. PICK u \in FirstUses(prepared) :
          src[n].item = Used(prepared, u) /\ src[n].stale = Used(prepared, u).stale
    BY SourcesAre
  <2>2. PICK k \in DOMAIN items : Used(prepared, u) = items[k] BY FirstUsesAre, UsesAre
  <2> QED BY <2>1, <2>2
<1>6. \A n \in DOMAIN src, u \in Uses(prepared) :
        prepared[u[1]].claim.kind = "conflict" /\ Used(prepared, u).prov = src[n].item.prov
        => src[n].conflict
  BY SourcesAre
<1>7. b = {src[t.lines[i].numbers[j]] : j \in DOMAIN cited} BY <1>1 DEF Behind, Range
<1> HIDE DEF t, b, src
<1>8. ASSUME NEW j \in DOMAIN cited
      PROVE  LET s == src[t.lines[i].numbers[j]]
             IN  /\ s \in b /\ StandsFor(s, cited[j])
                 /\ prepared[i].claim.kind = "conflict" => s.conflict
  <2> DEFINE n == t.lines[i].numbers[j]
  <2>1. <<i, j>> \in Uses(prepared) /\ Used(prepared, <<i, j>>) = cited[j] /\ <<i, j>>[1] = i BY UsesAre
  <2>2. n \in DOMAIN src /\ src[n].item.prov = cited[j].prov BY <1>1, <1>4, <2>1
  <2>3. PICK k \in DOMAIN items : src[n].item = items[k] /\ src[n].stale = items[k].stale BY <1>5, <2>2
  <2>4. cites[j] \in DOMAIN items /\ cited[j] = items[cites[j]] BY <1>2, <1>3
  <2>5. StandsFor(src[n], cited[j]) BY <2>2, <2>3, <2>4 DEF OfIndex, StandsFor
  <2>6. prepared[i].claim.kind = "conflict" => src[n].conflict BY <1>6, <2>1, <2>2
  <2> QED BY <1>7, <2>5, <2>6
<1>9. \A s \in b : \E k \in ToSet(cites) : StandsFor(s, items[k])
  <2> SUFFICES ASSUME NEW j \in DOMAIN cited
               PROVE  \E k \in ToSet(cites) : StandsFor(src[t.lines[i].numbers[j]], items[k])
    BY <1>7
  <2> QED BY <1>2, <1>8
<1>10. \A k \in ToSet(cites) : \E s \in b : StandsFor(s, items[k])
  <2> TAKE k \in ToSet(cites)
  <2>1. PICK j \in DOMAIN cited : cited[j].prov = items[k].prov BY <1>2
  <2>2. StandsFor(src[t.lines[i].numbers[j]], cited[j]) /\ src[t.lines[i].numbers[j]] \in b BY <1>8
  <2>3. k \in DOMAIN items /\ cites[j] \in DOMAIN items /\ cited[j] = items[cites[j]] BY <1>2, <1>3
  <2>4. /\ cited[j].source = items[k].source /\ cited[j].tier = items[k].tier
        /\ cited[j].stale = items[k].stale
    BY <2>1, <2>3 DEF OfIndex
  <2>5. StandsFor(src[t.lines[i].numbers[j]], items[k]) BY <2>1, <2>2, <2>4 DEF StandsFor
  <2> QED BY <2>2, <2>5
<1>11. prepared[i].claim.kind = "conflict" => \A s \in b : s.conflict BY <1>7, <1>8
<1> QED BY <1>9, <1>10, <1>11 DEF b, t

LEMMA CitedAre ==
  ASSUME NEW items, NEW cites
  PROVE  ToSet(Cited(cites, items)) = {items[k] : k \in ToSet(cites)}
BY DEF Cited, ToSet

\* Claims that passed the parser, at their positions.
Accepted(claim, items) ==
  LET cited == Cited(claim.cites, items)
  IN  /\ claim.kind = "fact" => ~AllUnverified(cited)
      /\ claim.kind = "conflict" => ConflictShown(claim, cited)

\* What is shown of accepted claims is grounded.
LEMMA CandidateGrounded ==
  ASSUME NEW items, OfIndex(items), \A k \in DOMAIN items : items[k].formed,
         NEW prepared, Citing(prepared, items), NEW S,
         \A i \in DOMAIN prepared : prepared[i].claim \in S /\ Accepted(prepared[i].claim, items)
  PROVE  Grounded(Candidate(prepared), items, S)
<1> DEFINE t == Candidate(prepared)
<1>0. DOMAIN t.lines = DOMAIN prepared BY LinesAre
<1> SUFFICES ASSUME NEW i \in DOMAIN prepared PROVE LineGrounded(t.lines[i], t, items, S)
  BY <1>0 DEF Grounded
<1> DEFINE b == Behind(t.lines[i], t)
           c == prepared[i].claim
           cited == prepared[i].cited
           tiers == {s.item.tier : s \in b}
<1>1. t.lines[i].claim = c /\ t.lines[i].flags = Flags(c.kind, cited) BY LinesAre
<1>2. /\ \A s \in b : \E k \in ToSet(c.cites) : StandsFor(s, items[k])
      /\ \A k \in ToSet(c.cites) : \E s \in b : StandsFor(s, items[k])
      /\ c.kind = "conflict" => \A s \in b : s.conflict
  BY BehindAre
<1>3. c \in S /\ Accepted(c, items) OBVIOUS
<1>4. ToSet(Cited(c.cites, items)) = {items[k] : k \in ToSet(c.cites)} BY CitedAre
<1>5. ToSet(c.cites) \subseteq DOMAIN items
  <2>1. c.cites \in Seq(DOMAIN items) BY DEF Citing
  <2> HIDE DEF c
  <2> QED BY <2>1 DEF ToSet
<1>6. /\ \A j \in DOMAIN cited : c.cites[j] \in ToSet(c.cites) /\ cited[j] = items[c.cites[j]]
      /\ \A k \in ToSet(c.cites) : \E j \in DOMAIN cited : cited[j].prov = items[k].prov
  BY UniqueCites DEF Citing
<1>7. Range(cited) = {cited[j] : j \in DOMAIN cited} BY DEF Range
<1> HIDE DEF t, b, c, cited
<1>8. tiers = {items[k].tier : k \in ToSet(c.cites)} BY <1>2 DEF StandsFor
<1>9. {e.tier : e \in Range(cited)} = {items[k].tier : k \in ToSet(c.cites)}
  <2>1. \A e \in Range(cited) : \E k \in ToSet(c.cites) : e.tier = items[k].tier BY <1>6, <1>7
  <2>2. ASSUME NEW k \in ToSet(c.cites) PROVE \E e \in Range(cited) : e.tier = items[k].tier
    <3>1. PICK j \in DOMAIN cited : cited[j].prov = items[k].prov BY <1>6
    <3>2. k \in DOMAIN items /\ c.cites[j] \in DOMAIN items /\ cited[j] = items[c.cites[j]] BY <1>5, <1>6
    <3>3. cited[j].tier = items[k].tier BY <3>1, <3>2 DEF OfIndex
    <3> QED BY <1>7, <3>3
  <2> QED BY <2>1, <2>2
<1>10. tiers \subseteq {"official", "community", "unverified"} BY <1>5, <1>8 DEF OfIndex
<1>11. c.kind = "fact" => tiers \ {"unverified"} # {}
  <2> SUFFICES ASSUME c.kind = "fact" PROVE tiers \ {"unverified"} # {} OBVIOUS
  <2>1. ~AllUnverified(Cited(c.cites, items)) BY <1>3 DEF Accepted
  <2>2. \E k \in ToSet(c.cites) : items[k].tier # "unverified" BY <1>4, <2>1 DEF AllUnverified
  <2> HIDE DEF tiers
  <2> QED BY <1>8, <2>2
<1>12. c.kind = "conflict" =>
         Cardinality({s.item.source : s \in {x \in b : x.item.tier = "official"}}) >= 2
  <2> SUFFICES ASSUME c.kind = "conflict"
               PROVE Cardinality({s.item.source : s \in {x \in b : x.item.tier = "official"}}) >= 2
    OBVIOUS
  <2>1. Cardinality({e.source : e \in Official(Cited(c.cites, items))}) >= 2
    BY <1>3 DEF Accepted, ConflictShown
  <2>2. {e.source : e \in Official(Cited(c.cites, items))}
          = {s.item.source : s \in {x \in b : x.item.tier = "official"}}
    BY <1>2, <1>4 DEF Official, StandsFor
  <2> QED BY <2>1, <2>2
<1>13. tiers \cap {"official"} = {} /\ tiers # {} =>
         Flags(c.kind, cited) \cap {"communityOnly", "mixedUnverified"} # {}
  <2> SUFFICES ASSUME tiers \cap {"official"} = {}, tiers # {}
               PROVE  Flags(c.kind, cited) \cap {"communityOnly", "mixedUnverified"} # {}
    OBVIOUS
  <2>0. {e.tier : e \in Range(cited)} = tiers BY <1>8, <1>9
  <2> HIDE DEF tiers
  <2>1. tiers = {"community"} \/ ("unverified" \in tiers /\ "official" \notin tiers) BY <1>10
  <2>2. CASE tiers = {"community"}
    <3>1. "communityOnly" \in Flags(c.kind, cited) BY <2>0, <2>2 DEF Flags
    <3> QED BY <3>1
  <2>3. CASE "unverified" \in tiers /\ "official" \notin tiers
    <3>1. "mixedUnverified" \in Flags(c.kind, cited) BY <2>0, <2>3 DEF Flags
    <3> QED BY <3>1
  <2> QED BY <2>1, <2>2, <2>3
<1>14. \A k \in ToSet(c.cites) :
         items[k].stale => \E s \in b : s.item.prov = items[k].prov /\ s.stale
  BY <1>2 DEF StandsFor
<1> QED BY <1>1, <1>2, <1>3, <1>11, <1>12, <1>13, <1>14 DEF LineGrounded, b

-----------------------------------------------------------------------------
LEMMA NoTextIsFine ==
  \A items, S : Resolves(NoText, items) /\ Grounded(NoText, items, S)
<1>1. DOMAIN NoText.lines = {} /\ DOMAIN NoText.sources = {} BY DEF NoText
<1> QED BY <1>1 DEF Resolves, Grounded, IsInjective

\* Whatever is rendered of accepted claims resolves and is grounded.
LEMMA Rendered ==
  ASSUME NEW items, OfIndex(items), \A k \in DOMAIN items : items[k].formed,
         NEW prepared, Citing(prepared, items), NEW S,
         \A i \in DOMAIN prepared : prepared[i].claim \in S /\ Accepted(prepared[i].claim, items)
  PROVE  /\ Resolves(RenderAnswer(prepared), items)
         /\ Grounded(RenderAnswer(prepared), items, S)
         /\ \A i \in DOMAIN RenderAnswer(prepared).lines :
              \E j \in DOMAIN prepared : RenderAnswer(prepared).lines[i].claim = prepared[j].claim
<1>1. CASE Fitting(prepared) = {}
  <2>1. RenderAnswer(prepared) = NoText BY <1>1 DEF RenderAnswer
  <2>2. DOMAIN NoText.lines = {} BY DEF NoText
  <2> QED BY <2>1, <2>2, NoTextIsFine
<1>2. CASE Fitting(prepared) # {}
  <2> DEFINE n == Max(Fitting(prepared))
             p == UpTo(prepared, n)
  <2>1. RenderAnswer(prepared) = Candidate(p) BY <1>2 DEF RenderAnswer
  <2>2. DOMAIN p \subseteq DOMAIN prepared /\ \A i \in DOMAIN p : p[i] = prepared[i]
    BY DEF UpTo, Restrict
  <2> HIDE DEF p
  <2>3. Citing(p, items) BY <2>2, FS_Subset DEF Citing
  <2>4. \A i \in DOMAIN p : p[i].claim \in S /\ Accepted(p[i].claim, items) BY <2>2
  <2>5. Resolves(Candidate(p), items) /\ Grounded(Candidate(p), items, S)
    BY <2>3, <2>4, CandidateResolves, CandidateGrounded
  <2>6. DOMAIN Candidate(p).lines = DOMAIN p /\ \A i \in DOMAIN p : Candidate(p).lines[i].claim = p[i].claim
    BY LinesAre
  <2> QED BY <2>1, <2>2, <2>5, <2>6
<1> QED BY <1>1, <1>2

-----------------------------------------------------------------------------
(* One answer.                                                             *)

\* Evidence as an index gives it and the snapshot accepts it.
Sound(items) == OfIndex(items) /\ \A k \in DOMAIN items : items[k].formed

LEMMA NothingIsSound == Sound(<<>>)
<1>1. DOMAIN <<>> = {} /\ <<>> \in Seq(ToSet(<<>>)) OBVIOUS
<1> QED BY <1>1 DEF Sound, OfIndex

LEMMA RetrievedIsSound ==
  ASSUME NEW items \in Retrievals, SnapshotValid(items) PROVE Sound(items)
BY AnswerAssumption DEF Sound, SnapshotValid

\* Citations that are known are positions of the evidence.
LEMMA KnownCites ==
  ASSUME NEW claims, OfModel(claims), NEW i \in DOMAIN claims, NEW items, Known(claims[i].cites, items)
  PROVE  claims[i].cites \in Seq(DOMAIN items)
<1>1. PICK c : c = claims[i].cites OBVIOUS
<1>2. c \in Seq(ToSet(c)) /\ ToSet(c) \subseteq DOMAIN items BY <1>1 DEF OfModel, Known
<1> QED BY <1>1, <1>2

\* Claims at positions of an output, as they are put before the renderer.
LEMMA ClaimsCite ==
  ASSUME NEW claims, OfModel(claims), NEW items, NEW prepared,
         DOMAIN prepared \subseteq DOMAIN claims,
         \A i \in DOMAIN claims : Known(claims[i].cites, items),
         \A i \in DOMAIN prepared :
           prepared[i] = [claim |-> claims[i], cited |-> UniqueCited(Cited(claims[i].cites, items))]
  PROVE  Citing(prepared, items)
<1>1. claims \in Seq(ToSet(claims)) BY DEF OfModel
<1>2. Len(claims) \in Nat /\ DOMAIN claims = 1..Len(claims) BY <1>1
<1>3. DOMAIN prepared \subseteq Nat /\ IsFiniteSet(DOMAIN prepared)
  <2>1. IsFiniteSet(1..Len(claims)) BY <1>2, FS_Interval
  <2> QED BY <1>2, <2>1, FS_Subset
<1>4. \A i \in DOMAIN claims : claims[i].cites \in Seq(DOMAIN items) BY KnownCites
<1> QED BY <1>3, <1>4 DEF Citing

DraftInv == OfModel(draft) /\ \A i \in DOMAIN draft : ClaimAccepted(draft[i], evidence)

ReplyInv ==
  \/ reply.text = NoText /\ reply.kind # "rendered"
  \/ qpc = "done" /\ AnswerResolves /\ AnswerGrounded

AnswerInv ==
  /\ qpc \in {"received", "persist", "retrieve"} => evidence = <<>>
  /\ Sound(evidence)
  /\ qpc \notin {"verify", "done"} => usage = 0
  /\ qpc = "verify" => usage = 1 /\ DraftInv
  /\ ReplyInv

LEMMA AnswerInvInit == AnswerInit => AnswerInv
BY NothingIsSound DEF AnswerInit, AnswerInv, ReplyInv, NoReply

\* The answer ends without a text of claims.
Quiet == qpc' = "done" /\ reply'.text = NoText /\ reply'.kind # "rendered"

LEMMA QuietEnds ==
  ASSUME NEW kind, kind # "rendered", NEW notice, Returns(kind, notice, NoText)
  PROVE  Quiet
BY DEF Returns, Quiet

LEMMA ProceedsOn ==
  ASSUME NEW items, Proceed(items)
  PROVE  Quiet \/ (qpc' = "generate" /\ reply' = reply)
<1>1. Refusal(items) # "rendered" BY DEF Refusal
<1> QED BY <1>1, QuietEnds DEF Proceed, Says

LEMMA Prepares ==
  ASSUME NEW s \in SUBSET DOMAIN draft, NEW p, p = Prepared(SupportedClaims(s))
  PROVE  /\ DOMAIN p \subseteq s
         /\ \A i \in DOMAIN p :
              p[i] = [claim |-> draft[i], cited |-> UniqueCited(Cited(draft[i].cites, evidence))]
BY DEF Prepared, SupportedClaims, Restrict

\* What is sent of a draft that was accepted.
LEMMA VerifiedIsGrounded ==
  ASSUME AnswerInv, NEW s \in SUBSET DOMAIN draft, Verified(s)
  PROVE  ReplyInv'
<1> DEFINE p == Prepared(SupportedClaims(s))
           text == RenderAnswer(p)
<1>1. DraftInv /\ Sound(evidence) /\ usage = 1 BY DEF AnswerInv, Verified
<1>2. /\ DOMAIN p \subseteq s
      /\ \A i \in DOMAIN p :
           p[i] = [claim |-> draft[i], cited |-> UniqueCited(Cited(draft[i].cites, evidence))]
  BY Prepares
<1>3. /\ supported' = s /\ evidence' = evidence /\ draft' = draft /\ usage' = 2
      /\ \/ Says("insufficient")
         \/ Returns("rendered", first, text)
  BY <1>1 DEF Verified
<1> HIDE DEF p
<1>4. \A i \in DOMAIN draft : Known(draft[i].cites, evidence) /\ Accepted(draft[i], evidence)
  BY <1>1 DEF DraftInv, ClaimAccepted, Accepted
<1>5. Citing(p, evidence) BY <1>1, <1>2, <1>4, ClaimsCite DEF DraftInv
<1>6. \A i \in DOMAIN p : p[i].claim \in {draft[j] : j \in s} /\ Accepted(p[i].claim, evidence)
  BY <1>2, <1>4
<1>7. Resolves(text, evidence) /\ Grounded(text, evidence, {draft[j] : j \in s})
  <2> HIDE DEF text
  <2> QED BY <1>1, <1>5, <1>6, Rendered DEF Sound, text
<1> HIDE DEF text
<1>8. CASE Says("insufficient") BY <1>8, QuietEnds DEF Says, Quiet, ReplyInv
<1>9. CASE Returns("rendered", first, text)
  <2>1. reply'.text = text /\ qpc' = "done" BY <1>9 DEF Returns
  <2>2. AnswerResolves' BY <1>3, <1>7, <2>1 DEF AnswerResolves
  <2>3. AnswerGrounded' BY <1>3, <1>7, <2>1 DEF AnswerGrounded
  <2> QED BY <2>1, <2>2, <2>3 DEF ReplyInv
<1> QED BY <1>3, <1>8, <1>9

LEMMA AnswerInvStep ==
  ASSUME AnswerInv, AnswerStep
  PROVE  AnswerInv' /\ (evidence # <<>> => evidence' # <<>>)
<1> DEFINE Keeps == AnswerInv' /\ (evidence # <<>> => evidence' # <<>>)
<1>0. /\ qpc \in {"received", "persist", "retrieve"} => evidence = <<>>
      /\ Sound(evidence)
      /\ qpc \notin {"verify", "done"} => usage = 0
      /\ qpc = "verify" => usage = 1 /\ DraftInv
      /\ qpc # "done" => reply.text = NoText /\ reply.kind # "rendered"
  BY DEF AnswerInv, ReplyInv
<1>1. ASSUME Quiet, Sound(evidence'), evidence # <<>> => evidence' # <<>> PROVE Keeps
  BY <1>1 DEF AnswerInv, ReplyInv, Quiet
<1>2. ASSUME reply' = reply, qpc # "done", usage' = usage,
             qpc \notin {"verify", "done"}, qpc' \notin {"verify", "done"}, Sound(evidence'),
             qpc' \in {"received", "persist", "retrieve"} => evidence' = <<>>,
             evidence # <<>> => evidence' # <<>>
      PROVE  Keeps
  BY <1>0, <1>2 DEF AnswerInv, ReplyInv
<1>3. ASSUME NEW items, Proceed(items), usage' = usage, qpc \notin {"verify", "done"},
             Sound(evidence'), evidence # <<>> => evidence' # <<>>
      PROVE  Keeps
  <2>1. Quiet \/ (qpc' = "generate" /\ reply' = reply) BY <1>3, ProceedsOn
  <2> QED BY <1>1, <1>2, <1>3, <2>1
<1>4. ASSUME NEW items \in Retrievals, Retrieved(items) PROVE Keeps
  <2>1. qpc = "retrieve" /\ usage' = usage /\ evidence = <<>> BY <1>0, <1>4 DEF Retrieved
  <2>2. CASE SnapshotValid(items)
    <3>1. Sound(items) /\ evidence' = items BY <1>4, <2>2, RetrievedIsSound DEF Retrieved
    <3>2. (qpc' = "discover" /\ reply' = reply) \/ Proceed(items) BY <1>4, <2>2 DEF Retrieved
    <3> QED BY <1>2, <1>3, <2>1, <3>1, <3>2
  <2>3. CASE ~SnapshotValid(items)
    <3>1. Says("insufficient") /\ evidence' = evidence BY <1>4, <2>3 DEF Retrieved
    <3> QED BY <1>0, <1>1, <3>1, QuietEnds DEF Says
  <2> QED BY <2>2, <2>3
<1>5. ASSUME NEW items \in Retrievals, Refreshed(items) PROVE Keeps
  <2>1. qpc = "refresh" /\ usage' = usage /\ evidence' = Refresh(items) /\ Proceed(Refresh(items))
    BY <1>5 DEF Refreshed
  <2>2. Sound(evidence') /\ (evidence # <<>> => evidence' # <<>>)
    BY <1>0, <2>1, RetrievedIsSound DEF Refresh
  <2> QED BY <1>3, <2>1, <2>2
<1>6. ASSUME DiscoveryFails PROVE Keeps
  BY <1>0, <1>3, <1>6 DEF DiscoveryFails
<1>7. ASSUME Received \/ Discovered PROVE Keeps
  <2>1. /\ reply' = reply /\ usage' = usage /\ evidence' = evidence
        /\ (qpc = "received" /\ qpc' = "persist") \/ (qpc = "discover" /\ qpc' = "refresh")
    BY <1>7 DEF Received, Discovered
  <2> QED BY <1>0, <1>2, <2>1
<1>8. ASSUME Refused \/ PersistFails \/ RetrieveFails \/ CompletionFails \/ CompletionSecret
             \/ SupportMalformed
      PROVE  Keeps
  <2>1. Quiet BY <1>8, QuietEnds
    DEF Refused, PersistFails, RetrieveFails, CompletionFails, CompletionSecret, SupportMalformed, Says
  <2>2. evidence' = evidence BY <1>8
    DEF Refused, PersistFails, RetrieveFails, CompletionFails, CompletionSecret, SupportMalformed
  <2> QED BY <1>0, <1>1, <2>1, <2>2
<1>9. ASSUME NEW isFirst \in BOOLEAN, NEW blocked \in BOOLEAN,
             NEW existing \in {"none", "text", "secret"}, Persisted(isFirst, blocked, existing)
      PROVE  Keeps
  <2>1. qpc = "persist" /\ evidence' = evidence /\ usage' = usage /\ evidence = <<>>
    BY <1>0, <1>9 DEF Persisted
  <2>2. Quiet \/ (qpc' = "retrieve" /\ reply' = reply)
    <3> DEFINE known == CASE blocked -> "insufficient"
                          [] ~blocked /\ existing = "secret" -> "secret"
                          [] ~blocked /\ existing = "text" -> "existing"
                          [] ~blocked /\ existing = "none" ->
                               IF question.greeting THEN "greeting" ELSE "none"
    <3>1. known # "rendered" OBVIOUS
    <3>2. \/ known # "none" /\ Returns(known, isFirst, NoText)
          \/ known = "none" /\ qpc' = "retrieve" /\ reply' = reply
      BY <1>9 DEF Persisted
    <3> HIDE DEF known
    <3> QED BY <3>1, <3>2, QuietEnds
  <2> QED BY <1>0, <1>1, <1>2, <2>1, <2>2
<1>10. ASSUME NEW d \in Drafts, Generated(d) PROVE Keeps
  <2>1. qpc = "generate" /\ usage' = usage + 1 /\ evidence' = evidence BY <1>10 DEF Generated
  <2>2. CASE ParseGeneratedAnswer(d, evidence)
    <3>1. draft' = d.claims /\ qpc' = "verify" /\ reply' = reply BY <1>10, <2>2 DEF Generated
    <3>2. DraftInv'
      BY <2>1, <2>2, <3>1, AnswerAssumption DEF DraftInv, ParseGeneratedAnswer
    <3> QED BY <1>0, <2>1, <3>1, <3>2 DEF AnswerInv, ReplyInv
  <2>3. CASE ~ParseGeneratedAnswer(d, evidence)
    <3>1. Says("insufficient") BY <1>10, <2>3 DEF Generated
    <3> QED BY <1>0, <1>1, <2>1, <3>1, QuietEnds DEF Says
  <2> QED BY <2>2, <2>3
<1>11. ASSUME NEW s \in SUBSET DOMAIN draft, Verified(s) PROVE Keeps
  <2>1. ReplyInv' BY <1>11, VerifiedIsGrounded
  <2>2. qpc' = "done" /\ evidence' = evidence BY <1>11 DEF Verified, Says, Returns
  <2> QED BY <1>0, <2>1, <2>2 DEF AnswerInv
<1> QED BY <1>4, <1>5, <1>6, <1>7, <1>8, <1>9, <1>10, <1>11 DEF AnswerStep

LEMMA AnswerInvImplies == AnswerInv => AnswerResolves /\ AnswerGrounded
BY NoTextIsFine DEF AnswerInv, ReplyInv, AnswerResolves, AnswerGrounded

-----------------------------------------------------------------------------
(* One comparison.                                                         *)

LEMMA RetainedOfIndex ==
  ASSUME NEW items, OfIndex(items)
  PROVE  OfIndex(Retained(items))
<1> DEFINE n == Min({MaxPublic, Len(items)})
           r == Retained(items)
<1>1. items \in Seq(ToSet(items)) BY DEF OfIndex
<1>2. Len(items) \in Nat /\ DOMAIN items = 1..Len(items) BY <1>1
<1>3. n \in Nat /\ n <= Len(items)
  <2>1. {MaxPublic, Len(items)} \in SUBSET Nat BY <1>2, ComparisonAssumption
  <2>2. n \in {MaxPublic, Len(items)} /\ n <= Len(items) BY <2>1, MinOfSet
  <2> QED BY <1>2, <2>1, <2>2
<1>4. r = SubSeq(items, 1, n) BY DEF Retained
<1> HIDE DEF n
<1>5. /\ r \in Seq(ToSet(items)) /\ DOMAIN r = 1..n
      /\ \A i \in 1..n : r[i] = items[i]
  <2>1. PICK S : S = ToSet(items) OBVIOUS
  <2>2. items \in Seq(S) BY <1>1, <2>1
  <2>3. \A i \in 1..n : i \in 1..Len(items) BY <1>2, <1>3
  <2>4. r \in Seq(S) /\ DOMAIN r = 1..n /\ \A i \in 1..n : r[i] = items[i]
    BY <1>2, <1>3, <1>4, <2>2, <2>3
  <2> QED BY <2>1, <2>4
<1>6. \A i \in 1..n : i \in DOMAIN items BY <1>2, <1>3
<1> HIDE DEF r
<1>7. r \in Seq(ToSet(r))
  <2>1. PICK T : T = ToSet(r) OBVIOUS
  <2>2. \A i \in 1..n : r[i] \in T BY <1>5, <2>1 DEF ToSet
  <2>3. r = [i \in 1..n |-> r[i]] BY <1>5
  <2>4. r \in [1..n -> T] BY <2>2, <2>3
  <2>5. r \in Seq(T) BY <1>3, <2>4
  <2> QED BY <2>1, <2>5
<1> QED BY <1>5, <1>6, <1>7 DEF OfIndex, r

FindingsInv == OfModel(findings) /\ \A i \in DOMAIN findings : FindingAccepted(findings[i])

VerdictInv ==
  \/ verdict.text = NoText /\ verdict.kind # "rendered"
  \/ dpc = "done" /\ ComparisonResolves /\ ComparisonGrounded

ComparisonInv ==
  /\ comparison \in Comparisons
  /\ Sound(public)
  /\ dpc \notin {"verification", "done"} => billed = 0
  /\ dpc = "verification" => billed = 1 /\ FindingsInv
  /\ VerdictInv

LEMMA ComparisonInvInit == ComparisonInit => ComparisonInv
BY NothingIsSound DEF ComparisonInit, ComparisonInv, VerdictInv

\* The comparison ends without a text of claims.
Silent == dpc' = "done" /\ verdict'.text = NoText /\ verdict'.kind # "rendered"

LEMMA SilentEnds ==
  ASSUME NEW kind, kind # "rendered", Gives(kind, NoText)
  PROVE  Silent
BY DEF Gives, Silent

\* What is sent of findings that were accepted.
LEMMA ConfirmedIsGrounded ==
  ASSUME ComparisonInv, NEW s \in SUBSET DOMAIN findings, Confirms(s)
  PROVE  VerdictInv'
<1> DEFINE p == RenderClaims(s)
           text == RenderAnswer(p)
<1>1. FindingsInv /\ Sound(public) /\ billed = 1 BY DEF ComparisonInv, Confirms
<1>2. /\ DOMAIN p = s
      /\ \A i \in DOMAIN p :
           p[i] = [claim |-> findings[i], cited |-> UniqueCited(Cited(findings[i].cites, public))]
  BY DEF RenderClaims
<1>3. /\ confirmed' = s /\ public' = public /\ findings' = findings /\ chunks' = chunks /\ billed' = 2
      /\ Gives("insufficient", NoText) \/ Gives("rendered", text)
  BY <1>1 DEF Confirms
<1> HIDE DEF p
<1>4. \A i \in DOMAIN findings : Known(findings[i].cites, public) /\ Accepted(findings[i], public)
  BY <1>1 DEF FindingsInv, FindingAccepted, Accepted
<1>5. Citing(p, public) BY <1>1, <1>2, <1>4, ClaimsCite DEF FindingsInv
<1>6. \A i \in DOMAIN p : p[i].claim \in {findings[j] : j \in s} /\ Accepted(p[i].claim, public)
  BY <1>2, <1>4
<1>7. /\ Resolves(text, public) /\ Grounded(text, public, {findings[j] : j \in s})
      /\ \A i \in DOMAIN text.lines : \E j \in DOMAIN p : text.lines[i].claim = p[j].claim
  <2> HIDE DEF text
  <2> QED BY <1>1, <1>5, <1>6, Rendered DEF Sound, text
<1> HIDE DEF text
<1>8. CASE Gives("insufficient", NoText) BY <1>8, SilentEnds DEF Silent, VerdictInv
<1>9. CASE Gives("rendered", text)
  <2>1. verdict'.text = text /\ dpc' = "done" BY <1>9 DEF Gives
  <2>2. ComparisonResolves' BY <1>3, <1>7, <2>1 DEF ComparisonResolves
  <2>3. ASSUME NEW i \in DOMAIN text.lines
        PROVE  /\ text.lines[i].claim.kind \in {"fact", "conflict"} => text.lines[i].claim.private # <<>>
               /\ ToSet(text.lines[i].claim.private) \subseteq DOMAIN chunks
    <3>1. PICK j \in DOMAIN findings : text.lines[i].claim = findings[j] BY <1>2, <1>7
    <3> QED BY <1>1, <3>1 DEF FindingsInv, FindingAccepted, Known
  <2>4. ComparisonGrounded' BY <1>3, <1>7, <2>1, <2>3 DEF ComparisonGrounded
  <2> QED BY <2>1, <2>2, <2>4 DEF VerdictInv
<1> QED BY <1>3, <1>8, <1>9

LEMMA ComparisonInvStep ==
  ASSUME ComparisonInv, ComparisonStep
  PROVE  ComparisonInv'
<1>0. /\ comparison \in Comparisons /\ Sound(public)
      /\ dpc \notin {"verification", "done"} => billed = 0
      /\ dpc = "verification" => billed = 1 /\ FindingsInv
      /\ dpc # "done" => verdict.text = NoText /\ verdict.kind # "rendered"
  BY DEF ComparisonInv, VerdictInv
<1>1. ASSUME Silent, Sound(public'), comparison' = comparison PROVE ComparisonInv'
  BY <1>0, <1>1 DEF ComparisonInv, VerdictInv, Silent
<1>2. ASSUME CanonicalInput PROVE ComparisonInv'
  <2> DEFINE items == Retained(comparison.evidence)
             kept == SelectPrivateChunks(comparison.document)
  <2>1. dpc = "input" /\ comparison' = comparison /\ billed' = billed BY <1>2 DEF CanonicalInput
  <2>2. /\ Refusals(items, kept) \subseteq {"dependency", "secret", "insufficient"}
        /\ Refusals(items, kept) = {} => SnapshotValid(items)
    BY DEF Refusals, PublicEvidenceValid
  <2>3. \/ (\E kind \in Refusals(items, kept) : Gives(kind, NoText)) /\ public' = public
        \/ /\ Refusals(items, kept) = {} /\ public' = items
           /\ dpc' = "generation" /\ verdict' = verdict
    BY <1>2 DEF CanonicalInput
  <2>4. OfIndex(items) BY <1>0, ComparisonAssumption, RetainedOfIndex
  <2> HIDE DEF items, kept
  <2>5. CASE (\E kind \in Refusals(items, kept) : Gives(kind, NoText)) /\ public' = public
    <3>1. Silent BY <2>2, <2>5, SilentEnds
    <3> QED BY <1>0, <1>1, <2>1, <2>5, <3>1
  <2>6. CASE /\ Refusals(items, kept) = {} /\ public' = items
             /\ dpc' = "generation" /\ verdict' = verdict
    <3>1. Sound(public') BY <2>2, <2>4, <2>6 DEF Sound, SnapshotValid
    <3> QED BY <1>0, <2>1, <2>6, <3>1 DEF ComparisonInv, VerdictInv
  <2> QED BY <2>3, <2>5, <2>6
<1>3. ASSUME ProviderFails \/ OutputRefused \/ ConfirmMalformed PROVE ComparisonInv'
  <2>1. Silent BY <1>3, SilentEnds DEF ProviderFails, OutputRefused, ConfirmMalformed
  <2>2. public' = public /\ comparison' = comparison
    BY <1>3 DEF ProviderFails, OutputRefused, ConfirmMalformed
  <2> QED BY <1>0, <1>1, <2>1, <2>2
<1>4. ASSUME NEW d \in Findings, Finds(d) PROVE ComparisonInv'
  <2>1. /\ dpc = "generation" /\ billed' = billed + 1 /\ comparison' = comparison
        /\ public' = public /\ chunks' = chunks
    BY <1>4 DEF Finds
  <2>2. CASE ParseClaims(d)
    <3>1. findings' = d.claims /\ dpc' = "verification" /\ verdict' = verdict
      BY <1>4, <2>2 DEF Finds
    <3>2. FindingsInv'
      BY <2>1, <2>2, <3>1, ComparisonAssumption DEF FindingsInv, ParseClaims, FindingAccepted
    <3> QED BY <1>0, <2>1, <3>1, <3>2 DEF ComparisonInv, VerdictInv
  <2>3. CASE ~ParseClaims(d)
    <3>1. Silent BY <1>4, <2>3, SilentEnds DEF Finds
    <3> QED BY <1>0, <1>1, <2>1, <3>1
  <2> QED BY <2>2, <2>3
<1>5. ASSUME NEW s \in SUBSET DOMAIN findings, Confirms(s) PROVE ComparisonInv'
  <2>1. VerdictInv' BY <1>5, ConfirmedIsGrounded
  <2>2. dpc' = "done" /\ public' = public /\ comparison' = comparison
    BY <1>5 DEF Confirms, Gives
  <2> QED BY <1>0, <2>1, <2>2 DEF ComparisonInv
<1> QED BY <1>2, <1>3, <1>4, <1>5 DEF ComparisonStep

LEMMA ComparisonInvImplies == ComparisonInv => ComparisonResolves /\ ComparisonGrounded
<1>1. CASE verdict.text = NoText /\ verdict.kind # "rendered"
  <2>1. DOMAIN NoText.lines = {} BY DEF NoText
  <2> QED BY <1>1, <2>1, NoTextIsFine DEF ComparisonResolves, ComparisonGrounded
<1> QED BY <1>1 DEF ComparisonInv, VerdictInv

-----------------------------------------------------------------------------
(* One search for a promotion request.                                     *)

LEMMA LeadingFew ==
  ASSUME NEW S \in SUBSET Nat, IsFiniteSet(S), NEW n \in Nat
  PROVE  IsFiniteSet(Leading(S, n)) /\ Cardinality(Leading(S, n)) <= n
<1>1. Leading(S, n) = FewBefore(S, Below(S), n) BY DEF Leading, FewBefore, Below
<1> QED BY <1>1, NumbersInRow, FewAreFew

Directs == {s \in Registry : s.direct}
Ids(sources) == {s.id : s \in sources}

\* The source that the whole registry has for a url is the one its tier had.
LEMMA SameSource ==
  ASSUME NEW url, NEW t, Matched(url, t) # "none", Cardinality(Matches(url, Directs)) = 1
  PROVE  LET s == CHOOSE s \in Matches(url, Directs) : TRUE
         IN  /\ s \in Registry /\ s.tier = t
             /\ s.id = Matched(url, t)
             /\ Ids(Matches(url, Directs)) = {s.id}
<1>1. IsFiniteSet(Matches(url, Directs)) /\ IsFiniteSet(Matches(url, Direct(t)))
  BY SearchAssumption, FS_Subset DEF Matches, Directs, Direct
<1>2. PICK s : Matches(url, Directs) = {s} BY <1>1, FS_Singleton
<1>3. PICK r : Matches(url, Direct(t)) = {r} BY <1>1, FS_Singleton DEF Matched
<1>4. Matched(url, t) = r.id BY <1>1, <1>3, FS_Singleton DEF Matched
<1>5. r \in Matches(url, Directs) /\ r.tier = t /\ r \in Registry
  BY <1>3 DEF Matches, Directs, Direct
<1>6. (CHOOSE x \in Matches(url, Directs) : TRUE) = s BY <1>2
<1> QED BY <1>2, <1>4, <1>5, <1>6 DEF Ids

SearchStages == {"search", "promote", "store", "done"}

ChosenInv ==
  /\ chosen \subseteq DOMAIN links /\ chosen \subseteq Nat /\ IsFiniteSet(chosen)
  /\ \A i \in chosen : links[i].url \in Urls /\ links[i].matched # "none"
                       /\ links[i].matched = Matched(links[i].url, tier)
  /\ \A i, j \in chosen : links[i].matched = links[j].matched => i = j

PromotedInv ==
  /\ promoted \in Seq([url : Urls, source : Ids(Registry)])
  /\ \A k \in DOMAIN promoted :
       /\ Ids(Matches(promoted[k].url, Directs)) = {promoted[k].source}
       /\ \E s \in Registry : s.id = promoted[k].source /\ s.tier = tier
  /\ \A k, l \in DOMAIN promoted : promoted[k].source = promoted[l].source => k = l
  /\ Len(promoted) <= MaxSelected

SearchInv ==
  /\ lpc \in SearchStages
  /\ ChosenInv /\ PromotedInv
  /\ lpc = "search" => promoted = <<>> /\ chosen = {}
  /\ lpc \in {"promote", "store"} =>
       /\ \A i \in chosen, k \in DOMAIN promoted : links[i].matched # promoted[k].source
       /\ Len(promoted) + Cardinality(chosen) <= MaxSelected
  /\ lpc = "store" =>
       /\ chosen # {}
       /\ storing = Current.matched
       /\ Ids(Matches(Current.url, Directs)) = {storing}
       /\ \E s \in Registry : s.id = storing /\ s.tier = tier

LEMMA SearchInvInit == SearchInit => SearchInv
BY SearchAssumption, FS_EmptySet DEF SearchInit, SearchInv, ChosenInv, PromotedInv, SearchStages

\* What discovery finds is what its tier has for the urls.
LEMMA Discovered_ ==
  ASSUME NEW results \in Results, NEW t
  PROVE  LET found == DiscoverLiveSources(results, t)
         IN  /\ DOMAIN found \subseteq Nat /\ IsFiniteSet(DOMAIN found)
             /\ \A i \in DOMAIN found : found[i].url \in Urls /\ found[i].matched = Matched(found[i].url, t)
<1>1. PICK m \in Nat : results \in [1..m -> Urls]
  BY SearchAssumption DEF Results, BoundedSeq, SeqOf
<1>2. IsFiniteSet(1..m) BY <1>1, FS_Interval
<1>3. DOMAIN DiscoverLiveSources(results, t) \subseteq 1..m BY <1>1 DEF DiscoverLiveSources
<1>4. IsFiniteSet(DOMAIN DiscoverLiveSources(results, t)) BY <1>2, <1>3, FS_Subset
<1> QED BY <1>1, <1>3, <1>4 DEF DiscoverLiveSources

LEMMA SearchedKeeps ==
  ASSUME SearchInv, NEW results \in Results, Searched(results)
  PROVE  SearchInv'
<1> DEFINE found == DiscoverLiveSources(results, tier)
           selected == UniqueMatchedSources(found)
<1>1. /\ DOMAIN found \subseteq Nat /\ IsFiniteSet(DOMAIN found)
      /\ \A i \in DOMAIN found : found[i].url \in Urls /\ found[i].matched = Matched(found[i].url, tier)
  BY Discovered_
<1>2. /\ lpc = "search" /\ promoted = <<>> /\ chosen = {}
      /\ links' = found /\ UNCHANGED <<storing, promoted>>
  BY DEF Searched, SearchInv
<1> HIDE DEF found
<1>3. PromotedInv'
  BY <1>2, SearchAssumption DEF PromotedInv
<1>4. CASE UNCHANGED <<lpc, chosen>>
  <2>1. ChosenInv' BY <1>2, <1>4, FS_EmptySet DEF ChosenInv
  <2> QED BY <1>2, <1>3, <1>4, <2>1 DEF SearchInv, SearchStages
<1>5. CASE chosen' = Leading(selected, MaxSelected) /\ lpc' = "promote" /\ UNCHANGED tier
  <2>1. selected \in SUBSET Nat /\ IsFiniteSet(selected)
    BY <1>1, FS_Subset DEF UniqueMatchedSources
  <2>2. IsFiniteSet(chosen') /\ Cardinality(chosen') <= MaxSelected
    BY <1>5, <2>1, LeadingFew, SearchAssumption
  <2>3. chosen' \subseteq selected BY <1>5 DEF Leading
  <2>4. \A i, j \in selected : found[i].matched = found[j].matched => i = j
    BY <2>1 DEF UniqueMatchedSources
  <2>5. \A i \in selected : i \in DOMAIN found /\ found[i].matched # "none"
    BY DEF UniqueMatchedSources
  <2>6. ChosenInv'
    BY <1>1, <1>2, <1>5, <2>1, <2>2, <2>3, <2>4, <2>5 DEF ChosenInv
  <2>7. Cardinality(chosen') \in Nat BY <2>2, FS_CardinalityType
  <2> QED BY <1>2, <1>3, <1>5, <2>2, <2>6, <2>7 DEF SearchInv, SearchStages
<1> QED BY <1>4, <1>5 DEF Searched, found

LEMMA CurrentIsChosen ==
  ASSUME SearchInv, chosen # {}
  PROVE  /\ Min(chosen) \in chosen
         /\ Current.url \in Urls
         /\ Current.matched = Matched(Current.url, tier) /\ Current.matched # "none"
BY MinOfSet DEF SearchInv, ChosenInv, Current

\* One more document is stored, under a source that has none yet.
LEMMA Appended ==
  ASSUME SearchInv, lpc = "store",
         promoted' = Append(promoted, [url |-> Current.url, source |-> storing]), UNCHANGED tier
  PROVE  PromotedInv' /\ Len(promoted') = Len(promoted) + 1
<1>1. /\ Min(chosen) \in chosen /\ Current.url \in Urls
      /\ Current = links[Min(chosen)]
  BY CurrentIsChosen DEF SearchInv, Current
<1>0. Ids(Matches(Current.url, Directs)) = {storing} BY DEF SearchInv
<1>2. PICK s \in Registry : s.id = storing /\ s.tier = tier BY DEF SearchInv
<1>3. storing \in Ids(Registry) BY <1>2 DEF Ids
<1> DEFINE new == [url |-> Current.url, source |-> storing]
<1>4. promoted \in Seq([url : Urls, source : Ids(Registry)]) BY DEF SearchInv, PromotedInv
<1>5. /\ promoted' \in Seq([url : Urls, source : Ids(Registry)])
      /\ Len(promoted') = Len(promoted) + 1 /\ Len(promoted) \in Nat
      /\ DOMAIN promoted = 1..Len(promoted) /\ DOMAIN promoted' = 1..(Len(promoted) + 1)
      /\ \A k \in 1..Len(promoted) : promoted'[k] = promoted[k]
      /\ promoted'[Len(promoted) + 1] = new
  BY <1>1, <1>3, <1>4
<1>6. \A k \in DOMAIN promoted : promoted[k].source # storing
  BY <1>1 DEF SearchInv
<1>7. IsFiniteSet(chosen) /\ Cardinality(chosen) \in Nat \ {0}
  BY <1>1, FS_CardinalityType, FS_EmptySet DEF SearchInv, ChosenInv
<1>8. Len(promoted') <= MaxSelected
  BY <1>5, <1>7, SearchAssumption DEF SearchInv
<1>9. \A k \in DOMAIN promoted' :
        /\ Ids(Matches(promoted'[k].url, Directs)) = {promoted'[k].source}
        /\ \E r \in Registry : r.id = promoted'[k].source /\ r.tier = tier
  <2> SUFFICES ASSUME NEW k \in DOMAIN promoted'
               PROVE  /\ Ids(Matches(promoted'[k].url, Directs)) = {promoted'[k].source}
                      /\ \E r \in Registry : r.id = promoted'[k].source /\ r.tier = tier
    OBVIOUS
  <2>1. CASE k \in 1..Len(promoted)
    <3>1. promoted'[k] = promoted[k] /\ k \in DOMAIN promoted BY <1>5, <2>1
    <3> QED BY <3>1 DEF SearchInv, PromotedInv
  <2>2. CASE k = Len(promoted) + 1
    <3>1. promoted'[k].url = Current.url /\ promoted'[k].source = storing BY <1>5, <2>2
    <3> QED BY <1>0, <1>2, <3>1
  <2>3. k \in 1..Len(promoted) \/ k = Len(promoted) + 1 BY <1>5
  <2> QED BY <2>1, <2>2, <2>3
<1>10. \A k, l \in DOMAIN promoted' : promoted'[k].source = promoted'[l].source => k = l
  <2>1. \A k, l \in DOMAIN promoted : promoted[k].source = promoted[l].source => k = l
    BY DEF SearchInv, PromotedInv
  <2>2. new.source = storing OBVIOUS
  <2> HIDE DEF new
  <2> QED BY <1>5, <1>6, <2>1, <2>2
<1>11. tier' = tier OBVIOUS
<1> HIDE DEF new
<1>12. PromotedInv'
  <2>1. \A k \in DOMAIN promoted' :
          /\ Ids(Matches(promoted'[k].url, Directs)) = {promoted'[k].source}
          /\ \E r \in Registry : r.id = promoted'[k].source /\ r.tier = tier'
    BY <1>9, <1>11
  <2> QED BY <1>5, <1>8, <1>10, <2>1 DEF PromotedInv
<1> QED BY <1>5, <1>12

LEMMA SearchInvStep == SearchInv /\ SearchStep => SearchInv'
<1> SUFFICES ASSUME SearchInv, SearchStep PROVE SearchInv' OBVIOUS
<1>c. ChosenInv /\ UNCHANGED <<chosen, links, tier>> => ChosenInv' BY DEF ChosenInv
<1>p. PromotedInv /\ UNCHANGED <<promoted, tier>> => PromotedInv' BY DEF PromotedInv
<1>f. UNCHANGED <<chosen, links>> => Current' = Current
  BY DEF Current
<1>1. ASSUME NEW results \in Results, Searched(results) PROVE SearchInv'
  BY <1>1, SearchedKeeps
<1>2. ASSUME SearchFails \/ PromoteDeadline \/ SearchEnds PROVE SearchInv'
  BY <1>2, <1>c, <1>p DEF SearchFails, PromoteDeadline, SearchEnds, Fails, SearchInv, SearchStages
<1>3. ASSUME PromoteLink PROVE SearchInv'
  <2>1. lpc = "promote" /\ chosen # {} /\ UNCHANGED <<tier, links, chosen, promoted>>
    BY <1>3 DEF PromoteLink
  <2>2. CASE Fails
    BY <1>c, <1>p, <2>1, <2>2 DEF Fails, SearchInv, SearchStages
  <2>3. CASE ~Fails
    <3>1. /\ Cardinality(Matches(Current.url, Directs)) = 1
          /\ storing' = (CHOOSE s \in Matches(Current.url, Directs) : TRUE).id
          /\ lpc' = "store"
      BY <1>3, <2>3 DEF PromoteLink, Directs
    <3>2. Current' = Current /\ Current.matched = Matched(Current.url, tier) /\ Current.matched # "none"
      BY <2>1, CurrentIsChosen DEF Current
    <3>3. /\ storing' = Current.matched
          /\ Ids(Matches(Current.url, Directs)) = {storing'}
          /\ \E s \in Registry : s.id = storing' /\ s.tier = tier
      BY <3>1, <3>2, SameSource
    <3> QED BY <1>c, <1>p, <2>1, <3>1, <3>2, <3>3 DEF SearchInv, SearchStages
  <2> QED BY <2>2, <2>3
<1>4. ASSUME LinkStored PROVE SearchInv'
  <2> DEFINE m == Min(chosen)
  <2>1. /\ lpc = "store" /\ lpc' = "promote" /\ chosen' = chosen \ {m}
        /\ promoted' = Append(promoted, [url |-> Current.url, source |-> storing])
        /\ UNCHANGED <<tier, links>>
    BY <1>4 DEF LinkStored
  <2>2. m \in chosen /\ storing = links[m].matched
    BY <2>1, CurrentIsChosen DEF SearchInv, Current
  <2>3. PromotedInv' /\ Len(promoted') = Len(promoted) + 1
    BY <2>1, Appended
  <2>4. IsFiniteSet(chosen') /\ Cardinality(chosen') = Cardinality(chosen) - 1
        /\ Cardinality(chosen) \in Nat
    BY <2>1, <2>2, FS_RemoveElement, FS_CardinalityType DEF SearchInv, ChosenInv
  <2>5. ChosenInv' BY <2>1, <2>4 DEF SearchInv, ChosenInv
  <2>6. ASSUME NEW i \in chosen', NEW k \in DOMAIN promoted'
        PROVE  links'[i].matched # promoted'[k].source
    <3>1. i \in chosen /\ i # m BY <2>1
    <3>2. links[i].matched # storing BY <2>2, <3>1 DEF SearchInv, ChosenInv
    <3>3. promoted \in Seq([url : Urls, source : Ids(Registry)]) BY DEF SearchInv, PromotedInv
    <3>4. promoted'[k].source = storing \/ (k \in DOMAIN promoted /\ promoted'[k] = promoted[k])
      BY <2>1, <3>3
    <3> QED BY <2>1, <3>1, <3>2, <3>4 DEF SearchInv
  <2>7. Len(promoted') + Cardinality(chosen') <= MaxSelected
    <3>1. Len(promoted) \in Nat BY DEF SearchInv, PromotedInv
    <3> QED BY <2>1, <2>3, <2>4, <3>1, SearchAssumption DEF SearchInv
  <2> HIDE DEF m
  <2> QED BY <2>1, <2>3, <2>5, <2>6, <2>7 DEF SearchInv, SearchStages
<1>5. ASSUME NEW stored \in BOOLEAN, LinkFails(stored) PROVE SearchInv'
  <2>1. lpc = "store" /\ lpc' = "done" /\ UNCHANGED <<tier, links, chosen>>
    BY <1>5 DEF LinkFails, Fails
  <2>2. PromotedInv'
    <3>1. CASE stored BY <1>5, <2>1, <3>1, Appended DEF LinkFails
    <3>2. CASE ~stored BY <1>5, <1>p, <2>1, <3>2 DEF LinkFails, SearchInv
    <3> QED BY <3>1, <3>2
  <2> QED BY <1>c, <2>1, <2>2 DEF SearchInv, SearchStages
<1> QED BY <1>1, <1>2, <1>3, <1>4, <1>5 DEF SearchStep

LEMMA SearchInvImplies == SearchInv => PromotedIsMatched
<1> SUFFICES ASSUME SearchInv PROVE PromotedIsMatched OBVIOUS
<1>1. \A i \in DOMAIN promoted :
        {s.id : s \in Matches(promoted[i].url, {r \in Registry : r.direct})} = {promoted[i].source}
  BY DEF SearchInv, PromotedInv, Directs, Ids
<1>2. ASSUME NEW r \in Registry, NEW i \in DOMAIN promoted, promoted[i].source = r.id
      PROVE  r.tier = tier
  BY <1>2, SearchAssumption DEF SearchInv, PromotedInv
<1> QED BY <1>1, <1>2 DEF SearchInv, PromotedInv, PromotedIsMatched

-----------------------------------------------------------------------------
(* The files of the commands.                                              *)

FileStages == {"idle", "rotate", "rename", "append", "write", "prune"}
Log == [bytes : Nat, lines : Seq(Nat)]

\* The lines of both logs, which end with the last one written.
LogsInv ==
  /\ audit \in Log /\ rotated \in Log /\ logged \in Nat
  /\ audit.bytes <= MaxAudit /\ rotated.bytes <= MaxAudit
  /\ \A i \in 1..Len(audit.lines) : audit.lines[i] = logged - Len(audit.lines) + i
  /\ \A i \in 1..Len(rotated.lines) :
       rotated.lines[i] = logged - Len(audit.lines) - Len(rotated.lines) + i

LogInv ==
  /\ LogsInv
  /\ incoming \in Nat /\ incoming <= MaxAudit
  /\ fpc = "append" => audit.bytes + incoming <= MaxAudit
  /\ fpc = "rename" => rotated = NoLog

\* The times of some files tell in which order they were written.
Ordered(times, some) ==
  \A p, q \in some : p # q => times[p] # times[q] /\ (times[p] < times[q] => WrittenAfter(q, p))

Written == Head(pending)

FilesInv ==
  /\ pending \in Seq(Paths) /\ wrote \in Seq(Paths)
  /\ IsFiniteSet(DOMAIN files) /\ DOMAIN files \subseteq Paths
  /\ files \in [DOMAIN files -> Nat]
  /\ fpc \in {"write", "prune"} => pending # <<>>
  /\ fpc = "prune" => wrote # <<>> /\ wrote[Len(wrote)] = Written /\ Written \in DOMAIN files

\* While the process lives: the files that are left are the last ones.
OrderInv ==
  ~died =>
    /\ fpc # "prune" => Ordered(files, DOMAIN files) /\ Cardinality(DOMAIN files) <= MaxFiles
    /\ fpc = "prune" => Ordered(files, DOMAIN files \ {Written})
    /\ \A p \in ToSet(wrote) \ DOMAIN files, q \in DOMAIN files : WrittenAfter(q, p)

FileInv == fpc \in FileStages /\ LogInv /\ FilesInv /\ OrderInv

LEMMA FileInvInit == FileInit => FileInv
<1> SUFFICES ASSUME FileInit PROVE FileInv OBVIOUS
<1>1. LogInv BY FileAssumption DEF FileInit, LogInv, LogsInv, NoLog, Log
<1>2. DOMAIN files = {} BY DEF FileInit
<1>3. IsFiniteSet(DOMAIN files) /\ Cardinality(DOMAIN files) = 0 BY <1>2, FS_EmptySet
<1>4. files \in [DOMAIN files -> Nat] BY <1>2 DEF FileInit
<1>5. FilesInv BY <1>2, <1>3, <1>4 DEF FileInit, FilesInv
<1>6. OrderInv BY <1>2, <1>3, FileAssumption DEF FileInit, OrderInv, Ordered
<1> QED BY <1>1, <1>5, <1>6 DEF FileInit, FileInv, FileStages

\* What a further write does to the order of the writes.
LEMMA WriteOrders ==
  ASSUME wrote \in Seq(Paths), NEW h \in Paths, wrote' = Append(wrote, h), NEW p, p # h
  PROVE  /\ WrittenAfter(h, p)'
         /\ \A q : WrittenAfter(q, p) => WrittenAfter(q, p)'
<1>1. /\ Len(wrote) \in Nat /\ Len(wrote') = Len(wrote) + 1
      /\ DOMAIN wrote = 1..Len(wrote) /\ DOMAIN wrote' = 1..(Len(wrote) + 1)
      /\ \A i \in 1..Len(wrote) : wrote'[i] = wrote[i]
      /\ wrote'[Len(wrote) + 1] = h
  OBVIOUS
<1>2. WrittenAfter(h, p)'
  <2>1. \A j \in (Len(wrote) + 1)..Len(wrote') : j = Len(wrote) + 1 BY <1>1
  <2>2. Len(wrote) + 1 \in DOMAIN wrote' BY <1>1
  <2> QED BY <1>1, <2>1, <2>2 DEF WrittenAfter
<1>3. ASSUME NEW q, WrittenAfter(q, p) PROVE WrittenAfter(q, p)'
  <2>1. PICK i \in 1..Len(wrote) : wrote[i] = q /\ \A j \in i..Len(wrote) : wrote[j] # p
    BY <1>1, <1>3 DEF WrittenAfter
  <2>2. i \in DOMAIN wrote' /\ wrote'[i] = q BY <1>1, <2>1
  <2>3. ASSUME NEW j \in i..Len(wrote') PROVE wrote'[j] # p
    <3>1. j \in i..Len(wrote) \/ j = Len(wrote) + 1 BY <1>1
    <3> QED BY <1>1, <2>1, <3>1
  <2> QED BY <2>2, <2>3 DEF WrittenAfter
<1> QED BY <1>2, <1>3

LEMMA LastWritten ==
  ASSUME wrote \in Seq(Paths), wrote # <<>>, NEW p, p # wrote[Len(wrote)]
  PROVE  WrittenAfter(wrote[Len(wrote)], p)
<1>1. Len(wrote) \in Nat /\ Len(wrote) # 0 /\ DOMAIN wrote = 1..Len(wrote) OBVIOUS
<1>2. Len(wrote) \in DOMAIN wrote /\ \A j \in Len(wrote)..Len(wrote) : j = Len(wrote) BY <1>1
<1> QED BY <1>1, <1>2 DEF WrittenAfter

LEMMA WriteJsonKeeps ==
  ASSUME FileInv, NEW time \in Clocks, WriteJson(time)
  PROVE  FilesInv' /\ OrderInv'
<1>0. PICK h : h = Written OBVIOUS
<1>1. /\ fpc = "write" /\ fpc' = "prune" /\ UNCHANGED <<pending, died>>
      /\ DOMAIN files' = DOMAIN files \cup {h}
      /\ files'[h] = time /\ \A p \in DOMAIN files : p # h => files'[p] = files[p]
      /\ wrote' = Append(wrote, h)
      /\ files' = [p \in DOMAIN files' |-> files'[p]]
  BY <1>0 DEF WriteJson, Written
<1>2. h \in Paths /\ time \in Nat
  BY <1>0, <1>1, FileAssumption DEF FileInv, FilesInv, Written
<1>3. /\ pending \in Seq(Paths) /\ pending # <<>> /\ wrote \in Seq(Paths)
      /\ IsFiniteSet(DOMAIN files) /\ DOMAIN files \subseteq Paths
      /\ \A p \in DOMAIN files : files[p] \in Nat
  BY <1>1 DEF FileInv, FilesInv
<1>4. Written' = h BY <1>0, <1>1 DEF Written
<1>5. /\ wrote' \in Seq(Paths) /\ wrote' # <<>> /\ wrote'[Len(wrote')] = h
      /\ ToSet(wrote') = ToSet(wrote) \cup {h}
  <2>1. /\ wrote' \in Seq(Paths) /\ Len(wrote') = Len(wrote) + 1 /\ Len(wrote) \in Nat
        /\ DOMAIN wrote = 1..Len(wrote) /\ DOMAIN wrote' = 1..(Len(wrote) + 1)
        /\ \A i \in 1..Len(wrote) : wrote'[i] = wrote[i]
        /\ wrote'[Len(wrote) + 1] = h
    BY <1>1, <1>2, <1>3
  <2>2. \A i \in DOMAIN wrote' : i \in DOMAIN wrote \/ i = Len(wrote) + 1 BY <2>1
  <2>3. ToSet(wrote') = ToSet(wrote) \cup {h} BY <2>1, <2>2 DEF ToSet
  <2> QED BY <2>1, <2>3
<1>6. IsFiniteSet(DOMAIN files')
  <2>1. DOMAIN files' = DOMAIN files \cup {h} /\ IsFiniteSet(DOMAIN files) BY <1>1, <1>3
  <2>2. IsFiniteSet(DOMAIN files \cup {h}) BY <2>1, FS_AddElement
  <2> QED BY <2>1, <2>2
<1>7. files' \in [DOMAIN files' -> Nat] BY <1>1, <1>2, <1>3
<1>8. FilesInv' BY <1>1, <1>2, <1>3, <1>4, <1>5, <1>6, <1>7 DEF FilesInv
<1>9. ASSUME ~died PROVE  /\ Ordered(files, DOMAIN files \ {Written})'
                          /\ \A p \in ToSet(wrote') \ DOMAIN files', q \in DOMAIN files' : WrittenAfter(q, p)'
  <2>1. Ordered(files, DOMAIN files) BY <1>1, <1>9 DEF FileInv, OrderInv
  <2>2. \A p \in ToSet(wrote) \ DOMAIN files, q \in DOMAIN files : WrittenAfter(q, p)
    BY <1>9 DEF FileInv, OrderInv
  <2>3. ASSUME NEW p, p # h
        PROVE  WrittenAfter(h, p)' /\ \A q : WrittenAfter(q, p) => WrittenAfter(q, p)'
    BY <1>1, <1>2, <1>3, <2>3, WriteOrders
  <2>4. ASSUME NEW p \in DOMAIN files' \ {h}, NEW q \in DOMAIN files' \ {h}, p # q
        PROVE  files'[p] # files'[q] /\ (files'[p] < files'[q] => WrittenAfter(q, p)')
    <3>1. p \in DOMAIN files /\ q \in DOMAIN files /\ p # h /\ q # h BY <1>1
    <3>2. files'[p] = files[p] /\ files'[q] = files[q] BY <1>1, <3>1
    <3>3. files[p] # files[q] /\ (files[p] < files[q] => WrittenAfter(q, p))
      BY <2>1, <2>4, <3>1 DEF Ordered
    <3>4. WrittenAfter(q, p) => WrittenAfter(q, p)' BY <2>3, <3>1
    <3> QED BY <3>2, <3>3, <3>4
  <2>5. Ordered(files, DOMAIN files \ {Written})' BY <1>4, <2>4 DEF Ordered
  <2>6. ASSUME NEW p \in ToSet(wrote') \ DOMAIN files', NEW q \in DOMAIN files'
        PROVE  WrittenAfter(q, p)'
    <3>1. p # h /\ p \in ToSet(wrote) \ DOMAIN files /\ (q = h \/ q \in DOMAIN files)
      BY <1>1, <1>5
    <3> QED BY <2>2, <2>3, <3>1
  <2> QED BY <2>5, <2>6
<1>10. OrderInv' BY <1>1, <1>4, <1>9 DEF OrderInv
<1> QED BY <1>8, <1>10

\* The file just written is the newest from now on.
LEMMA TouchedIsNewest ==
  ASSUME FilesInv, fpc = "prune"
  PROVE  /\ DOMAIN Touched = DOMAIN files
         /\ Touched \in [DOMAIN files -> Nat]
         /\ \A p \in DOMAIN files \ {Written} :
              Touched[p] = files[p] /\ Touched[p] < Touched[Written]
<1> DEFINE w == Written
           others == {files[p] : p \in DOMAIN files \ {w}}
           newest == IF others = {} THEN -1 ELSE Max(others)
<1>1. /\ w \in DOMAIN files /\ IsFiniteSet(DOMAIN files)
      /\ files \in [DOMAIN files -> Nat]
  BY DEF FilesInv
<1>2. Touched = IF files[w] <= newest THEN [files EXCEPT ![w] = newest + 1] ELSE files
  BY DEF Touched, Written
<1>3. others \in SUBSET Nat BY <1>1
<1>4. IsFiniteSet(others)
  <2> DEFINE time == [p \in DOMAIN files \ {w} |-> files[p]]
  <2>1. IsFiniteSet(DOMAIN files \ {w}) BY <1>1, FS_Subset
  <2>2. time \in Surjection(DOMAIN files \ {w}, others) BY DEF Surjection
  <2> HIDE DEF time, others
  <2> QED BY <2>1, <2>2, FS_Surjection
<1>5. /\ newest \in Int /\ newest + 1 \in Nat
      /\ \A p \in DOMAIN files \ {w} : files[p] <= newest
  <2>1. CASE others = {} BY <2>1
  <2>2. CASE others # {}
    <3>1. Max(others) \in others /\ \A x \in others : x <= Max(others)
      BY <1>3, <1>4, <2>2, MaxOfFinite
    <3> QED BY <1>3, <2>2, <3>1
  <2> QED BY <2>1, <2>2
<1> HIDE DEF w, newest
<1> QED BY <1>1, <1>2, <1>5 DEF w

LEMMA PruneKeeps ==
  ASSUME FileInv, PruneRegularFiles
  PROVE  FilesInv' /\ OrderInv'
<1> DEFINE D == DOMAIN files
           t == Touched
           B == [p \in D |-> Newer(t, p)]
           kept == FewBefore(D, B, MaxFiles)
<1>1. /\ fpc = "prune" /\ fpc' \in {"idle", "write"} /\ UNCHANGED <<wrote, died>>
      /\ pending' = Tail(pending) /\ (fpc' = "write" => pending' # <<>>)
  BY DEF PruneRegularFiles
<1>2. /\ pending \in Seq(Paths) /\ pending # <<>> /\ wrote \in Seq(Paths) /\ wrote # <<>>
      /\ IsFiniteSet(D) /\ D \subseteq Paths /\ Written \in D /\ wrote[Len(wrote)] = Written
  BY <1>1 DEF FileInv, FilesInv
<1>3. /\ DOMAIN t = D /\ t \in [D -> Nat]
      /\ \A p \in D \ {Written} : t[p] = files[p] /\ t[p] < t[Written]
  BY <1>1, TouchedIsNewest DEF FileInv
<1>4. files' = [p \in kept |-> t[p]]
  BY <1>3 DEF PruneRegularFiles, FewBefore
<1> HIDE DEF t
<1>5. \A p, q \in D : q \in B[p] <=> t[p] < t[q] \/ (t[p] = t[q] /\ p < q)
  BY <1>3 DEF Newer
<1>6. InRow(D, B)
  <2>1. B \in [D -> SUBSET D] BY <1>3 DEF Newer
  <2>2. \A p \in D : p \in Nat /\ t[p] \in Nat BY <1>2, <1>3, FileAssumption
  <2> HIDE DEF B, D
  <2>3. \A p \in D : p \notin B[p] BY <1>5, <2>2
  <2>4. \A p, q \in D : p # q => p \in B[q] \/ q \in B[p]
    <3> TAKE p, q \in D
    <3>1. p \in Nat /\ q \in Nat /\ t[p] \in Nat /\ t[q] \in Nat BY <2>2
    <3> QED BY <1>5, <3>1
  <2>5. \A p, q \in D : q \in B[p] => B[q] \subseteq B[p]
    <3> SUFFICES ASSUME NEW p \in D, NEW q \in D, q \in B[p], NEW x \in B[q] PROVE x \in B[p]
      OBVIOUS
    <3>1. x \in D BY <2>1
    <3>2. /\ p \in Nat /\ q \in Nat /\ x \in Nat /\ t[p] \in Nat /\ t[q] \in Nat /\ t[x] \in Nat
      BY <2>2, <3>1
    <3>3. (t[p] < t[q] \/ (t[p] = t[q] /\ p < q)) /\ (t[q] < t[x] \/ (t[q] = t[x] /\ q < x))
      BY <1>5, <3>1
    <3>4. t[p] < t[x] \/ (t[p] = t[x] /\ p < x) BY <3>2, <3>3
    <3> QED BY <1>5, <3>1, <3>4
  <2> QED BY <2>1, <2>3, <2>4, <2>5 DEF InRow
<1>7. IsFiniteSet(kept) /\ Cardinality(kept) <= MaxFiles
  BY <1>2, <1>6, FewAreFew, FileAssumption
<1>8. kept \subseteq D BY DEF FewBefore
<1> HIDE DEF B, D
<1>9. /\ DOMAIN files' = kept /\ \A p \in kept : files'[p] = t[p]
  BY <1>4
<1>10. FilesInv'
  <2>1. files' \in [kept -> Nat] BY <1>3, <1>4, <1>8
  <2>2. pending' \in Seq(Paths) BY <1>1, <1>2
  <2> QED BY <1>1, <1>2, <1>7, <1>8, <1>9, <2>1, <2>2 DEF FilesInv
<1>11. ASSUME ~died
       PROVE  /\ Ordered(files, DOMAIN files)'
              /\ \A p \in ToSet(wrote') \ DOMAIN files', q \in DOMAIN files' : WrittenAfter(q, p)'
  <2>1. Ordered(files, D \ {Written})
        /\ \A p \in ToSet(wrote) \ D, q \in D : WrittenAfter(q, p)
    BY <1>1, <1>11 DEF FileInv, OrderInv, D
  <2>2. \A p : p # Written => WrittenAfter(Written, p) BY <1>2, LastWritten
  <2>3. \A p \in D : t[p] \in Nat BY <1>3
  <2>4. \A p, q \in D : p # q => t[p] # t[q] /\ (t[p] < t[q] => WrittenAfter(q, p))
    <3> TAKE p, q \in D
    <3> HAVE p # q
    <3>1. CASE p = Written
      <4>1. t[q] < t[p] BY <1>3, <3>1
      <4> QED BY <2>3, <4>1
    <3>2. CASE q = Written
      <4>1. t[p] < t[q] BY <1>3, <3>2
      <4> QED BY <2>2, <2>3, <3>2, <4>1
    <3>3. CASE p # Written /\ q # Written
      BY <1>3, <2>1, <3>3 DEF Ordered
    <3> QED BY <3>1, <3>2, <3>3
  <2>5. \A q, p : WrittenAfter(q, p)' <=> WrittenAfter(q, p) BY <1>1 DEF WrittenAfter
  <2>6. Ordered(files, DOMAIN files)'
    BY <1>8, <1>9, <2>4, <2>5 DEF Ordered
  <2>7. ASSUME NEW p \in ToSet(wrote) \ kept, NEW q \in kept PROVE WrittenAfter(q, p)
    <3>1. CASE p \notin D BY <1>8, <2>1, <2>7, <3>1
    <3>2. CASE p \in D
      <4>1. q \in D /\ p # q BY <1>8
      <4>2. /\ B[p] \in SUBSET D /\ B[q] \in SUBSET D
            /\ p \in B[q] => B[p] \subseteq B[q]
        BY <1>6, <3>2, <4>1 DEF InRow
      <4>3. IsFiniteSet(B[q]) /\ Cardinality(B[q]) \in Nat /\ Cardinality(B[p]) \in Nat
        BY <1>2, <4>2, FS_Subset, FS_CardinalityType
      <4>4. Cardinality(B[q]) < MaxFiles /\ ~(Cardinality(B[p]) < MaxFiles)
        BY <2>7, <3>2 DEF FewBefore
      <4>5. p \notin B[q]
        <5> SUFFICES ASSUME p \in B[q] PROVE FALSE OBVIOUS
        <5>1. Cardinality(B[p]) <= Cardinality(B[q]) BY <4>2, <4>3, FS_Subset
        <5> QED BY <4>3, <4>4, <5>1, FileAssumption
      <4>6. ~(t[q] < t[p]) BY <1>5, <3>2, <4>1, <4>5
      <4>7. t[p] < t[q] BY <2>3, <2>4, <3>2, <4>1, <4>6
      <4> QED BY <2>4, <3>2, <4>1, <4>7
    <3> QED BY <3>1, <3>2
  <2> QED BY <1>1, <1>9, <2>5, <2>6, <2>7
<1>12. OrderInv' BY <1>1, <1>7, <1>9, <1>11 DEF OrderInv
<1> QED BY <1>10, <1>12

LEMMA FileInvStep == FileInv /\ FileStep => FileInv'
<1> SUFFICES ASSUME FileInv, FileStep PROVE FileInv' OBVIOUS
<1>k. LogInv /\ UNCHANGED <<audit, rotated, logged>> => LogsInv'
  BY DEF LogInv, LogsInv
<1>l. LogInv /\ UNCHANGED <<audit, rotated, logged, incoming>> /\ fpc' \notin {"append", "rename"} => LogInv'
  BY DEF LogInv, LogsInv
<1>f. FilesInv /\ UNCHANGED <<pending, wrote, files>> /\ fpc' \notin {"write", "prune"} => FilesInv'
  BY DEF FilesInv
<1>o. OrderInv /\ UNCHANGED <<wrote, files, died>> /\ fpc # "prune" /\ fpc' # "prune" => OrderInv'
  BY DEF OrderInv, Ordered, WrittenAfter
<1>1. ASSUME NEW size \in LineSizes, NEW documents \in BoundedSeq(Paths, 2), Command(size, documents)
      PROVE FileInv'
  <2>1. /\ fpc = "idle" /\ fpc' \in {"idle", "rotate"}
        /\ UNCHANGED <<audit, rotated, logged, files, wrote, died>>
        /\ (UNCHANGED <<incoming, pending>> \/ (~(size > MaxAudit) /\ incoming' = size /\ pending' = documents))
    BY <1>1 DEF Command, FileInv
  <2>2. documents \in Seq(Paths)
    <3>1. PICK m \in 0..2 : documents \in [1..m -> Paths] BY DEF BoundedSeq, SeqOf
    <3> QED BY <3>1
  <2>3. incoming' \in Nat /\ incoming' <= MaxAudit
    <3>1. incoming \in Nat /\ incoming <= MaxAudit BY DEF FileInv, LogInv
    <3>2. size \in Nat BY FileAssumption
    <3> QED BY <2>1, <3>1, <3>2, FileAssumption
  <2>5. LogInv' BY <1>k, <2>1, <2>3 DEF FileInv, LogInv
  <2>4. FilesInv' BY <2>1, <2>2 DEF FileInv, FilesInv
  <2> QED BY <1>o, <2>1, <2>5, <2>4 DEF FileInv, FileStages
<1>2. ASSUME UnlinkRotated PROVE FileInv'
  <2>1. /\ fpc = "rotate" /\ fpc' \in {"append", "rename"}
        /\ UNCHANGED <<commands, incoming, audit, logged, pending, files, wrote, died>>
    BY <1>2 DEF UnlinkRotated
  <2>2. LogInv'
    <3>1. CASE fpc' = "append"
      <4>1. UNCHANGED rotated /\ (audit = NoLog \/ audit.bytes + incoming <= MaxAudit)
        BY <1>2, <3>1 DEF UnlinkRotated
      <4>2. audit.bytes + incoming <= MaxAudit BY <4>1 DEF FileInv, LogInv, LogsInv, NoLog
      <4> QED BY <1>k, <2>1, <3>1, <4>1, <4>2 DEF FileInv, LogInv
    <3>2. CASE fpc' = "rename"
      <4>1. rotated' = NoLog BY <1>2, <3>2 DEF UnlinkRotated
      <4>2. NoLog \in Log /\ NoLog.bytes <= MaxAudit /\ Len(NoLog.lines) = 0
        BY FileAssumption DEF NoLog, Log
      <4>3. LogsInv'
        <5>1. \A i \in 1..Len(rotated'.lines) :
                rotated'.lines[i] = logged' - Len(audit'.lines) - Len(rotated'.lines) + i
          <6>1. Len(rotated'.lines) = 0 BY <4>1, <4>2
          <6> QED BY <6>1
        <5> QED BY <2>1, <4>1, <4>2, <5>1 DEF FileInv, LogInv, LogsInv
      <4> QED BY <2>1, <3>2, <4>1, <4>3 DEF FileInv, LogInv
    <3> QED BY <2>1, <3>1, <3>2
  <2> QED BY <1>f, <1>o, <2>1, <2>2 DEF FileInv, FileStages
<1>3. ASSUME RenameLog PROVE FileInv'
  <2>1. /\ fpc = "rename" /\ fpc' = "append" /\ rotated' = audit /\ audit' = NoLog
        /\ UNCHANGED <<commands, incoming, logged, pending, files, wrote, died>>
    BY <1>3 DEF RenameLog
  <2>2. NoLog \in Log /\ NoLog.bytes = 0 /\ Len(NoLog.lines) = 0
    BY DEF NoLog, Log
  <2>4. audit \in Log /\ logged \in Nat /\ audit.bytes <= MaxAudit
        /\ \A i \in 1..Len(audit.lines) : audit.lines[i] = logged - Len(audit.lines) + i
    BY DEF FileInv, LogInv, LogsInv
  <2>5. Len(audit.lines) \in Nat BY <2>4 DEF Log
  <2>6. \A i \in 1..Len(rotated'.lines) :
          rotated'.lines[i] = logged' - Len(audit'.lines) - Len(rotated'.lines) + i
    <3>1. /\ rotated'.lines = audit.lines /\ Len(rotated'.lines) = Len(audit.lines)
          /\ Len(audit'.lines) = 0 /\ logged' = logged
      <4>1. rotated' = audit /\ audit' = NoLog /\ logged' = logged BY <2>1
      <4>2. rotated'.lines = audit.lines BY <4>1
      <4>3. audit'.lines = NoLog.lines BY <4>1
      <4> QED BY <2>2, <4>1, <4>2, <4>3
    <3>2. ASSUME NEW i \in 1..Len(audit.lines)
          PROVE  audit.lines[i] = logged - 0 - Len(audit.lines) + i
      <4>1. audit.lines[i] = logged - Len(audit.lines) + i BY <2>4
      <4>2. logged - 0 = logged BY <2>4
      <4> QED BY <4>1, <4>2
    <3> QED BY <3>1, <3>2
  <2>7. LogsInv'
    <3>1. /\ audit' \in Log /\ rotated' \in Log /\ logged' \in Nat
          /\ audit'.bytes <= MaxAudit /\ rotated'.bytes <= MaxAudit
      BY <2>1, <2>2, <2>4, FileAssumption
    <3>2. Len(audit'.lines) = 0 BY <2>1, <2>2
    <3>3. \A i \in 1..Len(audit'.lines) : audit'.lines[i] = logged' - Len(audit'.lines) + i
      BY <3>2
    <3> QED BY <2>6, <3>1, <3>3 DEF LogsInv
  <2>3. LogInv' BY <2>1, <2>2, <2>7, FileAssumption DEF FileInv, LogInv
  <2> QED BY <1>f, <1>o, <2>1, <2>3 DEF FileInv, FileStages
<1>4. ASSUME AppendJsonLine PROVE FileInv'
  <2>1. /\ fpc = "append" /\ fpc' = (IF pending = <<>> THEN "idle" ELSE "write")
        /\ logged' = logged + 1
        /\ audit' = [bytes |-> audit.bytes + incoming, lines |-> Append(audit.lines, logged + 1)]
        /\ UNCHANGED <<commands, incoming, rotated, pending, files, wrote, died>>
    BY <1>4 DEF AppendJsonLine
  <2> DEFINE old == audit.lines
  <2>2. /\ old \in Seq(Nat) /\ audit.bytes \in Nat /\ logged \in Nat /\ incoming \in Nat
        /\ audit.bytes + incoming <= MaxAudit
        /\ \A i \in 1..Len(old) : old[i] = logged - Len(old) + i
    BY <2>1 DEF FileInv, LogInv, LogsInv, Log
  <2>3. audit'.bytes = audit.bytes + incoming /\ audit'.lines = Append(old, logged + 1)
        /\ audit' = [bytes |-> audit'.bytes, lines |-> audit'.lines]
    BY <2>1
  <2> HIDE DEF old
  <2>4. /\ audit'.lines \in Seq(Nat) /\ Len(audit'.lines) = Len(old) + 1 /\ Len(old) \in Nat
        /\ \A i \in 1..Len(old) : audit'.lines[i] = old[i]
        /\ audit'.lines[Len(old) + 1] = logged + 1
    BY <2>2, <2>3
  <2>5. \A i \in 1..Len(audit'.lines) : audit'.lines[i] = logged' - Len(audit'.lines) + i
    <3> TAKE i \in 1..Len(audit'.lines)
    <3>1. i \in 1..Len(old) \/ i = Len(old) + 1 BY <2>4
    <3>2. /\ Len(audit'.lines) = Len(old) + 1 /\ Len(old) \in Nat
          /\ logged' = logged + 1 /\ logged \in Nat
      BY <2>1, <2>2, <2>4
    <3>3. audit'.lines[i] = logged - Len(old) + i
      <4>1. CASE i \in 1..Len(old) BY <2>2, <2>4, <4>1
      <4>2. CASE i = Len(old) + 1
        <5>1. logged + 1 = logged - Len(old) + (Len(old) + 1) BY <3>2
        <5> QED BY <2>4, <4>2, <5>1
      <4> QED BY <3>1, <4>1, <4>2
    <3>4. (logged + 1) - (Len(old) + 1) + i = logged - Len(old) + i BY <3>1, <3>2
    <3> QED BY <3>2, <3>3, <3>4
  <2>6. \A i \in 1..Len(rotated'.lines) :
          rotated'.lines[i] = logged' - Len(audit'.lines) - Len(rotated'.lines) + i
    <3>1. \A i \in 1..Len(rotated.lines) :
            rotated.lines[i] = logged - Len(old) - Len(rotated.lines) + i
      BY DEF FileInv, LogInv, LogsInv, old
    <3>2. Len(rotated.lines) \in Nat BY DEF FileInv, LogInv, LogsInv, Log
    <3>3. /\ Len(audit'.lines) = Len(old) + 1 /\ Len(old) \in Nat
          /\ logged' = logged + 1 /\ logged \in Nat
          /\ rotated'.lines = rotated.lines /\ Len(rotated'.lines) = Len(rotated.lines)
      BY <2>1, <2>2, <2>4
    <3> TAKE i \in 1..Len(rotated'.lines)
    <3>4. i \in Nat /\ i \in 1..Len(rotated.lines) BY <3>2, <3>3
    <3>5. (logged + 1) - (Len(old) + 1) - Len(rotated.lines) + i
            = logged - Len(old) - Len(rotated.lines) + i
      BY <3>2, <3>3, <3>4
    <3> QED BY <3>1, <3>3, <3>4, <3>5
  <2>7. audit' \in Log
    <3>1. audit'.bytes \in Nat /\ audit'.lines \in Seq(Nat) BY <2>2, <2>3, <2>4
    <3> HIDE DEF old
    <3> QED BY <2>3, <3>1 DEF Log
  <2>8. LogInv'
    <3>1. fpc' \notin {"append", "rename"} BY <2>1
    <3>2. audit'.bytes <= MaxAudit BY <2>2, <2>3
    <3>3. logged' \in Nat BY <2>1, <2>2
    <3>4. LogsInv' BY <2>1, <2>5, <2>6, <2>7, <3>2, <3>3 DEF FileInv, LogInv, LogsInv
    <3> QED BY <2>1, <3>1, <3>4 DEF FileInv, LogInv
  <2>9. FilesInv' BY <2>1 DEF FileInv, FilesInv
  <2> QED BY <1>o, <2>1, <2>8, <2>9 DEF FileInv, FileStages
<1>5. ASSUME NEW time \in Clocks, WriteJson(time) PROVE FileInv'
  <2>1. fpc' = "prune" /\ UNCHANGED <<incoming, audit, rotated, logged>> BY <1>5 DEF WriteJson
  <2> QED BY <1>l, <1>5, <2>1, WriteJsonKeeps DEF FileInv, FileStages
<1>6. ASSUME PruneRegularFiles PROVE FileInv'
  <2>1. fpc' \in {"idle", "write"} /\ UNCHANGED <<incoming, audit, rotated, logged>>
    BY <1>6 DEF PruneRegularFiles
  <2> QED BY <1>l, <1>6, <2>1, PruneKeeps DEF FileInv, FileStages
<1>7. ASSUME Dies PROVE FileInv'
  <2>1. /\ fpc' = "idle" /\ pending' = <<>> /\ died' = TRUE
        /\ UNCHANGED <<incoming, audit, rotated, logged, files, wrote>>
    BY <1>7 DEF Dies
  <2>2. FilesInv' BY <2>1 DEF FileInv, FilesInv
  <2>3. OrderInv' BY <2>1 DEF OrderInv
  <2> QED BY <1>l, <2>1, <2>2, <2>3 DEF FileInv, FileStages
<1> QED BY <1>1, <1>2, <1>3, <1>4, <1>5, <1>6, <1>7 DEF FileStep

LEMMA FileInvImplies == FileInv => StoreKeepsNewest
<1> SUFFICES ASSUME FileInv PROVE StoreKeepsNewest OBVIOUS
<1> DEFINE a == audit.lines
           r == rotated.lines
<1>1. /\ a \in Seq(Nat) /\ r \in Seq(Nat) /\ logged \in Nat
      /\ \A i \in 1..Len(a) : a[i] = logged - Len(a) + i
      /\ \A i \in 1..Len(r) : r[i] = logged - Len(a) - Len(r) + i
  BY DEF FileInv, LogInv, LogsInv, Log
<1> HIDE DEF a, r
<1>2. ASSUME NEW i \in DOMAIN (r \o a) PROVE (r \o a)[i] = logged - Len(r \o a) + i
  <2>1. /\ Len(r) \in Nat /\ Len(a) \in Nat /\ Len(r \o a) = Len(r) + Len(a)
        /\ i \in 1..(Len(r) + Len(a))
    BY <1>1
  <2>2. CASE i <= Len(r)
    <3>1. (r \o a)[i] = r[i] BY <1>1, <2>1, <2>2
    <3> QED BY <1>1, <2>1, <2>2, <3>1
  <2>3. CASE i > Len(r)
    <3>1. (r \o a)[i] = a[i - Len(r)] /\ i - Len(r) \in 1..Len(a) BY <1>1, <2>1, <2>3
    <3> QED BY <1>1, <2>1, <3>1
  <2> QED BY <2>1, <2>2, <2>3
<1>3. audit.bytes <= MaxAudit /\ rotated.bytes <= MaxAudit BY DEF FileInv, LogInv, LogsInv
<1>4. fpc = "idle" /\ ~died =>
        /\ Cardinality(DOMAIN files) <= MaxFiles
        /\ \A p \in ToSet(wrote) \ DOMAIN files, q \in DOMAIN files : WrittenAfter(q, p)
  BY DEF FileInv, OrderInv
<1> QED BY <1>2, <1>3, <1>4 DEF StoreKeepsNewest, a, r

-----------------------------------------------------------------------------
(* The composition.                                                        *)

\* Each step is one of a part, and leaves the other parts alone.
LEMMA PartSteps ==
  ASSUME [Next]_vars
  PROVE  /\ ProcessStep \/ ProcessWorld \/ UNCHANGED processVars
         /\ WebhookStep \/ SenderLeaves \/ UNCHANGED webhookVars
         /\ FetchStep \/ SignalExpires \/ UNCHANGED fetchVars
         /\ CallStep \/ CallerAborts \/ UNCHANGED callVars
         /\ ParserStep \/ UNCHANGED parserVars
         /\ AnswerStep \/ UNCHANGED answerVars
         /\ ComparisonStep \/ UNCHANGED comparisonVars
         /\ SearchStep \/ UNCHANGED searchVars
         /\ FileStep \/ UNCHANGED fileVars
<1> USE DEF vars, AnswerOrComparison, CallOrWebhook, SearchOrStore, ParserOrFetch, Rest
<1>1. CASE Answers \/ Compares BY <1>1 DEF Answers, Compares
<1>2. CASE Calls \/ CallChanges BY <1>2 DEF Calls, CallChanges
<1>3. CASE Receives \/ SenderChanges BY <1>3 DEF Receives, SenderChanges
<1>4. CASE Runs \/ ProcessChanges BY <1>4 DEF Runs, ProcessChanges
<1>5. CASE Searches \/ Stores \/ Parses BY <1>5 DEF Searches, Stores, Parses
<1>6. CASE Fetches \/ FetchChanges BY <1>6 DEF Fetches, FetchChanges
<1>7. CASE Quiescent \/ UNCHANGED vars BY <1>7 DEF Quiescent
<1> QED BY <1>1, <1>2, <1>3, <1>4, <1>5, <1>6, <1>7 DEF Next

IInv ==
  /\ ProcessInv /\ WebhookInv /\ FetchInv /\ CallInv /\ ParserInv /\ CheckedInv /\ LaidInv /\ AnswerInv
  /\ ComparisonInv /\ SearchInv /\ FileInv

LEMMA Initially == Init => IInv
BY ProcessInvInit, WebhookInvInit, FetchInvInit, CallInvInit, ParserInvInit, CheckedInvInit, LaidInvInit, AnswerInvInit,
   ComparisonInvInit, SearchInvInit, FileInvInit
   DEF Init, IInv

LEMMA Unmoved ==
  /\ ProcessInv /\ UNCHANGED processVars => ProcessInv'
  /\ WebhookInv /\ UNCHANGED webhookVars => WebhookInv'
  /\ FetchInv /\ UNCHANGED fetchVars => FetchInv'
  /\ CallInv /\ UNCHANGED callVars => CallInv'
  /\ ParserInv /\ UNCHANGED parserVars => ParserInv'
  /\ CheckedInv /\ UNCHANGED parserVars => CheckedInv'
  /\ LaidInv /\ UNCHANGED parserVars => LaidInv'
  /\ AnswerInv /\ UNCHANGED answerVars => AnswerInv'
  /\ ComparisonInv /\ UNCHANGED comparisonVars => ComparisonInv'
  /\ SearchInv /\ UNCHANGED searchVars => SearchInv'
  /\ FileInv /\ UNCHANGED fileVars => FileInv'
<1>1. ProcessInv /\ UNCHANGED processVars => ProcessInv' BY DEF ProcessInv, processVars, workVars
<1>2. WebhookInv /\ UNCHANGED webhookVars => WebhookInv'
  BY DEF WebhookInv, WebhookAcksTruly, webhookVars
<1>3. FetchInv /\ UNCHANGED fetchVars => FetchInv' BY DEF FetchInv, PinnedIsPublic, fetchVars
<1>4. CallInv /\ UNCHANGED callVars => CallInv' BY DEF CallInv, Aligned, callVars
<1>5. ParserInv /\ UNCHANGED parserVars => ParserInv' BY DEF ParserInv, parserVars
<1>6. AnswerInv /\ UNCHANGED answerVars => AnswerInv'
  <2> SUFFICES ASSUME AnswerInv, UNCHANGED answerVars PROVE AnswerInv' OBVIOUS
  <2>1. (DraftInv' <=> DraftInv) BY DEF DraftInv, answerVars
  <2>2. ReplyInv'
    BY DEF AnswerInv, ReplyInv, AnswerResolves, AnswerGrounded, answerVars
  <2> QED BY <2>1, <2>2 DEF AnswerInv, answerVars
<1>7. SearchInv /\ UNCHANGED searchVars => SearchInv'
  <2> SUFFICES ASSUME SearchInv, UNCHANGED searchVars PROVE SearchInv' OBVIOUS
  <2>1. ChosenInv' BY DEF SearchInv, ChosenInv, searchVars
  <2>2. PromotedInv' BY DEF SearchInv, PromotedInv, searchVars
  <2>3. Current' = Current BY DEF Current, searchVars
  <2> QED BY <2>1, <2>2, <2>3 DEF SearchInv, searchVars
<1>8. FileInv /\ UNCHANGED fileVars => FileInv'
  <2> SUFFICES ASSUME FileInv, UNCHANGED fileVars PROVE FileInv' OBVIOUS
  <2>1. LogInv' BY DEF FileInv, LogInv, LogsInv, fileVars
  <2>2. FilesInv' BY DEF FileInv, FilesInv, Written, fileVars
  <2>3. OrderInv' BY DEF FileInv, OrderInv, Ordered, WrittenAfter, Written, fileVars
  <2> QED BY <2>1, <2>2, <2>3 DEF FileInv, fileVars
<1>9. ComparisonInv /\ UNCHANGED comparisonVars => ComparisonInv'
  <2> SUFFICES ASSUME ComparisonInv, UNCHANGED comparisonVars PROVE ComparisonInv' OBVIOUS
  <2>1. (FindingsInv' <=> FindingsInv) BY DEF FindingsInv, FindingAccepted, comparisonVars
  <2>2. VerdictInv'
    BY DEF ComparisonInv, VerdictInv, ComparisonResolves, ComparisonGrounded, comparisonVars
  <2> QED BY <2>1, <2>2 DEF ComparisonInv, comparisonVars
<1>10. CheckedInv /\ UNCHANGED parserVars => CheckedInv'
  BY DEF CheckedInv, ParsedIsChecked, parserVars
<1>11. LaidInv /\ UNCHANGED parserVars => LaidInv' BY DEF LaidInv, parserVars, laidVars
<1> QED BY <1>1, <1>2, <1>3, <1>4, <1>5, <1>6, <1>7, <1>8, <1>9, <1>10, <1>11

LEMMA Inductive == IInv /\ [Next]_vars => IInv'
BY PartSteps, Unmoved, ProcessInvStep, WebhookInvStep, FetchInvStep, CallInvStep, ParserInvStep, CheckedInvStep,
   LaidInvStep, AnswerInvStep, ComparisonInvStep, SearchInvStep, FileInvStep DEF IInv

\* The invariants of all parts hold together, for every value of the bounds.
THEOREM Invariance == Spec => []IInv
<1>1. Init => IInv BY Initially
<1>2. IInv /\ [Next]_vars => IInv' BY Inductive
<1> QED BY <1>1, <1>2, PTL DEF Spec

\* No process ends its database while the server listens, the queue works, or
\* work runs that no timer gave up (main.ts).
THEOREM ClosedInOrderThm == Spec => []ClosedInOrder
<1>1. IInv => ClosedInOrder BY ProcessInvImplies DEF IInv
<1> QED BY <1>1, Invariance, PTL

\* A 202 is sent for what is stored or needs no answer only (webhookRuntime.ts).
THEOREM WebhookAcksTrulyThm == Spec => []WebhookAcksTruly
<1>1. IInv => WebhookAcksTruly BY WebhookInvImplies DEF IInv
<1> QED BY <1>1, Invariance, PTL

\* A fetch of a public url connects to a looked-at public address only, and
\* returns a whole body within its bound (userProvided.ts).
THEOREM FetchedIsPublicThm == Spec => []FetchedIsPublic
<1>1. IInv => FetchedIsPublic BY FetchInvImplies DEF IInv
<1> QED BY <1>1, Invariance, PTL

\* However texts are cut into batches, whatever the provider sends: vectors
\* that are returned are those of the texts (embeddingClient.ts).
THEOREM CallAlignedThm == Spec => []CallAligned
<1>1. IInv => CallAligned BY CallInvImplies DEF IInv
<1> QED BY <1>1, Invariance, PTL

\* Bodies, archives, pages and listeners are released on every path.
THEOREM BodyReleasedThm == Spec => []BodyReleased
<1>1. IInv => BodyReleased
  BY WebhookInvImplies, FetchInvImplies, CallInvImplies, ParserInvImplies DEF IInv, BodyReleased
<1> QED BY <1>1, Invariance, PTL

\* What is indexed under a source in a live discovery is what that source alone
\* covers of the whole registry, once for each source and within the limit;
\* community pages only after no official page matched (liveDiscovery.ts).
THEOREM PromotedIsMatchedThm == Spec => []PromotedIsMatched
<1>1. IInv => PromotedIsMatched BY SearchInvImplies DEF IInv
<1> QED BY <1>1, Invariance, PTL

\* The audit log and the rotated one end with the last line and miss none
\* between, whenever the process dies; pruning keeps the files written last,
\* whatever the clock shows (fileStore.ts).
THEOREM StoreKeepsNewestThm == Spec => []StoreKeepsNewest
<1>1. IInv => StoreKeepsNewest BY FileInvImplies DEF IInv
<1> QED BY <1>1, Invariance, PTL

\* Every number in a text that is sent stands for just what its claim cites, and
\* every source listed is cited, whatever was dropped (renderAnswer.ts).
THEOREM CitationsResolveThm == Spec => []CitationsResolve
<1>1. IInv => CitationsResolve
  BY AnswerInvImplies, ComparisonInvImplies DEF IInv, CitationsResolve
<1> QED BY <1>1, Invariance, PTL

\* Only claims that the verifier supports are sent; no fact rests on unverified
\* evidence alone, a conflict shows two official sources, and what is stale or
\* unofficial is marked (answerQuestion.ts, comparePrivateDocument.ts).
THEOREM ShownIsGroundedThm == Spec => []ShownIsGrounded
<1>1. IInv => ShownIsGrounded
  BY AnswerInvImplies, ComparisonInvImplies DEF IInv, ShownIsGrounded
<1> QED BY <1>1, Invariance, PTL

\* A document is given a result only if it is what its sender says and every
\* entry or page of it was looked at; a PDF's text is all of its texts, once, in
\* their order and apart, within the bound (privateDocumentWorker.ts).
THEOREM ParsedIsWholeThm == Spec => []ParsedIsWhole
<1>1. IInv => ParsedIsWhole BY DEF IInv, CheckedInv, LaidInv, ParsedIsWhole
<1> QED BY <1>1, Invariance, PTL

\* Evidence in hand is not lost to a discovery (answerQuestion.ts).
THEOREM EvidenceKeptThm == Spec => EvidenceKept
<1>1. IInv /\ [Next]_vars => [evidence # <<>> => evidence' # <<>>]_vars
  BY PartSteps, AnswerInvStep DEF IInv, answerVars
<1> QED BY <1>1, Invariance, PTL DEF Spec, EvidenceKept
=============================================================================
