-------------------------- MODULE PromotionProofs --------------------------
(***************************************************************************)
(* Proofs about Promotion, for any requests, connections, retention and    *)
(* number of faults.                                                       *)
(*                                                                         *)
(* A request that has run stands in its row until the clock is beyond the  *)
(* moment at which the row may be forgotten, and by then the request is    *)
(* too old to be accepted again: that is why the retention must be twice   *)
(* the skew.  While a handler works, the row is its own.                   *)
(***************************************************************************)
EXTENDS Promotion, TLAPS

\* A request that has been run, or that a handler has claimed to run.
Spent(r) == runs[r] > 0 \/ \E h \in Handlers : Claimed(h) /\ request[h] = r

\* Two requests of which the audit lets only one through.
Rivals(r, s) == IdOf[r] = IdOf[s] \/ NonceOf[r] = NonceOf[s]

PruneInv == pruning \subseteq 0..clock

\* Who is connected has a request, and an arrival is fresh until it is claimed.
StageInv ==
  \A h \in Handlers :
    /\ pc[h] # "idle" => request[h] \in Requests
    /\ pc[h] \in {"claim", "look"} => Fresh(request[h])
    /\ pc[h] \in {"idle", "claim", "look", "claimed", "discover"} => promoted[h] = 0
    /\ left[h] + promoted[h] <= MaxPromoted

\* What a handler past its claim may rely on: its row is there, and not due to
\* be pruned.
ClaimInv ==
  \A h \in Handlers : Claimed(h) =>
    /\ RowIsOf(IdAt(h), request[h])
    /\ clock <= rows[IdAt(h)].at + Retention
    /\ pc[h] # "recover" => rows[IdAt(h)].outcome = "started"

\* The counters behind the outcome it is going to record.
CountInv ==
  \A h \in Handlers : Claimed(h) =>
    /\ pc[h] \in {"claimed", "busy", "invalid"} => runs[request[h]] = 0
    /\ pc[h] \in {"discover", "promote", "finish"} =>
         runs[request[h]] = 1 /\ indexed[request[h]] = promoted[h]
    /\ pc[h] = "finish" => ending[h] = IF promoted[h] > 0 THEN "promoted" ELSE "no_match"
    /\ pc[h] \in {"recover", "busy", "invalid"} => ending[h] \in Failed
    /\ rows[IdAt(h)].outcome = "started" => recorded[request[h]] \notin Succeeded

UniqueInv ==
  \A g, h \in Handlers : Claimed(g) /\ Claimed(h) /\ request[g] = request[h] => g = h

\* The row stays as long as the request could be accepted.
SpentInv ==
  \A r \in Requests : Spent(r) =>
    \/ RowIsOf(IdOf[r], r) /\ rows[IdOf[r]].at >= SignedAt[r] - Skew
    \/ clock > SignedAt[r] - Skew + Retention

RivalInv ==
  \A r, s \in Requests :
    /\ Spent(r) /\ Spent(s) /\ Rivals(r, s)
    /\ SignedAt[s] - SignedAt[r] \in 0..(Retention - 2 * Skew)
    => r = s

RunInv ==
  \A r \in Requests :
    /\ runs[r] <= 1
    /\ runs[r] = 0 => indexed[r] = 0 /\ recorded[r] \notin Succeeded

IInv ==
  /\ TypeOK /\ PruneInv
  /\ StageInv /\ ClaimInv /\ CountInv /\ UniqueInv
  /\ SpentInv /\ RivalInv /\ RunInv
  /\ SingleFlight /\ AuditIsTrue

USE RequestAssumption, TimeAssumption, BoundAssumption, NullAssumption

-----------------------------------------------------------------------------
(* Facts about a state.                                                    *)

\* A row is known by its id and its nonce.
LEMMA OneOwner ==
  ASSUME NEW i, NEW r \in Requests, NEW s \in Requests, RowIsOf(i, r), RowIsOf(i, s)
  PROVE  r = s
BY DEF RowIsOf

\* Handlers past their claims have rows of their own.
LEMMA RowsApart ==
  ASSUME StageInv, ClaimInv, UniqueInv, NEW g \in Handlers, NEW h \in Handlers,
         Claimed(g), Claimed(h), g # h
  PROVE  IdAt(g) # IdAt(h) /\ request[g] # request[h]
<1>1. request[g] \in Requests /\ request[h] \in Requests
  BY DEF StageInv, Claimed
<1>2. request[g] # request[h]
  BY DEF UniqueInv
<1>3. RowIsOf(IdAt(g), request[g]) /\ RowIsOf(IdAt(h), request[h])
  BY DEF ClaimInv
<1> QED BY <1>1, <1>2, <1>3, OneOwner

\* Only a success is answered by 204.
LEMMA StatusFact ==
  ASSUME NEW outcome \in Outcomes \cup {"started"}
  PROVE  (StatusFor(outcome) = 204) <=> (outcome \in Succeeded)
BY DEF StatusFor, Outcomes, Succeeded, Failed

\* A request whose row is free, and whose arrival is fresh, has never been
\* run, and no rival of it has that was signed shortly before or after it.
LEMMA FreeIsUnspent ==
  ASSUME TypeOK, StageInv, SpentInv, NEW h \in Handlers, pc[h] = "claim", Matching(h) = {},
         NEW r \in Requests, Spent(r), Rivals(r, request[h])
  PROVE  SignedAt[request[h]] - SignedAt[r] > Retention - 2 * Skew
<1>1. request[h] \in Requests /\ Fresh(request[h])
  BY DEF StageInv
<1>2. ~RowIsOf(IdOf[r], r)
  <2>1. SUFFICES ASSUME RowIsOf(IdOf[r], r) PROVE IdOf[r] \in Matching(h)
    OBVIOUS
  <2>2. IdOf[r] \in Ids
    OBVIOUS
  <2> QED BY <2>1, <2>2 DEF RowIsOf, Rivals, Matching, IdAt
<1>3. clock > SignedAt[r] - Skew + Retention
  BY <1>2 DEF SpentInv
<1>4. clock - SignedAt[request[h]] <= Skew
  BY <1>1, SMT DEF Fresh, TypeOK, Times
<1>5. clock \in Int /\ SignedAt[r] \in Int /\ SignedAt[request[h]] \in Int
  BY <1>1 DEF TypeOK, Times
<1> QED BY <1>3, <1>4, <1>5, SMT

-----------------------------------------------------------------------------
(* Steps.                                                                  *)

LEMMA InitInv == Init => IInv
<1> SUFFICES ASSUME Init PROVE IInv
  OBVIOUS
<1> USE DEF Init, NoneHandled, Claimed, Stages, Holding
<1>1. TypeOK
  <2>1. active \in BOOLEAN /\ gone \in [Handlers -> BOOLEAN]
    OBVIOUS
  <2> QED BY <2>1, SMT DEF TypeOK, Times, Outcomes
<1>2. PruneInv /\ StageInv /\ ClaimInv /\ CountInv /\ UniqueInv
  BY DEF PruneInv, StageInv, ClaimInv, CountInv, UniqueInv
<1>3. SpentInv /\ RivalInv
  BY DEF SpentInv, RivalInv, Spent
<1>4. RunInv
  BY SMT DEF RunInv, Succeeded
<1>5. SingleFlight /\ AuditIsTrue
  BY SMT DEF SingleFlight, AuditIsTrue, RowIsOf, Succeeded
<1> QED BY <1>1, <1>2, <1>3, <1>4, <1>5 DEF IInv

LEMMA PruneType ==
  ASSUME TypeOK, MaybePrune
  PROVE  nextPrune' \in Nat /\ pruning' \in SUBSET Times
<1>1. CASE clock < nextPrune
  BY <1>1 DEF MaybePrune, TypeOK, pruneVars
<1>2. CASE ~(clock < nextPrune)
  <2>1. nextPrune' = clock + PruneInterval /\ pruning' = pruning \cup {clock}
    BY <1>2 DEF MaybePrune
  <2>2. clock \in Nat /\ clock \in Times /\ pruning \in SUBSET Times
    BY DEF TypeOK, Times
  <2> QED BY <2>1, <2>2
<1> QED BY <1>1, <1>2

\* What complete writes is a row.
LEMMA RecordedType ==
  ASSUME TypeOK, NEW h \in Handlers, request[h] \in Requests, rows[IdAt(h)] # NoRow
  PROVE  Recorded(h) \in Row
<1>1. rows[IdAt(h)] \in Row
  BY DEF TypeOK, IdAt
<1>2. ending[h] \in Outcomes \cup {"started"} /\ promoted[h] \in 0..MaxPromoted
  BY DEF TypeOK
<1>3. Recorded(h) = [rows[IdAt(h)] EXCEPT !.outcome = ending[h], !.count = promoted[h]]
  BY DEF Recorded
<1> DEFINE row == rows[IdAt(h)] outcome == ending[h] count == promoted[h]
<1> HIDE DEF row, outcome, count
<1>4. row \in Row /\ outcome \in Outcomes \cup {"started"} /\ count \in 0..MaxPromoted
  BY <1>1, <1>2 DEF row, outcome, count
<1>5. [row EXCEPT !.outcome = outcome, !.count = count] \in Row
  BY <1>4 DEF Row
<1> QED BY <1>3, <1>5 DEF row, outcome, count

\* What the writes of the table do to it.
LEMMA InsertFacts ==
  ASSUME TypeOK, NEW h \in Handlers, request[h] \in Requests, InsertRow(h)
  PROVE  LET i == IdAt(h)
         IN /\ i \in Ids
            /\ rows'[i] # NoRow /\ rows'[i].nonce = NonceOf[request[h]]
            /\ rows'[i].outcome = "started" /\ rows'[i].at = clock
            /\ \A j \in Ids : j # i => rows'[j] = rows[j]
<1> DEFINE i == IdAt(h)
           row == [nonce |-> NonceOf[request[h]], outcome |-> "started", count |-> 0, at |-> clock]
<1>1. i \in Ids
  BY DEF IdAt
<1>2. row \in Row
  BY SMT DEF Row, TypeOK
<1>3. rows'[i] = row /\ \A j \in Ids : j # i => rows'[j] = rows[j]
  BY <1>1 DEF InsertRow, TypeOK
<1> QED BY <1>1, <1>2, <1>3

LEMMA CompleteFacts ==
  ASSUME TypeOK, NEW h \in Handlers, request[h] \in Requests, Complete(h)
  PROVE  LET i == IdAt(h)
         IN /\ i \in Ids /\ rows[i] # NoRow /\ rows[i].outcome = "started"
            /\ rows'[i] # NoRow /\ rows'[i].nonce = rows[i].nonce /\ rows'[i].at = rows[i].at
            /\ rows'[i].outcome = ending[h] /\ rows'[i].count = promoted[h]
            /\ \A j \in Ids : j # i => rows'[j] = rows[j]
            /\ recorded'[request[h]] = ending[h]
            /\ \A r \in Requests : r # request[h] => recorded'[r] = recorded[r]
<1> DEFINE i == IdAt(h)
<1>1. i \in Ids /\ rows[i] # NoRow /\ rows[i].outcome = "started"
  BY DEF IdAt, Complete
<1>2. Recorded(h) \in Row
  BY <1>1, RecordedType
<1>3. /\ rows'[i] = Recorded(h) /\ \A j \in Ids : j # i => rows'[j] = rows[j]
      /\ recorded'[request[h]] = ending[h]
      /\ \A r \in Requests : r # request[h] => recorded'[r] = recorded[r]
  BY <1>1 DEF Complete, TypeOK
<1>4. rows[i] \in Row
  BY <1>1 DEF TypeOK
<1>5. /\ Recorded(h).nonce = rows[i].nonce /\ Recorded(h).at = rows[i].at
      /\ Recorded(h).outcome = ending[h] /\ Recorded(h).count = promoted[h]
  BY <1>4 DEF Recorded, Row
<1> QED BY <1>1, <1>2, <1>3, <1>5

LEMMA PruneFacts ==
  ASSUME TypeOK, NEW date \in 0..clock, Pruned(date)
  PROVE  \A i \in Ids :
           \/ rows'[i] = rows[i]
           \/ rows'[i] = NoRow /\ rows[i] # NoRow /\ rows[i].at + Retention < clock
<1> SUFFICES ASSUME NEW i \in Ids, Expired(i, date)
             PROVE  rows'[i] = NoRow /\ rows[i] # NoRow /\ rows[i].at + Retention < clock
  BY DEF Pruned
<1>1. rows'[i] = NoRow /\ rows[i] # NoRow /\ rows[i].at < date - Retention
  BY DEF Pruned, Expired
<1>2. rows[i].at \in Nat /\ clock \in Nat
  BY <1>1, SMT DEF TypeOK, Row, Times
<1> QED BY <1>1, <1>2, SMT

\* Rows have dates.
LEMMA RowFacts == TypeOK => \A i \in Ids : rows[i] # NoRow => rows[i].at \in Nat
BY SMT DEF TypeOK, Row, Times

LEMMA TypeStep == IInv /\ [Next]_vars => TypeOK'
<1> SUFFICES ASSUME IInv, [Next]_vars PROVE TypeOK'
  OBVIOUS
<1> USE DEF IInv, TypeOK, Times, Stages, Holding, Goto, Fault, Idle, IdAt, tableVars, pruneVars,
    handlerVars, historyVars
<1>1. ASSUME Tick PROVE TypeOK'
  BY <1>1, SMT DEF Tick
<1>2. ASSUME Restart PROVE TypeOK'
  <2>1. abandoned' \in SUBSET Ids
    BY <1>2 DEF Restart, Claimed, StageInv
  <2>2. rows' \in [Ids -> Row \cup {NoRow}]
    BY <1>2 DEF Restart, Pruned
  <2>3. active' \in BOOLEAN /\ gone' \in [Handlers -> BOOLEAN]
    BY <1>2 DEF Restart
  <2> QED BY <1>2, <2>1, <2>2, <2>3, SMT DEF Restart, Outcomes
<1>3. ASSUME NEW date \in pruning, Prune(date) PROVE TypeOK'
  BY <1>3, SMT DEF Prune, Pruned
<1>4. ASSUME NEW h \in Handlers, NEW r \in Requests, Deliver(h, r) PROVE TypeOK'
  BY <1>4, SMT DEF Deliver
<1>5. ASSUME NEW h \in Handlers, Abort(h) PROVE TypeOK'
  BY <1>5, SMT DEF Abort
<1>6. ASSUME NEW h \in Handlers, ClaimFails(h) PROVE TypeOK'
  <2>1. request[h] \in Requests
    BY <1>6 DEF ClaimFails, StageInv
  <2>2. rows' \in [Ids -> Row \cup {NoRow}]
    BY <1>6, <2>1, SMT DEF ClaimFails, InsertRow, Row
  <2> QED BY <1>6, <2>1, <2>2, SMT DEF ClaimFails, Reply
<1>7. ASSUME NEW h \in Handlers, Claim(h) PROVE TypeOK'
  <2>1. request[h] \in Requests
    BY <1>7 DEF Claim, StageInv
  <2>2. rows' \in [Ids -> Row \cup {NoRow}]
    BY <1>7, <2>1, SMT DEF Claim, InsertRow, Row
  <2> QED BY <1>7, <2>2, SMT DEF Claim
<1>8. ASSUME NEW h \in Handlers, Look(h) PROVE TypeOK'
  <2>1. request[h] \in Requests
    BY <1>8 DEF Look, StageInv
  <2> QED BY <1>8, <2>1, SMT DEF Look, Reply
<1>9. ASSUME NEW h \in Handlers, Admit(h) PROVE TypeOK'
  <2>1. nextPrune' \in Nat /\ pruning' \in SUBSET Times
    BY <1>9, PruneType DEF Admit
  <2>2. active' \in BOOLEAN
    BY <1>9 DEF Admit
  <2>3. runs' \in [Requests -> Nat] /\ pc' \in [Handlers -> Stages]
    <3>1. request[h] \in Requests /\ runs[request[h]] + 1 \in Nat
      BY <1>9, SMT DEF Admit, StageInv
    <3> QED BY <1>9, <3>1 DEF Admit
  <2> QED BY <1>9, <2>1, <2>2, <2>3, SMT DEF Admit
<1>10. ASSUME NEW h \in Handlers, AdmitGone(h) PROVE TypeOK'
  <2>1. nextPrune' \in Nat /\ pruning' \in SUBSET Times
    BY <1>10, PruneType DEF AdmitGone
  <2>2. active' \in BOOLEAN
    BY <1>10 DEF AdmitGone
  <2> QED BY <1>10, <2>1, <2>2, SMT DEF AdmitGone, Ending, Outcomes, Failed
<1>11. ASSUME NEW h \in Handlers, Refuse(h) PROVE TypeOK'
  <2>1. nextPrune' \in Nat /\ pruning' \in SUBSET Times
    BY <1>11, PruneType DEF Refuse
  <2>2. active' \in BOOLEAN
    BY <1>11 DEF Refuse
  <2> QED BY <1>11, <2>1, <2>2, SMT DEF Refuse, Ending, Outcomes, Failed
<1>12. ASSUME NEW h \in Handlers, Discover(h) PROVE TypeOK'
  BY <1>12, SMT DEF Discover, Selected
<1>13. ASSUME NEW h \in Handlers, PromoteLink(h) PROVE TypeOK'
  <2>1. promoted[h] + 1 \in 0..MaxPromoted /\ left[h] - 1 \in 0..MaxPromoted
    BY <1>13, SMT DEF PromoteLink, StageInv
  <2> QED BY <1>13, <2>1, SMT DEF PromoteLink, StageInv
<1>14. ASSUME NEW h \in Handlers, Promoted(h) PROVE TypeOK'
  BY <1>14, SMT DEF Promoted, Ending, Outcomes, Succeeded
<1>15. ASSUME NEW h \in Handlers, PromoteThrows(h) PROVE TypeOK'
  BY <1>15, SMT DEF PromoteThrows, Catch, CaughtOutcome, Ending, Outcomes, Failed
<1>16. ASSUME NEW h \in Handlers, Ends(h), Complete(h) \/ UNCHANGED tableVars
       PROVE  rows' \in [Ids -> Row \cup {NoRow}]
              /\ recorded' \in [Requests -> Outcomes \cup {"started"}]
  <2>1. request[h] \in Requests
    BY <1>16 DEF Ends, StageInv
  <2>2. CASE Complete(h)
    <3>1. Recorded(h) \in Row
      BY <2>1, <2>2, RecordedType DEF Complete
    <3> QED BY <2>1, <2>2, <3>1, SMT DEF Complete
  <2> QED BY <1>16, <2>2
<1>17. ASSUME NEW h \in Handlers, Finish(h) PROVE TypeOK'
  <2>1. request[h] \in Requests
    BY <1>17 DEF Finish, Ends, StageInv
  <2>2. rows' \in [Ids -> Row \cup {NoRow}]
        /\ recorded' \in [Requests -> Outcomes \cup {"started"}]
    BY <1>16, <1>17 DEF Finish
  <2>3. active' \in BOOLEAN /\ gone' \in [Handlers -> BOOLEAN]
    BY <1>17 DEF Finish, Release
  <2> QED BY <1>17, <2>1, <2>2, <2>3, SMT DEF Finish, Reply
<1>18. ASSUME NEW h \in Handlers, FinishCaught(h) PROVE TypeOK'
  <2>1. rows' \in [Ids -> Row \cup {NoRow}]
        /\ recorded' \in [Requests -> Outcomes \cup {"started"}]
    BY <1>16, <1>18 DEF FinishCaught, Ends, CompleteThrows
  <2>2. faults' \in 0..MaxFaults
    BY <1>18, SMT DEF FinishCaught, CompleteThrows
  <2> QED BY <1>18, <2>1, <2>2, SMT DEF FinishCaught, Catch, CaughtOutcome, Ending, Outcomes, Failed
<1>19. ASSUME NEW h \in Handlers, FinishFails(h) PROVE TypeOK'
  <2>1. request[h] \in Requests
    BY <1>19 DEF FinishFails, StageInv
  <2>2. rows' \in [Ids -> Row \cup {NoRow}]
        /\ recorded' \in [Requests -> Outcomes \cup {"started"}]
    BY <1>16, <1>19 DEF FinishFails, Ends, CompleteThrows
  <2>3. faults' \in 0..MaxFaults
    BY <1>19, SMT DEF FinishFails, CompleteThrows
  <2>4. active' \in BOOLEAN /\ gone' \in [Handlers -> BOOLEAN]
    BY <1>19 DEF FinishFails, Release
  <2> QED BY <1>19, <2>1, <2>2, <2>3, <2>4, SMT DEF FinishFails, Reply
<1>20. CASE UNCHANGED vars
  BY <1>20, SMT DEF vars
<1> QED BY <1>1, <1>2, <1>3, <1>4, <1>5, <1>6, <1>7, <1>8, <1>9, <1>10, <1>11, <1>12, <1>13,
    <1>14, <1>15, <1>17, <1>18, <1>19, <1>20 DEF Next, Work

\* Requests are fresh when they are claimed, as no tick comes between.
LEMMA StageStep == IInv /\ [Next]_vars => StageInv'
<1> SUFFICES ASSUME IInv, [Next]_vars PROVE StageInv'
  OBVIOUS
<1> USE DEF IInv, StageInv, TypeOK, Times, Fresh, tableVars, pruneVars,
    handlerVars, historyVars, Goto, Idle, Fault
<1>1. ASSUME Tick PROVE StageInv'
  BY <1>1, SMTT(30) DEF Tick
<1>2. ASSUME Restart PROVE StageInv'
  BY <1>2, SMTT(30) DEF Restart
<1>3. ASSUME NEW date \in pruning, Prune(date) PROVE StageInv'
  BY <1>3, SMTT(30) DEF Prune
<1>4. ASSUME NEW h \in Handlers, NEW r \in Requests, Deliver(h, r) PROVE StageInv'
  BY <1>4, SMTT(30) DEF Deliver
<1>5. ASSUME NEW h \in Handlers, Abort(h) PROVE StageInv'
  BY <1>5, SMTT(30) DEF Abort
<1>6. ASSUME NEW h \in Handlers, ClaimFails(h) PROVE StageInv'
  BY <1>6, SMTT(30) DEF ClaimFails
<1>7. ASSUME NEW h \in Handlers, Claim(h) PROVE StageInv'
  BY <1>7, SMTT(30) DEF Claim
<1>8. ASSUME NEW h \in Handlers, Look(h) PROVE StageInv'
  BY <1>8, SMTT(30) DEF Look
<1>9. ASSUME NEW h \in Handlers, Admit(h) PROVE StageInv'
  BY <1>9, SMTT(30) DEF Admit
<1>10. ASSUME NEW h \in Handlers, AdmitGone(h) PROVE StageInv'
  BY <1>10, SMTT(30) DEF AdmitGone, Ending
<1>11. ASSUME NEW h \in Handlers, Refuse(h) PROVE StageInv'
  BY <1>11, SMTT(30) DEF Refuse, Ending
<1>12. ASSUME NEW h \in Handlers, Discover(h) PROVE StageInv'
  <2>1. PICK links \in 0..MaxLinks : left' = [left EXCEPT ![h] = Selected(links)]
    BY <1>12 DEF Discover
  <2>2. Selected(links) \in 0..MaxPromoted
    BY SMT DEF Selected
  <2> HIDE DEF Selected
  <2> QED BY <1>12, <2>1, <2>2, SMTT(30) DEF Discover
<1>13. ASSUME NEW h \in Handlers, PromoteLink(h) PROVE StageInv'
  BY <1>13, SMTT(30) DEF PromoteLink
<1>14. ASSUME NEW h \in Handlers, Promoted(h) PROVE StageInv'
  BY <1>14, SMTT(30) DEF Promoted, Ending
<1>15. ASSUME NEW h \in Handlers, PromoteThrows(h) PROVE StageInv'
  BY <1>15, SMTT(30) DEF PromoteThrows, Catch, CaughtOutcome, Ending
<1>16. ASSUME NEW h \in Handlers, Finish(h) PROVE StageInv'
  BY <1>16, SMTT(30) DEF Finish, Ends
<1>17. ASSUME NEW h \in Handlers, FinishCaught(h) PROVE StageInv'
  BY <1>17, SMTT(30) DEF FinishCaught, CompleteThrows, Catch, CaughtOutcome, Ending
<1>18. ASSUME NEW h \in Handlers, FinishFails(h) PROVE StageInv'
  BY <1>18, SMTT(30) DEF FinishFails, CompleteThrows
<1>19. ASSUME UNCHANGED vars PROVE StageInv'
  BY <1>19, SMTT(30) DEF vars
<1> QED
  BY <1>1, <1>2, <1>3, <1>4, <1>5, <1>6, <1>7, <1>8, <1>9, <1>10,
     <1>11, <1>12, <1>13, <1>14, <1>15, <1>16, <1>17, <1>18, <1>19 DEF Next, Work

\* A request is claimed by one handler at a time: its row bars the others.
LEMMA UniqueStep == IInv /\ [Next]_vars => UniqueInv'
<1> SUFFICES ASSUME IInv, [Next]_vars PROVE UniqueInv'
  OBVIOUS
<1> USE DEF IInv, UniqueInv, Claimed, TypeOK, tableVars, pruneVars,
    handlerVars, historyVars, Goto, Idle, Fault
<1>1. ASSUME Tick PROVE UniqueInv'
  BY <1>1, SMTT(30) DEF Tick
<1>2. ASSUME Restart PROVE UniqueInv'
  BY <1>2, SMTT(30) DEF Restart
<1>3. ASSUME NEW date \in pruning, Prune(date) PROVE UniqueInv'
  BY <1>3, SMTT(30) DEF Prune
<1>4. ASSUME NEW h \in Handlers, NEW r \in Requests, Deliver(h, r) PROVE UniqueInv'
  BY <1>4, SMTT(30) DEF Deliver
<1>5. ASSUME NEW h \in Handlers, Abort(h) PROVE UniqueInv'
  BY <1>5, SMTT(30) DEF Abort
<1>6. ASSUME NEW h \in Handlers, ClaimFails(h) PROVE UniqueInv'
  BY <1>6, SMTT(30) DEF ClaimFails
<1>7. ASSUME NEW h \in Handlers, Claim(h) PROVE UniqueInv'
  <2>1. CASE Matching(h) = {}
    <3>1. \A g \in Handlers : Claimed(g) => request[g] # request[h]
      <4> SUFFICES ASSUME NEW g \in Handlers, Claimed(g), request[g] = request[h] PROVE FALSE
        OBVIOUS
      <4>1. RowIsOf(IdAt(h), request[h]) /\ IdAt(h) \in Ids
        BY <1>7 DEF ClaimInv, IdAt, StageInv, Claim
      <4> QED BY <2>1, <4>1 DEF Matching, RowIsOf
    <3> QED BY <1>7, <2>1, <3>1, SMT DEF Claim
  <2>2. CASE Matching(h) # {}
    BY <1>7, <2>2, SMT DEF Claim
  <2> QED BY <2>1, <2>2
<1>8. ASSUME NEW h \in Handlers, Look(h) PROVE UniqueInv'
  BY <1>8, SMTT(30) DEF Look
<1>9. ASSUME NEW h \in Handlers, Admit(h) PROVE UniqueInv'
  BY <1>9, SMTT(30) DEF Admit
<1>10. ASSUME NEW h \in Handlers, AdmitGone(h) PROVE UniqueInv'
  BY <1>10, SMTT(30) DEF AdmitGone, Ending
<1>11. ASSUME NEW h \in Handlers, Refuse(h) PROVE UniqueInv'
  BY <1>11, SMTT(30) DEF Refuse, Ending
<1>12. ASSUME NEW h \in Handlers, Discover(h) PROVE UniqueInv'
  BY <1>12, SMTT(30) DEF Discover
<1>13. ASSUME NEW h \in Handlers, PromoteLink(h) PROVE UniqueInv'
  BY <1>13, SMTT(30) DEF PromoteLink
<1>14. ASSUME NEW h \in Handlers, Promoted(h) PROVE UniqueInv'
  BY <1>14, SMTT(30) DEF Promoted, Ending
<1>15. ASSUME NEW h \in Handlers, PromoteThrows(h) PROVE UniqueInv'
  BY <1>15, SMTT(30) DEF PromoteThrows, Catch, CaughtOutcome, Ending
<1>16. ASSUME NEW h \in Handlers, Finish(h) PROVE UniqueInv'
  BY <1>16, SMTT(30) DEF Finish, Ends
<1>17. ASSUME NEW h \in Handlers, FinishCaught(h) PROVE UniqueInv'
  BY <1>17, SMTT(30) DEF FinishCaught, CompleteThrows, Catch, CaughtOutcome, Ending
<1>18. ASSUME NEW h \in Handlers, FinishFails(h) PROVE UniqueInv'
  BY <1>18, SMTT(30) DEF FinishFails, CompleteThrows
<1>19. ASSUME UNCHANGED vars PROVE UniqueInv'
  BY <1>19, SMTT(30) DEF vars
<1> QED
  BY <1>1, <1>2, <1>3, <1>4, <1>5, <1>6, <1>7, <1>8, <1>9, <1>10,
     <1>11, <1>12, <1>13, <1>14, <1>15, <1>16, <1>17, <1>18, <1>19 DEF Next, Work

\* The dates of prunes are not ahead of the clock.
LEMMA PruneStep == IInv /\ [Next]_vars => PruneInv'
<1> SUFFICES ASSUME IInv, [Next]_vars PROVE PruneInv'
  OBVIOUS
<1> USE DEF IInv, PruneInv, TypeOK, Times, tableVars, pruneVars,
    handlerVars, historyVars, Goto, Idle, Fault
<1>1. ASSUME Tick PROVE PruneInv'
  BY <1>1, SMTT(30) DEF Tick
<1>2. ASSUME Restart PROVE PruneInv'
  BY <1>2, SMTT(30) DEF Restart
<1>3. ASSUME NEW date \in pruning, Prune(date) PROVE PruneInv'
  BY <1>3, SMTT(30) DEF Prune
<1>4. ASSUME NEW h \in Handlers, NEW r \in Requests, Deliver(h, r) PROVE PruneInv'
  BY <1>4, SMTT(30) DEF Deliver
<1>5. ASSUME NEW h \in Handlers, Abort(h) PROVE PruneInv'
  BY <1>5, SMTT(30) DEF Abort
<1>6. ASSUME NEW h \in Handlers, ClaimFails(h) PROVE PruneInv'
  BY <1>6, SMTT(30) DEF ClaimFails
<1>7. ASSUME NEW h \in Handlers, Claim(h) PROVE PruneInv'
  BY <1>7, SMTT(30) DEF Claim
<1>8. ASSUME NEW h \in Handlers, Look(h) PROVE PruneInv'
  BY <1>8, SMTT(30) DEF Look
<1>9. ASSUME NEW h \in Handlers, Admit(h) PROVE PruneInv'
  <2>1. pruning' \subseteq pruning \cup {clock} /\ clock' = clock
    BY <1>9 DEF Admit, MaybePrune
  <2> QED BY <2>1 DEF TypeOK, Times
<1>10. ASSUME NEW h \in Handlers, AdmitGone(h) PROVE PruneInv'
  <2>1. pruning' \subseteq pruning \cup {clock} /\ clock' = clock
    BY <1>10 DEF AdmitGone, MaybePrune
  <2> QED BY <2>1 DEF TypeOK, Times
<1>11. ASSUME NEW h \in Handlers, Refuse(h) PROVE PruneInv'
  <2>1. pruning' \subseteq pruning \cup {clock} /\ clock' = clock
    BY <1>11 DEF Refuse, MaybePrune
  <2> QED BY <2>1 DEF TypeOK, Times
<1>12. ASSUME NEW h \in Handlers, Discover(h) PROVE PruneInv'
  BY <1>12, SMTT(30) DEF Discover
<1>13. ASSUME NEW h \in Handlers, PromoteLink(h) PROVE PruneInv'
  BY <1>13, SMTT(30) DEF PromoteLink
<1>14. ASSUME NEW h \in Handlers, Promoted(h) PROVE PruneInv'
  BY <1>14, SMTT(30) DEF Promoted, Ending
<1>15. ASSUME NEW h \in Handlers, PromoteThrows(h) PROVE PruneInv'
  BY <1>15, SMTT(30) DEF PromoteThrows, Catch, CaughtOutcome, Ending
<1>16. ASSUME NEW h \in Handlers, Finish(h) PROVE PruneInv'
  BY <1>16, SMTT(30) DEF Finish, Ends
<1>17. ASSUME NEW h \in Handlers, FinishCaught(h) PROVE PruneInv'
  BY <1>17, SMTT(30) DEF FinishCaught, CompleteThrows, Catch, CaughtOutcome, Ending
<1>18. ASSUME NEW h \in Handlers, FinishFails(h) PROVE PruneInv'
  BY <1>18, SMTT(30) DEF FinishFails, CompleteThrows
<1>19. ASSUME UNCHANGED vars PROVE PruneInv'
  BY <1>19, SMTT(30) DEF vars
<1> QED
  BY <1>1, <1>2, <1>3, <1>4, <1>5, <1>6, <1>7, <1>8, <1>9, <1>10,
     <1>11, <1>12, <1>13, <1>14, <1>15, <1>16, <1>17, <1>18, <1>19 DEF Next, Work

\* The row of a handler past its claim stays its own until it has completed it.
LEMMA ClaimStep == IInv /\ [Next]_vars => ClaimInv'
<1> DEFINE Own(g) ==
      /\ RowIsOf(IdAt(g), request[g])
      /\ clock <= rows[IdAt(g)].at + Retention
      /\ pc[g] # "recover" => rows[IdAt(g)].outcome = "started"
<1> SUFFICES ASSUME IInv, [Next]_vars, NEW g \in Handlers, Claimed(g)'
             PROVE  Own(g)'
  BY DEF ClaimInv
<1>0. /\ Claimed(g) => Own(g)
      /\ \A i \in Ids : rows[i] # NoRow => rows[i].at \in Nat
      /\ request[g] \in Requests => IdAt(g) \in Ids
      /\ pc[g] # "idle" => request[g] \in Requests
  BY RowFacts DEF IInv, ClaimInv, IdAt, StageInv
<1> USE <1>0
<1> USE DEF IInv, Claimed, TypeOK, Times, RowIsOf, IdAt,
    tableVars, pruneVars,
    handlerVars, historyVars, Goto, Idle, Fault
<1>1. ASSUME Tick PROVE Own(g)'
  BY <1>1, SMTT(30) DEF Tick
<1>2. ASSUME Restart PROVE Own(g)'
  BY <1>2 DEF Restart
<1>3. ASSUME NEW date \in pruning, Prune(date) PROVE Own(g)'
  <2>1. date \in 0..clock
    BY DEF PruneInv
  <2> QED BY <1>3, <2>1, PruneFacts, SMTT(30) DEF Prune
<1>4. ASSUME NEW h \in Handlers, NEW r \in Requests, Deliver(h, r) PROVE Own(g)'
  BY <1>4, SMTT(30) DEF Deliver
<1>5. ASSUME NEW h \in Handlers, Abort(h) PROVE Own(g)'
  BY <1>5, SMTT(30) DEF Abort
<1>6. ASSUME NEW h \in Handlers, ClaimFails(h) PROVE Own(g)'
  <2>1. request[h] \in Requests
    BY <1>6 DEF StageInv, ClaimFails
  <2>2. CASE UNCHANGED rows
    BY <1>6, <2>2, SMTT(30) DEF ClaimFails
  <2>3. CASE Matching(h) = {} /\ InsertRow(h)
    <3>1. rows[IdAt(h)] = NoRow
      BY <2>1, <2>3 DEF Matching, IdAt
    <3> QED BY <1>6, <2>1, <2>3, <3>1, InsertFacts, SMTT(30) DEF ClaimFails
  <2> QED BY <1>6, <2>2, <2>3 DEF ClaimFails
<1>7. ASSUME NEW h \in Handlers, Claim(h) PROVE Own(g)'
  <2>1. request[h] \in Requests
    BY <1>7 DEF StageInv, Claim
  <2>2. CASE UNCHANGED rows /\ Goto(h, "look")
    BY <1>7, <2>2, SMTT(30) DEF Claim
  <2>3. CASE Matching(h) = {} /\ InsertRow(h) /\ Goto(h, "claimed")
    <3>1. rows[IdAt(h)] = NoRow
      BY <2>1, <2>3 DEF Matching, IdAt
    <3> QED BY <1>7, <2>1, <2>3, <3>1, InsertFacts, SMTT(30) DEF Claim
  <2> QED BY <1>7, <2>2, <2>3 DEF Claim
<1>8. ASSUME NEW h \in Handlers, Look(h) PROVE Own(g)'
  BY <1>8, SMTT(30) DEF Look
<1>9. ASSUME NEW h \in Handlers, Admit(h) PROVE Own(g)'
  BY <1>9, SMTT(30) DEF Admit
<1>10. ASSUME NEW h \in Handlers, AdmitGone(h) PROVE Own(g)'
  BY <1>10, SMTT(30) DEF AdmitGone, Ending
<1>11. ASSUME NEW h \in Handlers, Refuse(h) PROVE Own(g)'
  BY <1>11, SMTT(30) DEF Refuse, Ending
<1>12. ASSUME NEW h \in Handlers, Discover(h) PROVE Own(g)'
  BY <1>12, SMTT(30) DEF Discover
<1>13. ASSUME NEW h \in Handlers, PromoteLink(h) PROVE Own(g)'
  BY <1>13, SMTT(30) DEF PromoteLink
<1>14. ASSUME NEW h \in Handlers, Promoted(h) PROVE Own(g)'
  BY <1>14, SMTT(30) DEF Promoted, Ending
<1>15. ASSUME NEW h \in Handlers, PromoteThrows(h) PROVE Own(g)'
  BY <1>15, SMTT(30) DEF PromoteThrows, Catch, CaughtOutcome, Ending
<1>16. ASSUME NEW h \in Handlers, Finish(h) PROVE Own(g)'
  <2>1. \A k \in Handlers : Claimed(k) /\ k # h => IdAt(k) # IdAt(h) /\ request[k] # request[h]
    BY <1>16, RowsApart DEF Finish, Ends, Claimed
  <2>2. request[h] \in Requests
    BY <1>16 DEF StageInv, Finish, Ends
  <2>3. CASE Complete(h)
    BY <1>16, <2>1, <2>2, <2>3, CompleteFacts, SMTT(30) DEF Finish, Ends
  <2>4. CASE UNCHANGED tableVars
    BY <1>16, <2>1, <2>2, <2>4, SMTT(30) DEF Finish, Ends
  <2> QED BY <1>16, <2>3, <2>4 DEF Finish
<1>17. ASSUME NEW h \in Handlers, FinishCaught(h) PROVE Own(g)'
  <2>1. \A k \in Handlers : Claimed(k) /\ k # h => IdAt(k) # IdAt(h) /\ request[k] # request[h]
    BY <1>17, RowsApart DEF FinishCaught, Claimed
  <2>2. request[h] \in Requests
    BY <1>17 DEF StageInv, FinishCaught
  <2>3. CASE Complete(h)
    BY <1>17, <2>1, <2>2, <2>3, CompleteFacts, SMTT(30) DEF FinishCaught, Catch,
         CaughtOutcome, Ending
  <2>4. CASE UNCHANGED tableVars
    BY <1>17, <2>1, <2>2, <2>4, SMTT(30) DEF FinishCaught, Catch, CaughtOutcome, Ending
  <2> QED BY <1>17, <2>3, <2>4 DEF FinishCaught, CompleteThrows
<1>18. ASSUME NEW h \in Handlers, FinishFails(h) PROVE Own(g)'
  <2>1. \A k \in Handlers : Claimed(k) /\ k # h => IdAt(k) # IdAt(h) /\ request[k] # request[h]
    BY <1>18, RowsApart DEF FinishFails, Claimed
  <2>2. request[h] \in Requests
    BY <1>18 DEF StageInv, FinishFails
  <2>3. CASE Complete(h)
    BY <1>18, <2>1, <2>2, <2>3, CompleteFacts, SMTT(30) DEF FinishFails
  <2>4. CASE UNCHANGED tableVars
    BY <1>18, <2>1, <2>2, <2>4, SMTT(30) DEF FinishFails
  <2> QED BY <1>18, <2>3, <2>4 DEF FinishFails, CompleteThrows
<1>19. ASSUME UNCHANGED vars PROVE Own(g)'
  BY <1>19, SMTT(30) DEF vars
<1> QED
  BY <1>1, <1>2, <1>3, <1>4, <1>5, <1>6, <1>7, <1>8, <1>9, <1>10,
     <1>11, <1>12, <1>13, <1>14, <1>15, <1>16, <1>17, <1>18, <1>19 DEF Next, Work

\* A claim that finds the table free is the first of its request.
LEMMA FirstClaim ==
  ASSUME IInv, NEW h \in Handlers, pc[h] = "claim", Matching(h) = {}
  PROVE  ~Spent(request[h]) /\ runs[request[h]] = 0
<1>1. request[h] \in Requests
  BY DEF IInv, StageInv
<1>2. SUFFICES ASSUME Spent(request[h]) PROVE FALSE
  BY <1>1 DEF Spent, IInv, TypeOK
<1>3. SignedAt[request[h]] - SignedAt[request[h]] > Retention - 2 * Skew
  BY <1>1, <1>2, FreeIsUnspent DEF IInv, Rivals
<1> QED BY <1>1, <1>3, SMT

\* What is recorded agrees with what was run and indexed.
LEMMA CountStep == IInv /\ [Next]_vars => CountInv'
<1> DEFINE Counted(g) ==
      /\ pc[g] \in {"claimed", "busy", "invalid"} => runs[request[g]] = 0
      /\ pc[g] \in {"discover", "promote", "finish"} =>
           runs[request[g]] = 1 /\ indexed[request[g]] = promoted[g]
      /\ pc[g] = "finish" => ending[g] = IF promoted[g] > 0 THEN "promoted" ELSE "no_match"
      /\ pc[g] \in {"recover", "busy", "invalid"} => ending[g] \in Failed
      /\ rows[IdAt(g)].outcome = "started" => recorded[request[g]] \notin Succeeded
<1> SUFFICES ASSUME IInv, [Next]_vars, NEW g \in Handlers, Claimed(g)'
             PROVE  Counted(g)'
  BY DEF CountInv
<1>0. /\ Claimed(g) => Counted(g) /\ rows[IdAt(g)] # NoRow /\ Claimed(g)
      /\ Claimed(g) /\ pc[g] # "recover" => rows[IdAt(g)].outcome = "started"
      /\ Claimed(g)' => rows'[IdAt(g)'] # NoRow
      /\ request[g] \in Requests => IdAt(g) \in Ids
      /\ pc[g] # "idle" => request[g] \in Requests
      /\ pc[g] \in {"claim", "look", "claimed", "discover"} => promoted[g] = 0
      /\ \A r \in Requests : runs[r] = 0 => indexed[r] = 0 /\ recorded[r] \notin Succeeded
  BY ClaimStep DEF IInv, ClaimInv, CountInv, IdAt, StageInv, RunInv, RowIsOf
<1> USE <1>0
<1> USE DEF IInv, Claimed, TypeOK, Times, IdAt, Failed, Succeeded, tableVars, pruneVars,
    handlerVars, historyVars, Goto, Idle, Fault
<1>1. ASSUME Tick PROVE Counted(g)'
  BY <1>1, SMTT(30) DEF Tick
<1>2. ASSUME Restart PROVE Counted(g)'
  BY <1>2 DEF Restart
<1>3. ASSUME NEW date \in pruning, Prune(date) PROVE Counted(g)'
  <2>1. date \in 0..clock
    BY DEF PruneInv
  <2> QED BY <1>3, <2>1, PruneFacts, SMTT(30) DEF Prune
<1>4. ASSUME NEW h \in Handlers, NEW r \in Requests, Deliver(h, r) PROVE Counted(g)'
  BY <1>4, SMTT(30) DEF Deliver
<1>5. ASSUME NEW h \in Handlers, Abort(h) PROVE Counted(g)'
  BY <1>5, SMTT(30) DEF Abort
<1>6. ASSUME NEW h \in Handlers, ClaimFails(h) PROVE Counted(g)'
  <2>1. request[h] \in Requests
    BY <1>6 DEF StageInv, ClaimFails
  <2>2. CASE UNCHANGED rows
    BY <1>6, <2>2, SMTT(30) DEF ClaimFails
  <2>3. CASE Matching(h) = {} /\ InsertRow(h)
    <3>1. rows[IdAt(h)] = NoRow
      BY <2>1, <2>3 DEF Matching, IdAt
    <3> QED BY <1>6, <2>1, <2>3, <3>1, InsertFacts, SMTT(30) DEF ClaimFails
  <2> QED BY <1>6, <2>2, <2>3 DEF ClaimFails
<1>7. ASSUME NEW h \in Handlers, Claim(h) PROVE Counted(g)'
  <2>1. request[h] \in Requests
    BY <1>7 DEF StageInv, Claim
  <2>2. CASE UNCHANGED rows /\ Goto(h, "look")
    BY <1>7, <2>2, SMTT(30) DEF Claim
  <2>3. CASE Matching(h) = {} /\ InsertRow(h) /\ Goto(h, "claimed")
    <3>1. rows[IdAt(h)] = NoRow
      BY <2>1, <2>3 DEF Matching, IdAt
    <3>2. runs[request[h]] = 0
      BY <1>7, <2>3, FirstClaim DEF Claim
    <3> QED BY <3>2, <1>7, <2>1, <2>3, <3>1, InsertFacts, SMTT(30) DEF Claim
  <2> QED BY <1>7, <2>2, <2>3 DEF Claim
<1>8. ASSUME NEW h \in Handlers, Look(h) PROVE Counted(g)'
  BY <1>8, SMTT(30) DEF Look
<1>9. ASSUME NEW h \in Handlers, Admit(h) PROVE Counted(g)'
  <2>1. \A k \in Handlers : Claimed(k) /\ k # h => IdAt(k) # IdAt(h) /\ request[k] # request[h]
    BY <1>9, RowsApart DEF Admit, Claimed
  <2>2. request[h] \in Requests
    BY <1>9 DEF StageInv, Admit
  <2> QED BY <1>9, <2>1, <2>2, SMTT(30) DEF Admit
<1>10. ASSUME NEW h \in Handlers, AdmitGone(h) PROVE Counted(g)'
  BY <1>10, SMTT(30) DEF AdmitGone, Ending
<1>11. ASSUME NEW h \in Handlers, Refuse(h) PROVE Counted(g)'
  BY <1>11, SMTT(30) DEF Refuse, Ending
<1>12. ASSUME NEW h \in Handlers, Discover(h) PROVE Counted(g)'
  BY <1>12, SMTT(30) DEF Discover
<1>13. ASSUME NEW h \in Handlers, PromoteLink(h) PROVE Counted(g)'
  <2>1. \A k \in Handlers : Claimed(k) /\ k # h => IdAt(k) # IdAt(h) /\ request[k] # request[h]
    BY <1>13, RowsApart DEF PromoteLink, Claimed
  <2>2. request[h] \in Requests
    BY <1>13 DEF StageInv, PromoteLink
  <2> QED BY <1>13, <2>1, <2>2, SMTT(30) DEF PromoteLink
<1>14. ASSUME NEW h \in Handlers, Promoted(h) PROVE Counted(g)'
  BY <1>14, SMTT(30) DEF Promoted, Ending
<1>15. ASSUME NEW h \in Handlers, PromoteThrows(h) PROVE Counted(g)'
  <2>1. \A k \in Handlers : Claimed(k) /\ k # h => IdAt(k) # IdAt(h) /\ request[k] # request[h]
    BY <1>15, RowsApart DEF PromoteThrows, Claimed
  <2>2. request[h] \in Requests
    BY <1>15 DEF StageInv, PromoteThrows
  <2> QED BY <1>15, <2>1, <2>2, SMTT(30) DEF PromoteThrows, Catch, CaughtOutcome, Ending
<1>16. ASSUME NEW h \in Handlers, Finish(h) PROVE Counted(g)'
  <2>1. \A k \in Handlers : Claimed(k) /\ k # h => IdAt(k) # IdAt(h) /\ request[k] # request[h]
    BY <1>16, RowsApart DEF Finish, Ends, Claimed
  <2>2. request[h] \in Requests
    BY <1>16 DEF StageInv, Finish, Ends
  <2>3. CASE Complete(h)
    BY <1>16, <2>1, <2>2, <2>3, CompleteFacts, SMTT(30) DEF Finish, Ends
  <2>4. CASE UNCHANGED tableVars
    BY <1>16, <2>1, <2>2, <2>4, SMTT(30) DEF Finish, Ends
  <2> QED BY <1>16, <2>3, <2>4 DEF Finish
<1>17. ASSUME NEW h \in Handlers, FinishCaught(h) PROVE Counted(g)'
  <2>1. \A k \in Handlers : Claimed(k) /\ k # h => IdAt(k) # IdAt(h) /\ request[k] # request[h]
    BY <1>17, RowsApart DEF FinishCaught, Claimed
  <2>2. request[h] \in Requests
    BY <1>17 DEF StageInv, FinishCaught
  <2>3. CASE Complete(h)
    BY <1>17, <2>1, <2>2, <2>3, CompleteFacts, SMTT(30) DEF FinishCaught, Catch,
         CaughtOutcome, Ending
  <2>4. CASE UNCHANGED tableVars
    BY <1>17, <2>1, <2>2, <2>4, SMTT(30) DEF FinishCaught, Catch, CaughtOutcome, Ending
  <2> QED BY <1>17, <2>3, <2>4 DEF FinishCaught, CompleteThrows
<1>18. ASSUME NEW h \in Handlers, FinishFails(h) PROVE Counted(g)'
  <2>1. \A k \in Handlers : Claimed(k) /\ k # h => IdAt(k) # IdAt(h) /\ request[k] # request[h]
    BY <1>18, RowsApart DEF FinishFails, Claimed
  <2>2. request[h] \in Requests
    BY <1>18 DEF StageInv, FinishFails
  <2>3. CASE Complete(h)
    BY <1>18, <2>1, <2>2, <2>3, CompleteFacts, SMTT(30) DEF FinishFails
  <2>4. CASE UNCHANGED tableVars
    BY <1>18, <2>1, <2>2, <2>4, SMTT(30) DEF FinishFails
  <2> QED BY <1>18, <2>3, <2>4 DEF FinishFails, CompleteThrows
<1>19. ASSUME UNCHANGED vars PROVE Counted(g)'
  BY <1>19, SMTT(30) DEF vars
<1> QED
  BY <1>1, <1>2, <1>3, <1>4, <1>5, <1>6, <1>7, <1>8, <1>9, <1>10,
     <1>11, <1>12, <1>13, <1>14, <1>15, <1>16, <1>17, <1>18, <1>19 DEF Next, Work

\* A step spends no request, or the one that it claims.
NoneSpent == \A r \in Requests : Spent(r)' => Spent(r)

OneSpent(h) ==
  /\ Claim(h) /\ Matching(h) = {} /\ InsertRow(h)
  /\ \A r \in Requests : Spent(r)' => Spent(r) \/ r = request[h]

\* A request is spent by a claim only.
LEMMA SpentGrows == IInv /\ [Next]_vars => NoneSpent \/ \E k \in Handlers : OneSpent(k)
<1> SUFFICES ASSUME IInv, [Next]_vars PROVE NoneSpent \/ \E k \in Handlers : OneSpent(k)
  OBVIOUS
<1> USE DEF IInv, TypeOK, Claimed, Spent, NoneSpent, StageInv, tableVars, pruneVars,
    handlerVars, historyVars, Goto, Idle, Fault
<1>1. ASSUME Tick PROVE NoneSpent \/ \E k \in Handlers : OneSpent(k)
  BY <1>1, SMTT(30) DEF Tick
<1>2. ASSUME Restart PROVE NoneSpent \/ \E k \in Handlers : OneSpent(k)
  BY <1>2, SMTT(30) DEF Restart
<1>3. ASSUME NEW date \in pruning, Prune(date) PROVE NoneSpent \/ \E k \in Handlers : OneSpent(k)
  BY <1>3, SMTT(30) DEF Prune
<1>4. ASSUME NEW h \in Handlers, NEW r \in Requests, Deliver(h, r) PROVE NoneSpent \/ \E k \in Handlers : OneSpent(k)
  BY <1>4, SMTT(30) DEF Deliver
<1>5. ASSUME NEW h \in Handlers, Abort(h) PROVE NoneSpent \/ \E k \in Handlers : OneSpent(k)
  BY <1>5, SMTT(30) DEF Abort
<1>6. ASSUME NEW h \in Handlers, ClaimFails(h) PROVE NoneSpent \/ \E k \in Handlers : OneSpent(k)
  BY <1>6, SMTT(30) DEF ClaimFails
<1>7. ASSUME NEW h \in Handlers, Claim(h) PROVE NoneSpent \/ \E k \in Handlers : OneSpent(k)
  <2>1. CASE Matching(h) = {}
    <3>1. runs' = runs /\ request' = request /\ \A g \in Handlers : g # h /\ Claimed(g)' => Claimed(g)
      BY <1>7, <2>1, SMT DEF Claim
    <3>2. \A r \in Requests : Spent(r)' => Spent(r) \/ r = request[h]
      BY <3>1
    <3> QED BY <1>7, <2>1, <3>2 DEF Claim, OneSpent
  <2>2. CASE Matching(h) # {}
    BY <1>7, <2>2, SMTT(30) DEF Claim
  <2> QED BY <2>1, <2>2
<1>8. ASSUME NEW h \in Handlers, Look(h) PROVE NoneSpent \/ \E k \in Handlers : OneSpent(k)
  BY <1>8, SMTT(30) DEF Look
<1>9. ASSUME NEW h \in Handlers, Admit(h) PROVE NoneSpent \/ \E k \in Handlers : OneSpent(k)
  BY <1>9, SMTT(30) DEF Admit
<1>10. ASSUME NEW h \in Handlers, AdmitGone(h) PROVE NoneSpent \/ \E k \in Handlers : OneSpent(k)
  BY <1>10, SMTT(30) DEF AdmitGone, Ending
<1>11. ASSUME NEW h \in Handlers, Refuse(h) PROVE NoneSpent \/ \E k \in Handlers : OneSpent(k)
  BY <1>11, SMTT(30) DEF Refuse, Ending
<1>12. ASSUME NEW h \in Handlers, Discover(h) PROVE NoneSpent \/ \E k \in Handlers : OneSpent(k)
  BY <1>12, SMTT(30) DEF Discover
<1>13. ASSUME NEW h \in Handlers, PromoteLink(h) PROVE NoneSpent \/ \E k \in Handlers : OneSpent(k)
  BY <1>13, SMTT(30) DEF PromoteLink
<1>14. ASSUME NEW h \in Handlers, Promoted(h) PROVE NoneSpent \/ \E k \in Handlers : OneSpent(k)
  BY <1>14, SMTT(30) DEF Promoted, Ending
<1>15. ASSUME NEW h \in Handlers, PromoteThrows(h) PROVE NoneSpent \/ \E k \in Handlers : OneSpent(k)
  BY <1>15, SMTT(30) DEF PromoteThrows, Catch, CaughtOutcome, Ending
<1>16. ASSUME NEW h \in Handlers, Finish(h) PROVE NoneSpent \/ \E k \in Handlers : OneSpent(k)
  BY <1>16, SMTT(30) DEF Finish, Ends
<1>17. ASSUME NEW h \in Handlers, FinishCaught(h) PROVE NoneSpent \/ \E k \in Handlers : OneSpent(k)
  BY <1>17, SMTT(30) DEF FinishCaught, CompleteThrows, Catch, CaughtOutcome, Ending
<1>18. ASSUME NEW h \in Handlers, FinishFails(h) PROVE NoneSpent \/ \E k \in Handlers : OneSpent(k)
  BY <1>18, SMTT(30) DEF FinishFails, CompleteThrows
<1>19. ASSUME UNCHANGED vars PROVE NoneSpent \/ \E k \in Handlers : OneSpent(k)
  BY <1>19, SMTT(30) DEF vars
<1> QED
  BY <1>1, <1>2, <1>3, <1>4, <1>5, <1>6, <1>7, <1>8, <1>9, <1>10,
     <1>11, <1>12, <1>13, <1>14, <1>15, <1>16, <1>17, <1>18, <1>19 DEF Next, Work

\* What SpentInv says of a request.
Kept(r) ==
  \/ RowIsOf(IdOf[r], r) /\ rows[IdOf[r]].at >= SignedAt[r] - Skew
  \/ clock > SignedAt[r] - Skew + Retention

\* What stands in its row stands there until it may be forgotten.
LEMMA KeptStep == IInv /\ [Next]_vars => \A r \in Requests : Kept(r) => Kept(r)'
<1> SUFFICES ASSUME IInv, [Next]_vars, NEW q \in Requests, Kept(q) PROVE Kept(q)'
  OBVIOUS
<1>0. /\ IdOf[q] \in Ids /\ SignedAt[q] \in Int
      /\ \A i \in Ids : rows[i] # NoRow => rows[i].at \in Nat
  BY RowFacts DEF IInv
<1> USE <1>0
<1> USE DEF IInv, TypeOK, Times, RowIsOf, Kept, tableVars, pruneVars,
    handlerVars, historyVars, Goto, Idle, Fault
<1>1. ASSUME Tick PROVE Kept(q)'
  BY <1>1, SMTT(30) DEF Tick
<1>2. ASSUME Restart PROVE Kept(q)'
  <2>1. clock \in 0..clock /\ clock' = clock
    BY <1>2, SMT DEF Restart
  <2>2. CASE Pruned(clock)
    BY <2>1, <2>2, PruneFacts, SMTT(30)
  <2>3. CASE UNCHANGED rows
    BY <2>1, <2>3
  <2> QED BY <1>2, <2>2, <2>3 DEF Restart
<1>3. ASSUME NEW date \in pruning, Prune(date) PROVE Kept(q)'
  <2>1. date \in 0..clock /\ clock' = clock
    BY <1>3 DEF PruneInv, Prune
  <2>2. CASE Pruned(date)
    BY <2>1, <2>2, PruneFacts, SMTT(30)
  <2>3. CASE UNCHANGED rows
    BY <2>1, <2>3
  <2> QED BY <1>3, <2>2, <2>3 DEF Prune
<1>4. ASSUME NEW h \in Handlers, NEW r \in Requests, Deliver(h, r) PROVE Kept(q)'
  BY <1>4, SMTT(30) DEF Deliver
<1>5. ASSUME NEW h \in Handlers, Abort(h) PROVE Kept(q)'
  BY <1>5, SMTT(30) DEF Abort
<1>6. ASSUME NEW h \in Handlers, ClaimFails(h) PROVE Kept(q)'
  <2>1. request[h] \in Requests
    BY <1>6 DEF StageInv, ClaimFails
  <2>2. CASE UNCHANGED rows
    BY <1>6, <2>2, SMTT(30) DEF ClaimFails
  <2>3. CASE Matching(h) = {} /\ InsertRow(h)
    <3>1. rows[IdAt(h)] = NoRow
      BY <2>1, <2>3 DEF Matching, IdAt
    <3> QED BY <1>6, <2>1, <2>3, <3>1, InsertFacts, SMTT(30) DEF ClaimFails
  <2> QED BY <1>6, <2>2, <2>3 DEF ClaimFails
<1>7. ASSUME NEW h \in Handlers, Claim(h) PROVE Kept(q)'
  <2>1. request[h] \in Requests
    BY <1>7 DEF StageInv, Claim
  <2>2. CASE UNCHANGED rows /\ Goto(h, "look")
    BY <1>7, <2>2, SMTT(30) DEF Claim
  <2>3. CASE Matching(h) = {} /\ InsertRow(h) /\ Goto(h, "claimed")
    <3>1. rows[IdAt(h)] = NoRow
      BY <2>1, <2>3 DEF Matching, IdAt
    <3> QED BY <1>7, <2>1, <2>3, <3>1, InsertFacts, SMTT(30) DEF Claim
  <2> QED BY <1>7, <2>2, <2>3 DEF Claim
<1>8. ASSUME NEW h \in Handlers, Look(h) PROVE Kept(q)'
  BY <1>8, SMTT(30) DEF Look
<1>9. ASSUME NEW h \in Handlers, Admit(h) PROVE Kept(q)'
  BY <1>9, SMTT(30) DEF Admit
<1>10. ASSUME NEW h \in Handlers, AdmitGone(h) PROVE Kept(q)'
  BY <1>10, SMTT(30) DEF AdmitGone, Ending
<1>11. ASSUME NEW h \in Handlers, Refuse(h) PROVE Kept(q)'
  BY <1>11, SMTT(30) DEF Refuse, Ending
<1>12. ASSUME NEW h \in Handlers, Discover(h) PROVE Kept(q)'
  BY <1>12, SMTT(30) DEF Discover
<1>13. ASSUME NEW h \in Handlers, PromoteLink(h) PROVE Kept(q)'
  BY <1>13, SMTT(30) DEF PromoteLink
<1>14. ASSUME NEW h \in Handlers, Promoted(h) PROVE Kept(q)'
  BY <1>14, SMTT(30) DEF Promoted, Ending
<1>15. ASSUME NEW h \in Handlers, PromoteThrows(h) PROVE Kept(q)'
  BY <1>15, SMTT(30) DEF PromoteThrows, Catch, CaughtOutcome, Ending
<1>16. ASSUME NEW h \in Handlers, Finish(h) PROVE Kept(q)'
  <2>1. request[h] \in Requests /\ Complete(h)
    BY <1>16 DEF StageInv, Finish, Ends
  <2> QED BY <1>16, <2>1, CompleteFacts, SMTT(30) DEF Finish
<1>17. ASSUME NEW h \in Handlers, FinishCaught(h) PROVE Kept(q)'
  <2>1. request[h] \in Requests /\ clock' = clock
    BY <1>17 DEF StageInv, FinishCaught
  <2>2. CASE Complete(h)
    BY <2>1, <2>2, CompleteFacts, SMTT(30)
  <2>3. CASE UNCHANGED tableVars
    BY <2>1, <2>3
  <2> QED BY <1>17, <2>2, <2>3 DEF FinishCaught, CompleteThrows
<1>18. ASSUME NEW h \in Handlers, FinishFails(h) PROVE Kept(q)'
  <2>1. request[h] \in Requests /\ clock' = clock
    BY <1>18 DEF StageInv, FinishFails
  <2>2. CASE Complete(h)
    BY <2>1, <2>2, CompleteFacts, SMTT(30)
  <2>3. CASE UNCHANGED tableVars
    BY <2>1, <2>3
  <2> QED BY <1>18, <2>2, <2>3 DEF FinishFails, CompleteThrows
<1>19. ASSUME UNCHANGED vars PROVE Kept(q)'
  BY <1>19, SMTT(30) DEF vars
<1> QED
  BY <1>1, <1>2, <1>3, <1>4, <1>5, <1>6, <1>7, <1>8, <1>9, <1>10,
     <1>11, <1>12, <1>13, <1>14, <1>15, <1>16, <1>17, <1>18, <1>19 DEF Next, Work

\* So a request that is spent stays on record long enough.
LEMMA SpentStep == IInv /\ [Next]_vars => SpentInv'
<1> SUFFICES ASSUME IInv, [Next]_vars, NEW r \in Requests, Spent(r)' PROVE Kept(r)'
  BY DEF SpentInv, Kept
<1>1. CASE Spent(r)
  BY <1>1, KeptStep DEF SpentInv, Kept, IInv
<1>2. CASE ~Spent(r)
  <2>1. PICK h \in Handlers : OneSpent(h) /\ r = request[h]
    BY <1>2, SpentGrows DEF NoneSpent, OneSpent
  <2>2. RowIsOf(IdOf[r], r)' /\ rows'[IdOf[r]].at = clock /\ clock' = clock
    BY <2>1, InsertFacts DEF OneSpent, Claim, IInv, RowIsOf, IdAt
  <2>3. clock - SignedAt[r] >= -Skew
    BY <2>1, SMT DEF OneSpent, Claim, IInv, StageInv, Fresh, TypeOK, Times
  <2>4. clock \in Int /\ SignedAt[r] \in Int
    BY DEF IInv, TypeOK, Times
  <2> QED BY <2>2, <2>3, <2>4, SMT DEF Kept
<1> QED BY <1>1, <1>2

\* And a rival of it finds its row, or is too old to be accepted.
LEMMA RivalStep == IInv /\ [Next]_vars => RivalInv'
<1> SUFFICES ASSUME IInv, [Next]_vars, NEW r \in Requests, NEW s \in Requests,
                    Spent(r)', Spent(s)', Rivals(r, s), r # s,
                    SignedAt[s] - SignedAt[r] \in 0..(Retention - 2 * Skew)
             PROVE  FALSE
  BY DEF RivalInv, Rivals
<1>1. ~(Spent(r) /\ Spent(s))
  BY DEF IInv, RivalInv
<1>2. PICK h \in Handlers : OneSpent(h)
  BY <1>1, SpentGrows DEF NoneSpent
<1>3. pc[h] = "claim" /\ Matching(h) = {}
  BY <1>2 DEF OneSpent, Claim
<1>4. SignedAt[r] \in Int /\ SignedAt[s] \in Int
  OBVIOUS
<1>5. CASE Spent(r) /\ s = request[h]
  <2>1. SignedAt[s] - SignedAt[r] > Retention - 2 * Skew
    BY <1>3, <1>5, FreeIsUnspent DEF IInv
  <2> QED BY <2>1, <1>4, SMT
<1>6. CASE Spent(s) /\ r = request[h]
  <2>1. SignedAt[r] - SignedAt[s] > Retention - 2 * Skew
    BY <1>3, <1>6, FreeIsUnspent DEF IInv, Rivals
  <2> QED BY <2>1, <1>4, SMT
<1> QED BY <1>1, <1>2, <1>5, <1>6 DEF OneSpent

\* A request that has not run has no trace of a success.
LEMMA RunStep == IInv /\ [Next]_vars => RunInv'
<1> DEFINE Ran(r) == runs[r] <= 1 /\ (runs[r] = 0 => indexed[r] = 0 /\ recorded[r] \notin Succeeded)
<1> SUFFICES ASSUME IInv, [Next]_vars, NEW q \in Requests PROVE Ran(q)'
  BY DEF RunInv
<1>0. Ran(q) /\ runs[q] \in Nat
  BY DEF IInv, RunInv, TypeOK
<1> USE <1>0
<1> USE DEF IInv, TypeOK, tableVars, pruneVars,
    handlerVars, historyVars, Goto, Idle, Fault
<1>1. ASSUME Tick PROVE Ran(q)'
  BY <1>1, SMTT(30) DEF Tick
<1>2. ASSUME Restart PROVE Ran(q)'
  BY <1>2, SMTT(30) DEF Restart
<1>3. ASSUME NEW date \in pruning, Prune(date) PROVE Ran(q)'
  BY <1>3, SMTT(30) DEF Prune
<1>4. ASSUME NEW h \in Handlers, NEW r \in Requests, Deliver(h, r) PROVE Ran(q)'
  BY <1>4, SMTT(30) DEF Deliver
<1>5. ASSUME NEW h \in Handlers, Abort(h) PROVE Ran(q)'
  BY <1>5, SMTT(30) DEF Abort
<1>6. ASSUME NEW h \in Handlers, ClaimFails(h) PROVE Ran(q)'
  BY <1>6, SMTT(30) DEF ClaimFails
<1>7. ASSUME NEW h \in Handlers, Claim(h) PROVE Ran(q)'
  BY <1>7, SMTT(30) DEF Claim
<1>8. ASSUME NEW h \in Handlers, Look(h) PROVE Ran(q)'
  BY <1>8, SMTT(30) DEF Look
<1>9. ASSUME NEW h \in Handlers, Admit(h) PROVE Ran(q)'
  <2>1. Claimed(h) /\ request[h] \in Requests
    BY <1>9 DEF StageInv, Claimed, Admit
  <2>2. runs[request[h]] = 0
    BY <1>9, <2>1 DEF CountInv, Admit
  <2> QED BY <1>9, <2>1, <2>2, SMTT(30) DEF Admit
<1>10. ASSUME NEW h \in Handlers, AdmitGone(h) PROVE Ran(q)'
  BY <1>10, SMTT(30) DEF AdmitGone, Ending
<1>11. ASSUME NEW h \in Handlers, Refuse(h) PROVE Ran(q)'
  BY <1>11, SMTT(30) DEF Refuse, Ending
<1>12. ASSUME NEW h \in Handlers, Discover(h) PROVE Ran(q)'
  BY <1>12, SMTT(30) DEF Discover
<1>13. ASSUME NEW h \in Handlers, PromoteLink(h) PROVE Ran(q)'
  <2>1. Claimed(h) /\ request[h] \in Requests
    BY <1>13 DEF StageInv, Claimed, PromoteLink
  <2>2. runs[request[h]] = 1
    BY <1>13, <2>1 DEF CountInv, PromoteLink
  <2> QED BY <1>13, <2>1, <2>2, SMTT(30) DEF PromoteLink
<1>14. ASSUME NEW h \in Handlers, Promoted(h) PROVE Ran(q)'
  BY <1>14, SMTT(30) DEF Promoted, Ending
<1>15. ASSUME NEW h \in Handlers, PromoteThrows(h) PROVE Ran(q)'
  <2>1. Claimed(h) /\ request[h] \in Requests
    BY <1>15 DEF StageInv, Claimed, PromoteThrows
  <2>2. runs[request[h]] = 1
    BY <1>15, <2>1 DEF CountInv, PromoteThrows
  <2> QED BY <1>15, <2>1, <2>2, SMTT(30) DEF PromoteThrows, Catch, Ending
<1>16. ASSUME NEW h \in Handlers, Finish(h) PROVE Ran(q)'
  <2>1. Claimed(h) /\ request[h] \in Requests
    BY <1>16 DEF StageInv, Claimed, Finish, Ends
  <2>2. ending[h] \in Succeeded => runs[request[h]] # 0
    BY <1>16, <2>1, SMT DEF CountInv, Failed, Succeeded, TypeOK, Finish, Ends
  <2>3. CASE Complete(h)
    BY <1>16, <2>1, <2>2, <2>3, CompleteFacts, SMTT(30) DEF Finish
  <2>4. CASE UNCHANGED tableVars
    BY <1>16, <2>4, SMTT(30) DEF Finish
  <2> QED BY <1>16, <2>3, <2>4 DEF Finish
<1>17. ASSUME NEW h \in Handlers, FinishCaught(h) PROVE Ran(q)'
  <2>1. Claimed(h) /\ request[h] \in Requests
    BY <1>17 DEF StageInv, Claimed, FinishCaught
  <2>2. ending[h] \in Succeeded => runs[request[h]] # 0
    BY <1>17, <2>1, SMT DEF CountInv, Failed, Succeeded, TypeOK, FinishCaught
  <2>3. CASE Complete(h)
    BY <1>17, <2>1, <2>2, <2>3, CompleteFacts, SMTT(30) DEF FinishCaught
  <2>4. CASE UNCHANGED tableVars
    BY <1>17, <2>4, SMTT(30) DEF FinishCaught
  <2> QED BY <1>17, <2>3, <2>4 DEF FinishCaught, CompleteThrows
<1>18. ASSUME NEW h \in Handlers, FinishFails(h) PROVE Ran(q)'
  <2>1. Claimed(h) /\ request[h] \in Requests
    BY <1>18 DEF StageInv, Claimed, FinishFails
  <2>2. ending[h] \in Succeeded => runs[request[h]] # 0
    BY <1>18, <2>1, SMT DEF CountInv, Failed, Succeeded, TypeOK, FinishFails
  <2>3. CASE Complete(h)
    BY <1>18, <2>1, <2>2, <2>3, CompleteFacts, SMTT(30) DEF FinishFails
  <2>4. CASE UNCHANGED tableVars
    BY <1>18, <2>4, SMTT(30) DEF FinishFails
  <2> QED BY <1>18, <2>3, <2>4 DEF FinishFails, CompleteThrows
<1>19. ASSUME UNCHANGED vars PROVE Ran(q)'
  BY <1>19, SMTT(30) DEF vars
<1> QED
  BY <1>1, <1>2, <1>3, <1>4, <1>5, <1>6, <1>7, <1>8, <1>9, <1>10,
     <1>11, <1>12, <1>13, <1>14, <1>15, <1>16, <1>17, <1>18, <1>19 DEF Next, Work

\* The flag is the holder's, and every way out of it takes the flag down.
LEMMA FlightStep == IInv /\ [Next]_vars => SingleFlight'
<1> SUFFICES ASSUME IInv, [Next]_vars PROVE SingleFlight'
  OBVIOUS
<1> USE DEF IInv, SingleFlight, TypeOK, Holding, Release, Ends, tableVars, pruneVars,
    handlerVars, historyVars, Goto, Idle, Fault
<1>1. ASSUME Tick PROVE SingleFlight'
  BY <1>1, SMTT(30) DEF Tick
<1>2. ASSUME Restart PROVE SingleFlight'
  BY <1>2, SMTT(30) DEF Restart
<1>3. ASSUME NEW date \in pruning, Prune(date) PROVE SingleFlight'
  BY <1>3, SMTT(30) DEF Prune
<1>4. ASSUME NEW h \in Handlers, NEW r \in Requests, Deliver(h, r) PROVE SingleFlight'
  BY <1>4, SMTT(30) DEF Deliver
<1>5. ASSUME NEW h \in Handlers, Abort(h) PROVE SingleFlight'
  BY <1>5, SMTT(30) DEF Abort
<1>6. ASSUME NEW h \in Handlers, ClaimFails(h) PROVE SingleFlight'
  BY <1>6, SMTT(30) DEF ClaimFails
<1>7. ASSUME NEW h \in Handlers, Claim(h) PROVE SingleFlight'
  BY <1>7, SMTT(30) DEF Claim
<1>8. ASSUME NEW h \in Handlers, Look(h) PROVE SingleFlight'
  BY <1>8, SMTT(30) DEF Look
<1>9. ASSUME NEW h \in Handlers, Admit(h) PROVE SingleFlight'
  BY <1>9, SMTT(30) DEF Admit
<1>10. ASSUME NEW h \in Handlers, AdmitGone(h) PROVE SingleFlight'
  BY <1>10, SMTT(30) DEF AdmitGone, Ending
<1>11. ASSUME NEW h \in Handlers, Refuse(h) PROVE SingleFlight'
  BY <1>11, SMTT(30) DEF Refuse, Ending
<1>12. ASSUME NEW h \in Handlers, Discover(h) PROVE SingleFlight'
  BY <1>12, SMTT(30) DEF Discover
<1>13. ASSUME NEW h \in Handlers, PromoteLink(h) PROVE SingleFlight'
  BY <1>13, SMTT(30) DEF PromoteLink
<1>14. ASSUME NEW h \in Handlers, Promoted(h) PROVE SingleFlight'
  BY <1>14, SMTT(30) DEF Promoted, Ending
<1>15. ASSUME NEW h \in Handlers, PromoteThrows(h) PROVE SingleFlight'
  BY <1>15, SMTT(30) DEF PromoteThrows, Catch, CaughtOutcome, Ending
<1>16. ASSUME NEW h \in Handlers, Finish(h) PROVE SingleFlight'
  BY <1>16, SMTT(30) DEF Finish, Ends
<1>17. ASSUME NEW h \in Handlers, FinishCaught(h) PROVE SingleFlight'
  BY <1>17, SMTT(30) DEF FinishCaught, CompleteThrows, Catch, CaughtOutcome, Ending
<1>18. ASSUME NEW h \in Handlers, FinishFails(h) PROVE SingleFlight'
  BY <1>18, SMTT(30) DEF FinishFails, CompleteThrows
<1>19. ASSUME UNCHANGED vars PROVE SingleFlight'
  BY <1>19, SMTT(30) DEF vars
<1> QED
  BY <1>1, <1>2, <1>3, <1>4, <1>5, <1>6, <1>7, <1>8, <1>9, <1>10,
     <1>11, <1>12, <1>13, <1>14, <1>15, <1>16, <1>17, <1>18, <1>19 DEF Next, Work

\* What the audit and the clients are told of a request is what it did.
LEMMA AuditStep == IInv /\ [Next]_vars => AuditIsTrue'
<1> DEFINE Audited(r) ==
      /\ r \in told => runs[r] > 0 /\ recorded[r] \in Succeeded
      /\ recorded[r] = "promoted" => indexed[r] > 0
      /\ recorded[r] = "no_match" => indexed[r] = 0
      /\ RowIsOf(IdOf[r], r) /\ rows[IdOf[r]].outcome \in Succeeded =>
           rows[IdOf[r]].outcome = recorded[r] /\ rows[IdOf[r]].count = indexed[r]
<1> SUFFICES ASSUME IInv, [Next]_vars
                PROVE  \A r \in Requests : Audited(r)'
  BY TypeStep DEF AuditIsTrue, RowIsOf, TypeOK
<1> SUFFICES ASSUME NEW q \in Requests PROVE Audited(q)'
  OBVIOUS
<1>0. Audited(q) /\ IdOf[q] \in Ids
  BY DEF IInv, AuditIsTrue
<1> USE <1>0
<1> USE DEF IInv, TypeOK, Succeeded, RowIsOf, tableVars, pruneVars,
    handlerVars, historyVars, Goto, Idle, Fault
<1>1. ASSUME Tick PROVE Audited(q)'
  BY <1>1, SMTT(30) DEF Tick
<1>2. ASSUME Restart PROVE Audited(q)'
  <2>1. clock \in 0..clock /\ clock' = clock
    BY <1>2, SMT DEF Restart, Times
  <2>2. CASE Pruned(clock)
    BY <1>2, <2>1, <2>2, PruneFacts, SMTT(30) DEF Restart
  <2>3. CASE UNCHANGED rows
    BY <1>2, <2>1, <2>3 DEF Restart
  <2> QED BY <1>2, <2>2, <2>3 DEF Restart
<1>3. ASSUME NEW date \in pruning, Prune(date) PROVE Audited(q)'
  <2>1. date \in 0..clock /\ clock' = clock
    BY <1>3 DEF PruneInv, Prune
  <2>2. CASE Pruned(date)
    BY <1>3, <2>1, <2>2, PruneFacts, SMTT(30) DEF Prune
  <2>3. CASE UNCHANGED rows
    BY <1>3, <2>1, <2>3 DEF Prune
  <2> QED BY <1>3, <2>2, <2>3 DEF Prune
<1>4. ASSUME NEW h \in Handlers, NEW r \in Requests, Deliver(h, r) PROVE Audited(q)'
  BY <1>4, SMTT(30) DEF Deliver
<1>5. ASSUME NEW h \in Handlers, Abort(h) PROVE Audited(q)'
  BY <1>5, SMTT(30) DEF Abort
<1>6. ASSUME NEW h \in Handlers, ClaimFails(h) PROVE Audited(q)'
  <2>1. request[h] \in Requests
    BY <1>6 DEF StageInv, ClaimFails
  <2>2. CASE UNCHANGED rows
    BY <1>6, <2>2, SMTT(30) DEF ClaimFails, Reply
  <2>3. CASE Matching(h) = {} /\ InsertRow(h)
    <3>1. rows[IdAt(h)] = NoRow
      BY <2>1, <2>3 DEF Matching, IdAt
    <3> QED BY <1>6, <2>1, <2>3, <3>1, InsertFacts, SMTT(30) DEF ClaimFails, Reply
  <2> QED BY <1>6, <2>2, <2>3 DEF ClaimFails
<1>7. ASSUME NEW h \in Handlers, Claim(h) PROVE Audited(q)'
  <2>1. request[h] \in Requests
    BY <1>7 DEF StageInv, Claim
  <2>2. CASE UNCHANGED rows /\ Goto(h, "look")
    BY <1>7, <2>2, SMTT(30) DEF Claim
  <2>3. CASE Matching(h) = {} /\ InsertRow(h) /\ Goto(h, "claimed")
    <3>1. rows[IdAt(h)] = NoRow
      BY <2>1, <2>3 DEF Matching, IdAt
    <3> QED BY <1>7, <2>1, <2>3, <3>1, InsertFacts, SMTT(30) DEF Claim
  <2> QED BY <1>7, <2>2, <2>3 DEF Claim
<1>8. ASSUME NEW h \in Handlers, Look(h) PROVE Audited(q)'
  <2>1. request[h] \in Requests
    BY <1>8 DEF StageInv, Look
  <2>2. CASE q = request[h] /\ q \notin told /\ q \in told'
    <3>1. IdAt(h) = IdOf[q] /\ IdOf[q] \in Ids
      BY <2>2 DEF IdAt
    <3>2. /\ Matching(h) = {IdOf[q]} /\ rows[IdOf[q]].nonce = NonceOf[q]
          /\ StatusFor(rows[IdOf[q]].outcome) = 204
      BY <1>8, <2>2, <3>1 DEF Look, Reply
    <3>3. rows[IdOf[q]] # NoRow
      BY <3>2 DEF Matching
    <3>4. rows[IdOf[q]].outcome \in Outcomes \cup {"started"}
      BY <3>1, <3>3 DEF TypeOK, Row
    <3>5. rows[IdOf[q]].outcome \in Succeeded
      BY <3>2, <3>4, StatusFact
    <3>6. recorded[q] \in Succeeded /\ runs[q] > 0
      BY <3>2, <3>3, <3>5, SMT DEF RunInv, TypeOK
    <3> QED BY <1>8, <3>6 DEF Look
  <2>3. CASE q \in told' => q \in told
    BY <1>8, <2>3 DEF Look
  <2> QED BY <1>8, <2>1, <2>2, <2>3 DEF Look, Reply
<1>9. ASSUME NEW h \in Handlers, Admit(h) PROVE Audited(q)'
  BY <1>9, SMTT(30) DEF Admit
<1>10. ASSUME NEW h \in Handlers, AdmitGone(h) PROVE Audited(q)'
  BY <1>10, SMTT(30) DEF AdmitGone, Ending
<1>11. ASSUME NEW h \in Handlers, Refuse(h) PROVE Audited(q)'
  BY <1>11, SMTT(30) DEF Refuse, Ending
<1>12. ASSUME NEW h \in Handlers, Discover(h) PROVE Audited(q)'
  BY <1>12, SMTT(30) DEF Discover
<1>13. ASSUME NEW h \in Handlers, PromoteLink(h) PROVE Audited(q)'
  <2>1. Claimed(h) /\ request[h] \in Requests
    BY <1>13 DEF StageInv, Claimed, PromoteLink
  <2>2. rows[IdAt(h)].outcome = "started" /\ recorded[request[h]] \notin Succeeded
    BY <1>13, <2>1 DEF ClaimInv, CountInv, PromoteLink
  <2>3. request[h] = q => IdAt(h) = IdOf[q]
    BY DEF IdAt
  <2> QED BY <1>13, <2>1, <2>2, <2>3, SMTT(30) DEF PromoteLink
<1>14. ASSUME NEW h \in Handlers, Promoted(h) PROVE Audited(q)'
  BY <1>14, SMTT(30) DEF Promoted, Ending
<1>15. ASSUME NEW h \in Handlers, PromoteThrows(h) PROVE Audited(q)'
  <2>1. Claimed(h) /\ request[h] \in Requests
    BY <1>15 DEF StageInv, Claimed, PromoteThrows
  <2>2. rows[IdAt(h)].outcome = "started" /\ recorded[request[h]] \notin Succeeded
    BY <1>15, <2>1 DEF ClaimInv, CountInv, PromoteThrows
  <2>3. request[h] = q => IdAt(h) = IdOf[q]
    BY DEF IdAt
  <2> QED BY <1>15, <2>1, <2>2, <2>3, SMTT(30) DEF PromoteThrows, Catch, Ending
<1>16. ASSUME NEW h \in Handlers, Finish(h) PROVE Audited(q)'
  <2>1. Claimed(h) /\ request[h] \in Requests /\ indexed' = indexed /\ runs' = runs
    BY <1>16 DEF StageInv, Claimed, Finish, Ends
  <2>2. told' \subseteq told \cup (IF ending[h] \in Succeeded THEN {request[h]} ELSE {})
    BY <1>16, <2>1, StatusFact DEF Finish, Ends, Reply, TypeOK
  <2>3. CASE Complete(h)
    <3>1. recorded[request[h]] \notin Succeeded
      BY <2>1, <2>3 DEF CountInv, Complete
    <3>2. ending[h] \in Succeeded =>
            /\ runs[request[h]] = 1 /\ indexed[request[h]] = promoted[h]
            /\ ending[h] = IF promoted[h] > 0 THEN "promoted" ELSE "no_match"
      BY <1>16, <2>1, SMT DEF CountInv, Failed, Succeeded, Finish, Ends
    <3>3. promoted[h] \in Nat
      BY DEF TypeOK
    <3>4. CASE q = request[h]
      <4>1. IdAt(h) = IdOf[q]
        BY <3>4 DEF IdAt
      <4> QED BY <2>1, <2>2, <2>3, <3>1, <3>2, <3>3, <3>4, <4>1, CompleteFacts, SMTT(30)
    <3>5. CASE q # request[h]
      <4>1. q \in told' => q \in told
        BY <2>2, <3>5
      <4>2. recorded'[q] = recorded[q]
        BY <2>1, <2>3, <3>5, CompleteFacts
      <4>3. RowIsOf(IdOf[q], q)' => rows'[IdOf[q]] = rows[IdOf[q]]
        <5>1. SUFFICES ASSUME RowIsOf(IdOf[q], q)', IdOf[q] = IdAt(h) PROVE FALSE
          BY <2>1, <2>3, CompleteFacts
        <5>2. RowIsOf(IdAt(h), request[h])
          BY <2>1 DEF ClaimInv
        <5>3. rows'[IdAt(h)].nonce = rows[IdAt(h)].nonce
          BY <2>1, <2>3, CompleteFacts
        <5> QED BY <2>1, <3>5, <5>1, <5>2, <5>3
      <4> QED BY <2>1, <4>1, <4>2, <4>3
    <3> QED BY <3>4, <3>5
  <2>4. CASE UNCHANGED tableVars /\ told' \subseteq told
    BY <2>1, <2>4
  <2> QED BY <1>16, <2>2, <2>3, <2>4 DEF Finish
<1>17. ASSUME NEW h \in Handlers, FinishCaught(h) PROVE Audited(q)'
  <2>1. Claimed(h) /\ request[h] \in Requests /\ indexed' = indexed /\ runs' = runs
    BY <1>17 DEF StageInv, Claimed, FinishCaught, Catch, Ending
  <2>2. told' \subseteq told \cup (IF FALSE THEN {request[h]} ELSE {})
    BY <1>17 DEF FinishCaught, Catch, Ending, Reply, TypeOK
  <2>3. CASE Complete(h)
    <3>1. recorded[request[h]] \notin Succeeded
      BY <2>1, <2>3 DEF CountInv, Complete
    <3>2. ending[h] \in Succeeded =>
            /\ runs[request[h]] = 1 /\ indexed[request[h]] = promoted[h]
            /\ ending[h] = IF promoted[h] > 0 THEN "promoted" ELSE "no_match"
      BY <1>17, <2>1, SMT DEF CountInv, Failed, Succeeded, FinishCaught, Catch, Ending
    <3>3. promoted[h] \in Nat
      BY DEF TypeOK
    <3>4. CASE q = request[h]
      <4>1. IdAt(h) = IdOf[q]
        BY <3>4 DEF IdAt
      <4> QED BY <2>1, <2>2, <2>3, <3>1, <3>2, <3>3, <3>4, <4>1, CompleteFacts, SMTT(30)
    <3>5. CASE q # request[h]
      <4>1. q \in told' => q \in told
        BY <2>2, <3>5
      <4>2. recorded'[q] = recorded[q]
        BY <2>1, <2>3, <3>5, CompleteFacts
      <4>3. RowIsOf(IdOf[q], q)' => rows'[IdOf[q]] = rows[IdOf[q]]
        <5>1. SUFFICES ASSUME RowIsOf(IdOf[q], q)', IdOf[q] = IdAt(h) PROVE FALSE
          BY <2>1, <2>3, CompleteFacts
        <5>2. RowIsOf(IdAt(h), request[h])
          BY <2>1 DEF ClaimInv
        <5>3. rows'[IdAt(h)].nonce = rows[IdAt(h)].nonce
          BY <2>1, <2>3, CompleteFacts
        <5> QED BY <2>1, <3>5, <5>1, <5>2, <5>3
      <4> QED BY <2>1, <4>1, <4>2, <4>3
    <3> QED BY <3>4, <3>5
  <2>4. CASE UNCHANGED tableVars /\ told' \subseteq told
    BY <2>1, <2>4
  <2> QED BY <1>17, <2>2, <2>3, <2>4 DEF FinishCaught, CompleteThrows
<1>18. ASSUME NEW h \in Handlers, FinishFails(h) PROVE Audited(q)'
  <2>1. Claimed(h) /\ request[h] \in Requests /\ indexed' = indexed /\ runs' = runs
    BY <1>18 DEF StageInv, Claimed, FinishFails
  <2>2. told' \subseteq told \cup (IF FALSE THEN {request[h]} ELSE {})
    BY <1>18 DEF FinishFails, Reply, TypeOK
  <2>3. CASE Complete(h)
    <3>1. recorded[request[h]] \notin Succeeded
      BY <2>1, <2>3 DEF CountInv, Complete
    <3>2. ending[h] \in Succeeded =>
            /\ runs[request[h]] = 1 /\ indexed[request[h]] = promoted[h]
            /\ ending[h] = IF promoted[h] > 0 THEN "promoted" ELSE "no_match"
      BY <1>18, <2>1, SMT DEF CountInv, Failed, Succeeded, FinishFails
    <3>3. promoted[h] \in Nat
      BY DEF TypeOK
    <3>4. CASE q = request[h]
      <4>1. IdAt(h) = IdOf[q]
        BY <3>4 DEF IdAt
      <4> QED BY <2>1, <2>2, <2>3, <3>1, <3>2, <3>3, <3>4, <4>1, CompleteFacts, SMTT(30)
    <3>5. CASE q # request[h]
      <4>1. q \in told' => q \in told
        BY <2>2, <3>5
      <4>2. recorded'[q] = recorded[q]
        BY <2>1, <2>3, <3>5, CompleteFacts
      <4>3. RowIsOf(IdOf[q], q)' => rows'[IdOf[q]] = rows[IdOf[q]]
        <5>1. SUFFICES ASSUME RowIsOf(IdOf[q], q)', IdOf[q] = IdAt(h) PROVE FALSE
          BY <2>1, <2>3, CompleteFacts
        <5>2. RowIsOf(IdAt(h), request[h])
          BY <2>1 DEF ClaimInv
        <5>3. rows'[IdAt(h)].nonce = rows[IdAt(h)].nonce
          BY <2>1, <2>3, CompleteFacts
        <5> QED BY <2>1, <3>5, <5>1, <5>2, <5>3
      <4> QED BY <2>1, <4>1, <4>2, <4>3
    <3> QED BY <3>4, <3>5
  <2>4. CASE UNCHANGED tableVars /\ told' \subseteq told
    BY <2>1, <2>4
  <2> QED BY <1>18, <2>2, <2>3, <2>4 DEF FinishFails, CompleteThrows
<1>19. ASSUME UNCHANGED vars PROVE Audited(q)'
  BY <1>19, SMTT(30) DEF vars
<1> QED
  BY <1>1, <1>2, <1>3, <1>4, <1>5, <1>6, <1>7, <1>8, <1>9, <1>10,
     <1>11, <1>12, <1>13, <1>14, <1>15, <1>16, <1>17, <1>18, <1>19 DEF Next, Work

\* An outcome that is recorded stays, or goes with its row.
Settles ==
  \A i \in Ids :
    rows[i] # NoRow /\ rows[i].outcome # "started" => rows'[i] \in {rows[i], NoRow}

\* Only a row that is not there, or is not completed, is written.
LEMMA SettleStep == IInv /\ [Next]_vars => Settles
<1> DEFINE Final(i) ==
      rows[i] # NoRow /\ rows[i].outcome # "started" => rows'[i] \in {rows[i], NoRow}
<1> SUFFICES ASSUME IInv, [Next]_vars, NEW q \in Ids PROVE Final(q)
  BY DEF Settles
<1> USE DEF IInv, TypeOK, tableVars, pruneVars,
    handlerVars, historyVars, Goto, Idle, Fault
<1>1. ASSUME Tick PROVE Final(q)
  BY <1>1, SMTT(30) DEF Tick
<1>2. ASSUME Restart PROVE Final(q)
  <2>1. clock \in 0..clock
    BY SMT DEF Times
  <2> QED BY <1>2, <2>1, PruneFacts DEF Restart
<1>3. ASSUME NEW date \in pruning, Prune(date) PROVE Final(q)
  <2>1. date \in 0..clock
    BY DEF PruneInv
  <2> QED BY <1>3, <2>1, PruneFacts DEF Prune
<1>4. ASSUME NEW h \in Handlers, NEW r \in Requests, Deliver(h, r) PROVE Final(q)
  BY <1>4, SMTT(30) DEF Deliver
<1>5. ASSUME NEW h \in Handlers, Abort(h) PROVE Final(q)
  BY <1>5, SMTT(30) DEF Abort
<1>6. ASSUME NEW h \in Handlers, ClaimFails(h) PROVE Final(q)
  <2>1. request[h] \in Requests
    BY <1>6 DEF StageInv, ClaimFails
  <2>2. CASE UNCHANGED rows
    BY <2>2
  <2>3. CASE Matching(h) = {} /\ InsertRow(h)
    BY <2>1, <2>3, InsertFacts DEF Matching
  <2> QED BY <1>6, <2>2, <2>3 DEF ClaimFails
<1>7. ASSUME NEW h \in Handlers, Claim(h) PROVE Final(q)
  <2>1. request[h] \in Requests
    BY <1>7 DEF StageInv, Claim
  <2>2. CASE UNCHANGED rows
    BY <2>2
  <2>3. CASE Matching(h) = {} /\ InsertRow(h)
    BY <2>1, <2>3, InsertFacts DEF Matching
  <2> QED BY <1>7, <2>2, <2>3 DEF Claim
<1>8. ASSUME NEW h \in Handlers, Look(h) PROVE Final(q)
  BY <1>8, SMTT(30) DEF Look
<1>9. ASSUME NEW h \in Handlers, Admit(h) PROVE Final(q)
  BY <1>9, SMTT(30) DEF Admit
<1>10. ASSUME NEW h \in Handlers, AdmitGone(h) PROVE Final(q)
  BY <1>10, SMTT(30) DEF AdmitGone, Ending
<1>11. ASSUME NEW h \in Handlers, Refuse(h) PROVE Final(q)
  BY <1>11, SMTT(30) DEF Refuse, Ending
<1>12. ASSUME NEW h \in Handlers, Discover(h) PROVE Final(q)
  BY <1>12, SMTT(30) DEF Discover
<1>13. ASSUME NEW h \in Handlers, PromoteLink(h) PROVE Final(q)
  BY <1>13, SMTT(30) DEF PromoteLink
<1>14. ASSUME NEW h \in Handlers, Promoted(h) PROVE Final(q)
  BY <1>14, SMTT(30) DEF Promoted, Ending
<1>15. ASSUME NEW h \in Handlers, PromoteThrows(h) PROVE Final(q)
  BY <1>15, SMTT(30) DEF PromoteThrows, Catch, CaughtOutcome, Ending
<1>16. ASSUME NEW h \in Handlers, Finish(h) PROVE Final(q)
  <2>1. request[h] \in Requests
    BY <1>16 DEF StageInv, Finish, Ends
  <2>2. CASE Complete(h)
    BY <2>1, <2>2, CompleteFacts
  <2>3. CASE UNCHANGED rows
    BY <2>3
  <2> QED BY <1>16, <2>2, <2>3 DEF Finish, Ends
<1>17. ASSUME NEW h \in Handlers, FinishCaught(h) PROVE Final(q)
  <2>1. request[h] \in Requests
    BY <1>17 DEF StageInv, FinishCaught
  <2>2. CASE Complete(h)
    BY <2>1, <2>2, CompleteFacts
  <2>3. CASE UNCHANGED rows
    BY <2>3
  <2> QED BY <1>17, <2>2, <2>3 DEF FinishCaught, CompleteThrows
<1>18. ASSUME NEW h \in Handlers, FinishFails(h) PROVE Final(q)
  <2>1. request[h] \in Requests
    BY <1>18 DEF StageInv, FinishFails
  <2>2. CASE Complete(h)
    BY <2>1, <2>2, CompleteFacts
  <2>3. CASE UNCHANGED rows
    BY <2>3
  <2> QED BY <1>18, <2>2, <2>3 DEF FinishFails, CompleteThrows
<1>19. ASSUME UNCHANGED vars PROVE Final(q)
  BY <1>19, SMTT(30) DEF vars
<1> QED
  BY <1>1, <1>2, <1>3, <1>4, <1>5, <1>6, <1>7, <1>8, <1>9, <1>10,
     <1>11, <1>12, <1>13, <1>14, <1>15, <1>16, <1>17, <1>18, <1>19 DEF Next, Work

LEMMA Inductive == IInv /\ [Next]_vars => IInv'
BY TypeStep, PruneStep, StageStep, ClaimStep, CountStep, UniqueStep, SpentStep, RivalStep,
   RunStep, FlightStep, AuditStep DEF IInv

-----------------------------------------------------------------------------
(* The theorems.                                                           *)

\* The invariant, whatever the requests, the retention and the faults are.
THEOREM Invariance == Spec => []IInv
<1>1. Init => IInv BY InitInv
<1>2. IInv /\ [Next]_vars => IInv' BY Inductive
<1> QED BY <1>1, <1>2, PTL DEF Spec

\* The server's state keeps its types.
THEOREM TypeCorrect == Spec => []TypeOK
<1>1. IInv => TypeOK BY DEF IInv
<1> QED BY <1>1, Invariance, PTL

\* A request that arrives again is not run again, although its row is forgotten
\* one day (promotionAudit.ts).
THEOREM PromotedOnceThm == Spec => []PromotedOnce
<1>1. IInv => PromotedOnce
  <2> SUFFICES ASSUME IInv PROVE PromotedOnce
    OBVIOUS
  <2>1. \A r \in Requests : runs[r] <= 1
    BY DEF IInv, RunInv
  <2>2. \A r \in Requests : runs[r] > 0 => Spent(r)
    BY DEF Spent
  <2> QED BY <2>1, <2>2 DEF IInv, RivalInv, Rivals, PromotedOnce
<1> QED BY <1>1, Invariance, PTL

\* One promotion at a time, what is said of it is true, and it is run once
\* (knowledgePromotionServer.ts).
THEOREM PromotedInTurnThm == Spec => []PromotedInTurn
<1>1. IInv => SingleFlight /\ AuditIsTrue BY DEF IInv
<1>2. PromotedOnce /\ SingleFlight /\ AuditIsTrue => PromotedInTurn BY DEF PromotedInTurn
<1> QED BY <1>1, <1>2, Invariance, PromotedOnceThm, PTL

\* An outcome is final: complete writes over "started" only (promotionAudit.ts).
THEOREM SettledForGoodThm == Spec => SettledForGood
<1>1. IInv /\ [Next]_vars => [Settles]_vars
  BY SettleStep
<1> QED BY <1>1, Invariance, PTL DEF Spec, SettledForGood, Settles
=============================================================================
