---------------------- MODULE PrivateComparisonProofs ----------------------
(***************************************************************************)
(* Proofs about PrivateComparison, for any updates, handlers, retries and  *)
(* number of faults.                                                       *)
(*                                                                         *)
(* As long as no attempt of a job died, outlived it or lost Telegram's     *)
(* reply, one handler at most works on its update, and whether the user    *)
(* has been told is what that handler's verdict says.                      *)
(***************************************************************************)
EXTENDS PrivateComparison, TLAPS

Busy(h) == pc[h] # "idle"

\* The queue has one handler for a job, besides those that have outlived it.
SoleInv ==
  /\ expired \subseteq disturbed
  /\ \A h \in Handlers : Busy(h) =>
       IF aborted[h] THEN on[h] \in expired ELSE job[on[h]] = "active"
  /\ \A g, h \in Handlers :
       Busy(g) /\ Busy(h) /\ ~aborted[g] /\ ~aborted[h] /\ on[g] = on[h] => g = h

\* A handler has come to another verdict only when it is about to mark.
VerdictInv ==
  \A h \in Handlers :
    /\ verdict[h] \in {Done, GivenUp, TryAgain}
    /\ pc[h] \notin {"idle", "mark", "end"} => verdict[h] = TryAgain

\* What the user of an undisturbed update has been told.
ToldAt(u) ==
  /\ \A h \in Handlers :
       on[h] = u /\ Busy(h) => Told(u) = IF verdict[h] = Done THEN 1 ELSE 0
  /\ Told(u) <= 1
  /\ job[u] # "completed" /\ (\A h \in Handlers : on[h] = u => ~Busy(h)) => Told(u) = 0

ToldInv == \A u \in Updates \ disturbed : ToldAt(u)

\* The grounds of a verdict.
EndInv ==
  \A h \in Handlers : pc[h] \in {"mark", "end"} =>
    /\ verdict[h] = Done => Told(on[h]) > 0
    /\ ~aborted[h] /\ verdict[h] = GivenUp => on[h] \in refused

\* The status is the verdict's, where it could be written.
StatusInv ==
  \A h \in Handlers :
    pc[h] = "end" /\ on[h] \notin disturbed \cup unmarked => status[on[h]] = verdict[h].mark

IInv ==
  /\ TypeOK
  /\ SoleInv /\ VerdictInv
  /\ ToldInv /\ EndInv /\ StatusInv
  /\ CompletedIsTold /\ StatusIsTrue

USE EnvelopeAssumption, QueueAssumption

-----------------------------------------------------------------------------
(* Facts about the operators.                                              *)

LEMMA VerdictFacts ==
  /\ Done \in Verdict /\ GivenUp \in Verdict /\ TryAgain \in Verdict
  /\ Done # GivenUp /\ Done # TryAgain /\ GivenUp # TryAgain
  /\ Done.mark = "processed" /\ GivenUp.mark = "failed" /\ TryAgain.mark = "failed"
  /\ Done.then = "return" /\ GivenUp.then = "return" /\ TryAgain.then = "throw"
BY SMT DEF Done, GivenUp, TryAgain, Verdict

\* A handler that runs belongs to an update.
LEMMA OnType == TypeOK => \A h \in Handlers : on[h] \in Updates
BY DEF TypeOK, QueueTypeOK

LEMMA ToldType == TypeOK => \A u \in Updates : Told(u) \in Nat
BY SMT DEF TypeOK, Told

LEMMA ArrivesFacts ==
  ASSUME TypeOK, NEW h \in Handlers, Arrives(h)
  PROVE  /\ answers' \in [Updates -> Nat] /\ apologies' \in [Updates -> Nat]
         /\ \A v \in Updates : v = on[h] => Told(v)' = Told(v) + 1
         /\ \A v \in Updates : v # on[h] =>
              /\ answers'[v] = answers[v] /\ apologies'[v] = apologies[v]
              /\ Told(v)' = Told(v)
<1>1. on[h] \in Updates /\ answers \in [Updates -> Nat] /\ apologies \in [Updates -> Nat]
  BY OnType DEF TypeOK
<1>2. CASE pc[h] = "deliver"
  <2>1. answers' = [answers EXCEPT ![on[h]] = @ + 1] /\ apologies' = apologies
    BY <1>2 DEF Arrives
  <2> QED BY <1>1, <2>1, SMT DEF Told
<1>3. CASE pc[h] # "deliver"
  <2>1. apologies' = [apologies EXCEPT ![on[h]] = @ + 1] /\ answers' = answers
    BY <1>3 DEF Arrives
  <2> QED BY <1>1, <2>1, SMT DEF Told
<1> QED BY <1>2, <1>3

LEMMA RequeueFacts ==
  ASSUME TypeOK, NEW u \in Updates, Requeue(u)
  PROVE  /\ job'[u] \in {"retry", "failed"}
         /\ \A v \in Updates : v # u => job'[v] = job[v]
         /\ job' \in [Updates -> {"created", "active", "retry", "completed", "failed", "dropped"}]
         /\ retries' \in [Updates -> 0..RetryLimit]
<1>1. CASE retries[u] < RetryLimit
  <2>1. retries[u] + 1 \in 0..RetryLimit
    BY <1>1, SMT DEF TypeOK, QueueTypeOK
  <2> QED BY <1>1, <2>1 DEF Requeue, TypeOK, QueueTypeOK
<1>2. CASE ~(retries[u] < RetryLimit)
  BY <1>2 DEF Requeue, TypeOK, QueueTypeOK
<1> QED BY <1>1, <1>2

LEMMA ThrowFacts ==
  ASSUME TypeOK, NEW h \in Handlers, Throw(h)
  PROVE  /\ aborted[h] => job' = job
         /\ ~aborted[h] => job'[on[h]] \in {"retry", "failed"}
         /\ \A v \in Updates : v # on[h] => job'[v] = job[v]
         /\ job' \in [Updates -> {"created", "active", "retry", "completed", "failed", "dropped"}]
         /\ retries' \in [Updates -> 0..RetryLimit]
         /\ pc' = [pc EXCEPT ![h] = "idle"] /\ UNCHANGED <<on, attempt, aborted, expired>>
<1>1. on[h] \in Updates
  BY OnType
<1>2. CASE aborted[h]
  BY <1>2 DEF Throw, Goto, handlerVars, TypeOK, QueueTypeOK
<1>3. CASE ~aborted[h]
  BY <1>1, <1>3, RequeueFacts DEF Throw, Goto, handlerVars
<1> QED BY <1>2, <1>3

LEMMA ReturnFacts ==
  ASSUME TypeOK, NEW h \in Handlers, Return(h)
  PROVE  /\ aborted[h] => job' = job
         /\ ~aborted[h] => job'[on[h]] = "completed"
         /\ \A v \in Updates : v # on[h] => job'[v] = job[v]
         /\ job' \in [Updates -> {"created", "active", "retry", "completed", "failed", "dropped"}]
         /\ pc' = [pc EXCEPT ![h] = "idle"]
         /\ UNCHANGED <<retries, on, attempt, aborted, faults, expired>>
BY OnType DEF Return, Goto, handlerVars, TypeOK, QueueTypeOK

-----------------------------------------------------------------------------
(* Steps.                                                                  *)

LEMMA InitInv == Init => IInv
<1> SUFFICES ASSUME Init PROVE IInv
  OBVIOUS
<1> USE DEF Init, QueueInit, HandlersInit
<1>1. QueueTypeOK
  BY SMT DEF QueueTypeOK
<1>2. TypeOK
  BY <1>1, VerdictFacts, SMT DEF TypeOK, Stages
<1>3. SoleInv /\ VerdictInv /\ EndInv /\ StatusInv
  BY DEF SoleInv, VerdictInv, EndInv, StatusInv, Busy
<1>4. ToldInv
  BY SMT DEF ToldInv, ToldAt, Busy, Told
<1>5. CompletedIsTold /\ StatusIsTrue
  BY DEF CompletedIsTold, StatusIsTrue
<1> QED BY <1>2, <1>3, <1>4, <1>5 DEF IInv

\* Types.
LEMMA TypeStep == IInv /\ [Next]_vars => TypeOK'
<1> SUFFICES ASSUME IInv, [Next]_vars PROVE TypeOK'
  OBVIOUS
<1> USE DEF IInv, TypeOK, QueueTypeOK, Stages, toldVars, handlerVars, Goto, JobUntouched,
     NoFault, Fault
<1>1. ASSUME NEW h \in Handlers, NEW u \in Updates, Fetch(h, u) PROVE TypeOK'
  <2>1. aborted' \in [Handlers -> BOOLEAN] /\ verdict' \in [Handlers -> Verdict]
    BY <1>1, VerdictFacts DEF Fetch, Take
  <2> QED BY <1>1, <2>1, SMTT(30) DEF Fetch, Take
<1>2. ASSUME NEW h \in Handlers, Outlive(h), disturbed' = disturbed \cup {on[h]},
           UNCHANGED <<status, toldVars, verdict, refused, unmarked>>
      PROVE  TypeOK'
  <2>1. on[h] \in Updates
    BY OnType
  <2>2. aborted' \in [Handlers -> BOOLEAN] /\ expired' \in SUBSET Updates
    BY <1>2, <2>1 DEF Outlive
  <2>3. faults' \in 0..MaxFaults
    BY <1>2, SMT DEF Outlive
  <2> QED BY <1>2, <2>1, <2>2, <2>3, RequeueFacts DEF Outlive
<1>3. ASSUME NEW h \in Handlers, Die(h), disturbed' = disturbed \cup {on[h]},
           UNCHANGED <<status, toldVars, verdict, refused, unmarked>>
      PROVE  TypeOK'
  <2>1. on[h] \in Updates
    BY OnType
  <2>2. disturbed' \in SUBSET Updates
    BY <1>3, <2>1
  <2> QED BY <1>3, <2>2, SMTT(30) DEF Die
<1>4. ASSUME NEW u \in Updates, Recover(u), UNCHANGED disturbed,
           UNCHANGED <<status, toldVars, verdict, refused, unmarked>>
      PROVE  TypeOK'
  <2> QED BY <1>4, RequeueFacts DEF Recover
<1>5. ASSUME NEW u \in Updates, Drop(u), UNCHANGED disturbed,
           UNCHANGED <<status, toldVars, verdict, refused, unmarked>>
      PROVE  TypeOK'
  BY <1>5, SMTT(30) DEF Drop
<1>6. ASSUME NEW h \in Handlers, Open(h) PROVE TypeOK'
  BY <1>6, SMTT(30) DEF Open
<1>7. ASSUME NEW h \in Handlers, OpenFails(h) PROVE TypeOK'
  <2>1. pc[h] = "open" /\ Throw(h)
    BY <1>7 DEF OpenFails
  <2> QED BY <1>7, <2>1, ThrowFacts DEF OpenFails
<1>8. ASSUME NEW h \in Handlers, Premark(h) PROVE TypeOK'
  BY <1>8, SMTT(30) DEF Premark
<1>9. ASSUME NEW h \in Handlers, Work(h) PROVE TypeOK'
  BY <1>9, SMTT(30) DEF Work
<1>10. ASSUME NEW h \in Handlers, WorkIsTerminal(h) PROVE TypeOK'
  BY <1>10, SMTT(30) DEF WorkIsTerminal
<1>11. ASSUME NEW h \in Handlers, WorkFails(h) PROVE TypeOK'
  <2>1. verdict' \in [Handlers -> Verdict]
    BY <1>11, VerdictFacts DEF WorkFails, Conclude
  <2> QED BY <1>11, <2>1, SMTT(30) DEF WorkFails, Conclude
<1>12. ASSUME NEW h \in Handlers, AbortSeen(h) PROVE TypeOK'
  <2>1. verdict' \in [Handlers -> Verdict]
    BY <1>12, VerdictFacts DEF AbortSeen, Conclude
  <2> QED BY <1>12, <2>1, SMTT(30) DEF AbortSeen, Conclude
<1>13. ASSUME NEW h \in Handlers, Tell(h) PROVE TypeOK'
  <2>1. verdict' \in [Handlers -> Verdict]
    BY <1>13, VerdictFacts DEF Tell, Conclude
  <2>2. answers' \in [Updates -> Nat] /\ apologies' \in [Updates -> Nat]
    BY <1>13, ArrivesFacts DEF Tell
  <2> QED BY <1>13, <2>1, <2>2, SMTT(30) DEF Tell, Conclude
<1>14. ASSUME NEW h \in Handlers, TellFails(h) PROVE TypeOK'
  <2>1. verdict' \in [Handlers -> Verdict] /\ on[h] \in Updates
    BY <1>14, VerdictFacts DEF TellFails, Conclude
  <2>2. answers' \in [Updates -> Nat] /\ apologies' \in [Updates -> Nat]
    BY <1>14, ArrivesFacts DEF TellFails
  <2>3. refused' \in SUBSET Updates /\ disturbed' \in SUBSET Updates
    BY <1>14, <2>1 DEF TellFails
  <2>4. faults' \in 0..MaxFaults
    BY <1>14, SMT DEF TellFails
  <2>5. pc' \in [Handlers -> Stages]
    BY <1>14 DEF TellFails, Conclude
  <2> QED BY <1>14, <2>1, <2>2, <2>3, <2>4, <2>5 DEF TellFails
<1>15. ASSUME NEW h \in Handlers, TellUnsure(h) PROVE TypeOK'
  <2>2. answers' \in [Updates -> Nat] /\ apologies' \in [Updates -> Nat]
    BY <1>15, ArrivesFacts DEF TellUnsure
  <2>3. disturbed' \in SUBSET Updates
    BY <1>15 DEF TellUnsure
  <2>4. faults' \in 0..MaxFaults
    BY <1>15, SMT DEF TellUnsure
  <2> QED BY <1>15, <2>2, <2>3, <2>4 DEF TellUnsure
<1>16. ASSUME NEW h \in Handlers, Mark(h) PROVE TypeOK'
  <2>1. verdict[h].mark \in {"received", "processed", "failed"}
    BY DEF Verdict
  <2> QED BY <1>16, <2>1 DEF Mark
<1>17. ASSUME NEW h \in Handlers, MarkFails(h) PROVE TypeOK'
  BY <1>17, SMTT(30) DEF MarkFails
<1>18. ASSUME NEW h \in Handlers, End(h), verdict[h].then = "return" PROVE TypeOK'
  <2>1. pc[h] = "end" /\ Return(h)
    BY <1>18 DEF End
  <2> QED BY <1>18, <2>1, ReturnFacts DEF End
<1>19. ASSUME NEW h \in Handlers, End(h), verdict[h].then # "return" PROVE TypeOK'
  <2>1. pc[h] = "end" /\ Throw(h)
    BY <1>19 DEF End
  <2>2. UNCHANGED faults
    BY <1>19 DEF End
  <2> QED BY <1>19, <2>1, <2>2, ThrowFacts DEF End
<1>20. ASSUME UNCHANGED vars PROVE TypeOK'
  BY <1>20, SMTT(30) DEF vars, queueVars
<1> QED
  BY <1>1, <1>2, <1>3, <1>4, <1>5, <1>6, <1>7, <1>8, <1>9, <1>10, <1>11, <1>12, <1>13,
       <1>14, <1>15, <1>16, <1>17, <1>18, <1>19, <1>20 DEF Next, Step, FaultStep,
       QueueStep, Quiescent

\* An attempt that ends leaves no other with its job.
LEMMA EndSole ==
  ASSUME IInv, NEW h \in Handlers, Busy(h), pc' = [pc EXCEPT ![h] = "idle"],
         UNCHANGED <<on, aborted, expired, disturbed>>,
         aborted[h] => job' = job, \A v \in Updates : v # on[h] => job'[v] = job[v]
  PROVE  SoleInv'
<1>1. SoleInv /\ pc \in [Handlers -> Stages] /\ \A g \in Handlers : on[g] \in Updates
  BY DEF IInv, TypeOK, QueueTypeOK
<1>2. \A g \in Handlers : Busy(g)' => g # h /\ Busy(g)
  BY <1>1 DEF Busy
<1>3. ASSUME NEW g \in Handlers, Busy(g)'
      PROVE  IF aborted'[g] THEN on'[g] \in expired' ELSE job'[on'[g]] = "active"
  <2>1. g # h /\ Busy(g)
    BY <1>2, <1>3
  <2>2. CASE aborted[g]
    BY <1>1, <2>1, <2>2 DEF SoleInv
  <2>3. CASE ~aborted[g]
    <3>1. job[on[g]] = "active" /\ (aborted[h] \/ on[g] # on[h])
      BY <1>1, <2>1, <2>3 DEF SoleInv
    <3> QED BY <1>1, <2>3, <3>1
  <2> QED BY <2>2, <2>3
<1>4. expired' \subseteq disturbed'
  BY <1>1 DEF SoleInv
<1>5. \A f, g \in Handlers :
        Busy(f)' /\ Busy(g)' /\ ~aborted'[f] /\ ~aborted'[g] /\ on'[f] = on'[g] => f = g
  BY <1>1, <1>2 DEF SoleInv
<1> QED BY <1>3, <1>4, <1>5 DEF SoleInv

\* The queue gives a job to a handler only when nobody it counts on has it.
LEMMA SoleStep == IInv /\ [Next]_vars => SoleInv'
<1> SUFFICES ASSUME IInv, [Next]_vars PROVE SoleInv'
  OBVIOUS
<1> USE DEF IInv, SoleInv, Busy, TypeOK, QueueTypeOK, Stages, toldVars, handlerVars, Goto,
     JobUntouched, NoFault, Fault
<1>1. ASSUME NEW h \in Handlers, NEW u \in Updates, Fetch(h, u) PROVE SoleInv'
  BY <1>1, SMTT(30) DEF Fetch, Take, Waiting
<1>2. ASSUME NEW h \in Handlers, Outlive(h), disturbed' = disturbed \cup {on[h]},
           UNCHANGED <<status, toldVars, verdict, refused, unmarked>>
      PROVE  SoleInv'
  <2>1. on[h] \in Updates
    BY OnType
  <2> QED BY <1>2, <2>1, RequeueFacts, SMTT(30) DEF Outlive
<1>3. ASSUME NEW h \in Handlers, Die(h), disturbed' = disturbed \cup {on[h]},
           UNCHANGED <<status, toldVars, verdict, refused, unmarked>>
      PROVE  SoleInv'
  BY <1>3, SMTT(30) DEF Die
<1>4. ASSUME NEW u \in Updates, Recover(u), UNCHANGED disturbed,
           UNCHANGED <<status, toldVars, verdict, refused, unmarked>>
      PROVE  SoleInv'
  <2> QED BY <1>4, RequeueFacts, SMTT(30) DEF Recover, Abandoned
<1>5. ASSUME NEW u \in Updates, Drop(u), UNCHANGED disturbed,
           UNCHANGED <<status, toldVars, verdict, refused, unmarked>>
      PROVE  SoleInv'
  BY <1>5, SMTT(30) DEF Drop, Waiting
<1>6. ASSUME NEW h \in Handlers, Open(h) PROVE SoleInv'
  BY <1>6, SMTT(30) DEF Open
<1>7. ASSUME NEW h \in Handlers, OpenFails(h) PROVE SoleInv'
  <2>1. pc[h] = "open" /\ Throw(h)
    BY <1>7 DEF OpenFails
  <2>2. UNCHANGED disturbed
    BY <1>7 DEF OpenFails
  <2> QED BY <2>1, <2>2, ThrowFacts, EndSole DEF Busy
<1>8. ASSUME NEW h \in Handlers, Premark(h) PROVE SoleInv'
  BY <1>8, SMTT(30) DEF Premark
<1>9. ASSUME NEW h \in Handlers, Work(h) PROVE SoleInv'
  BY <1>9, SMTT(30) DEF Work
<1>10. ASSUME NEW h \in Handlers, WorkIsTerminal(h) PROVE SoleInv'
  BY <1>10, SMTT(30) DEF WorkIsTerminal
<1>11. ASSUME NEW h \in Handlers, WorkFails(h) PROVE SoleInv'
  BY <1>11, SMTT(30) DEF WorkFails, Conclude
<1>12. ASSUME NEW h \in Handlers, AbortSeen(h) PROVE SoleInv'
  BY <1>12, SMTT(30) DEF AbortSeen, Conclude
<1>13. ASSUME NEW h \in Handlers, Tell(h) PROVE SoleInv'
  BY <1>13, SMTT(30) DEF Tell, Conclude
<1>14. ASSUME NEW h \in Handlers, TellFails(h) PROVE SoleInv'
  BY <1>14, SMTT(30) DEF TellFails, Conclude
<1>15. ASSUME NEW h \in Handlers, TellUnsure(h) PROVE SoleInv'
  BY <1>15, SMTT(30) DEF TellUnsure
<1>16. ASSUME NEW h \in Handlers, Mark(h) PROVE SoleInv'
  BY <1>16, SMTT(30) DEF Mark
<1>17. ASSUME NEW h \in Handlers, MarkFails(h) PROVE SoleInv'
  BY <1>17, SMTT(30) DEF MarkFails
<1>18. ASSUME NEW h \in Handlers, End(h), verdict[h].then = "return" PROVE SoleInv'
  <2>1. pc[h] = "end" /\ Return(h)
    BY <1>18 DEF End
  <2>2. UNCHANGED disturbed
    BY <1>18 DEF End
  <2> QED BY <2>1, <2>2, ReturnFacts, EndSole DEF Busy
<1>19. ASSUME NEW h \in Handlers, End(h), verdict[h].then # "return" PROVE SoleInv'
  <2>1. pc[h] = "end" /\ Throw(h)
    BY <1>19 DEF End
  <2>2. UNCHANGED disturbed
    BY <1>19 DEF End
  <2> QED BY <2>1, <2>2, ThrowFacts, EndSole DEF Busy
<1>20. ASSUME UNCHANGED vars PROVE SoleInv'
  BY <1>20, SMTT(30) DEF vars, queueVars
<1> QED
  BY <1>1, <1>2, <1>3, <1>4, <1>5, <1>6, <1>7, <1>8, <1>9, <1>10, <1>11, <1>12, <1>13,
       <1>14, <1>15, <1>16, <1>17, <1>18, <1>19, <1>20 DEF Next, Step, FaultStep,
       QueueStep, Quiescent

\* Verdicts.
LEMMA VerdictStep == IInv /\ [Next]_vars => VerdictInv'
<1> SUFFICES ASSUME IInv, [Next]_vars PROVE VerdictInv'
  OBVIOUS
<1> USE DEF IInv, VerdictInv, TypeOK, QueueTypeOK, Stages, toldVars, handlerVars, Goto,
     JobUntouched, NoFault, Fault
<1>1. ASSUME NEW h \in Handlers, NEW u \in Updates, Fetch(h, u) PROVE VerdictInv'
  BY <1>1, SMTT(30) DEF Fetch, Take
<1>2. ASSUME NEW h \in Handlers, Outlive(h), disturbed' = disturbed \cup {on[h]},
           UNCHANGED <<status, toldVars, verdict, refused, unmarked>>
      PROVE  VerdictInv'
  BY <1>2, SMTT(30) DEF Outlive
<1>3. ASSUME NEW h \in Handlers, Die(h), disturbed' = disturbed \cup {on[h]},
           UNCHANGED <<status, toldVars, verdict, refused, unmarked>>
      PROVE  VerdictInv'
  BY <1>3, SMTT(30) DEF Die
<1>4. ASSUME NEW u \in Updates, Recover(u), UNCHANGED disturbed,
           UNCHANGED <<status, toldVars, verdict, refused, unmarked>>
      PROVE  VerdictInv'
  BY <1>4, SMTT(30) DEF Recover
<1>5. ASSUME NEW u \in Updates, Drop(u), UNCHANGED disturbed,
           UNCHANGED <<status, toldVars, verdict, refused, unmarked>>
      PROVE  VerdictInv'
  BY <1>5, SMTT(30) DEF Drop
<1>6. ASSUME NEW h \in Handlers, Open(h) PROVE VerdictInv'
  BY <1>6, SMTT(30) DEF Open
<1>7. ASSUME NEW h \in Handlers, OpenFails(h) PROVE VerdictInv'
  <2>1. pc[h] = "open" /\ Throw(h)
    BY <1>7 DEF OpenFails
  <2> QED BY <1>7, <2>1, ThrowFacts DEF OpenFails
<1>8. ASSUME NEW h \in Handlers, Premark(h) PROVE VerdictInv'
  BY <1>8, SMTT(30) DEF Premark
<1>9. ASSUME NEW h \in Handlers, Work(h) PROVE VerdictInv'
  BY <1>9, SMTT(30) DEF Work
<1>10. ASSUME NEW h \in Handlers, WorkIsTerminal(h) PROVE VerdictInv'
  BY <1>10, SMTT(30) DEF WorkIsTerminal
<1>11. ASSUME NEW h \in Handlers, WorkFails(h) PROVE VerdictInv'
  BY <1>11, SMTT(30) DEF WorkFails, Conclude
<1>12. ASSUME NEW h \in Handlers, AbortSeen(h) PROVE VerdictInv'
  BY <1>12, SMTT(30) DEF AbortSeen, Conclude
<1>13. ASSUME NEW h \in Handlers, Tell(h) PROVE VerdictInv'
  BY <1>13, SMTT(30) DEF Tell, Conclude
<1>14. ASSUME NEW h \in Handlers, TellFails(h) PROVE VerdictInv'
  BY <1>14, SMTT(30) DEF TellFails, Conclude
<1>15. ASSUME NEW h \in Handlers, TellUnsure(h) PROVE VerdictInv'
  BY <1>15, SMTT(30) DEF TellUnsure
<1>16. ASSUME NEW h \in Handlers, Mark(h) PROVE VerdictInv'
  BY <1>16, SMTT(30) DEF Mark
<1>17. ASSUME NEW h \in Handlers, MarkFails(h) PROVE VerdictInv'
  BY <1>17, SMTT(30) DEF MarkFails
<1>18. ASSUME NEW h \in Handlers, End(h), verdict[h].then = "return" PROVE VerdictInv'
  <2>1. pc[h] = "end" /\ Return(h)
    BY <1>18 DEF End
  <2> QED BY <1>18, <2>1, ReturnFacts DEF End
<1>19. ASSUME NEW h \in Handlers, End(h), verdict[h].then # "return" PROVE VerdictInv'
  <2>1. pc[h] = "end" /\ Throw(h)
    BY <1>19 DEF End
  <2> QED BY <1>19, <2>1, ThrowFacts DEF End
<1>20. ASSUME UNCHANGED vars PROVE VerdictInv'
  BY <1>20, SMTT(30) DEF vars, queueVars
<1> QED
  BY <1>1, <1>2, <1>3, <1>4, <1>5, <1>6, <1>7, <1>8, <1>9, <1>10, <1>11, <1>12, <1>13,
       <1>14, <1>15, <1>16, <1>17, <1>18, <1>19, <1>20 DEF Next, Step, FaultStep,
       QueueStep, Quiescent

\* An undisturbed update has one handler at most, which nobody has given up.
LEMMA SoleAt ==
  ASSUME IInv, NEW u \in Updates, u \notin disturbed
  PROVE  /\ u \notin expired
         /\ \A h \in Handlers : Busy(h) /\ on[h] = u => ~aborted[h] /\ job[u] = "active"
         /\ \A g, h \in Handlers : Busy(g) /\ Busy(h) /\ on[g] = u /\ on[h] = u => g = h
BY DEF IInv, SoleInv

\* Users are told by handlers in their last two stages.
ToldMoves ==
  \/ UNCHANGED toldVars
  \/ \E k \in Handlers : pc[k] \in {"deliver", "apologise"} /\ Arrives(k)

\* Histories grow.
Grows == disturbed \subseteq disturbed' /\ refused \subseteq refused' /\ unmarked \subseteq unmarked'

\* Which steps tell.
LEMMA MovesStep == IInv /\ [Next]_vars => ToldMoves /\ Grows
<1> SUFFICES ASSUME IInv, [Next]_vars PROVE ToldMoves /\ Grows
  OBVIOUS
<1> USE DEF ToldMoves, Grows, toldVars, handlerVars, JobUntouched
<1>1. ASSUME NEW h \in Handlers, NEW u \in Updates, Fetch(h, u) PROVE ToldMoves /\ Grows
  BY <1>1, SMTT(30) DEF Fetch, Take
<1>2. ASSUME NEW h \in Handlers, Outlive(h), disturbed' = disturbed \cup {on[h]},
           UNCHANGED <<status, toldVars, verdict, refused, unmarked>>
      PROVE  ToldMoves /\ Grows
  BY <1>2, SMTT(30) DEF Outlive
<1>3. ASSUME NEW h \in Handlers, Die(h), disturbed' = disturbed \cup {on[h]},
           UNCHANGED <<status, toldVars, verdict, refused, unmarked>>
      PROVE  ToldMoves /\ Grows
  BY <1>3, SMTT(30) DEF Die
<1>4. ASSUME NEW u \in Updates, Recover(u), UNCHANGED disturbed,
           UNCHANGED <<status, toldVars, verdict, refused, unmarked>>
      PROVE  ToldMoves /\ Grows
  BY <1>4, SMTT(30) DEF Recover
<1>5. ASSUME NEW u \in Updates, Drop(u), UNCHANGED disturbed,
           UNCHANGED <<status, toldVars, verdict, refused, unmarked>>
      PROVE  ToldMoves /\ Grows
  BY <1>5, SMTT(30) DEF Drop
<1>6. ASSUME NEW h \in Handlers, Open(h) PROVE ToldMoves /\ Grows
  BY <1>6, SMTT(30) DEF Open
<1>7. ASSUME NEW h \in Handlers, OpenFails(h) PROVE ToldMoves /\ Grows
  BY <1>7 DEF OpenFails
<1>8. ASSUME NEW h \in Handlers, Premark(h) PROVE ToldMoves /\ Grows
  BY <1>8, SMTT(30) DEF Premark
<1>9. ASSUME NEW h \in Handlers, Work(h) PROVE ToldMoves /\ Grows
  BY <1>9, SMTT(30) DEF Work
<1>10. ASSUME NEW h \in Handlers, WorkIsTerminal(h) PROVE ToldMoves /\ Grows
  BY <1>10, SMTT(30) DEF WorkIsTerminal
<1>11. ASSUME NEW h \in Handlers, WorkFails(h) PROVE ToldMoves /\ Grows
  BY <1>11, SMTT(30) DEF WorkFails, Conclude
<1>12. ASSUME NEW h \in Handlers, AbortSeen(h) PROVE ToldMoves /\ Grows
  BY <1>12, SMTT(30) DEF AbortSeen, Conclude
<1>13. ASSUME NEW h \in Handlers, Tell(h) PROVE ToldMoves /\ Grows
  BY <1>13, Zenon DEF Tell
<1>14. ASSUME NEW h \in Handlers, TellFails(h) PROVE ToldMoves /\ Grows
  BY <1>14, Zenon DEF TellFails
<1>15. ASSUME NEW h \in Handlers, TellUnsure(h) PROVE ToldMoves /\ Grows
  BY <1>15, Zenon DEF TellUnsure
<1>16. ASSUME NEW h \in Handlers, Mark(h) PROVE ToldMoves /\ Grows
  BY <1>16, SMTT(30) DEF Mark
<1>17. ASSUME NEW h \in Handlers, MarkFails(h) PROVE ToldMoves /\ Grows
  BY <1>17, SMTT(30) DEF MarkFails
<1>18. ASSUME NEW h \in Handlers, End(h), verdict[h].then = "return" PROVE ToldMoves /\ Grows
  BY <1>18 DEF End
<1>19. ASSUME NEW h \in Handlers, End(h), verdict[h].then # "return" PROVE ToldMoves /\ Grows
  BY <1>19 DEF End
<1>20. ASSUME UNCHANGED vars PROVE ToldMoves /\ Grows
  BY <1>20 DEF vars
<1> QED
  BY <1>1, <1>2, <1>3, <1>4, <1>5, <1>6, <1>7, <1>8, <1>9, <1>10, <1>11, <1>12, <1>13,
       <1>14, <1>15, <1>16, <1>17, <1>18, <1>19, <1>20 DEF Next, Step, FaultStep,
       QueueStep, Quiescent

LEMMA ToldGrows ==
  IInv /\ [Next]_vars => \A u \in Updates : Told(u) > 0 => Told(u)' > 0
<1> SUFFICES ASSUME IInv, [Next]_vars, NEW u \in Updates, Told(u) > 0 PROVE Told(u)' > 0
  OBVIOUS
<1>1. CASE UNCHANGED toldVars
  BY <1>1 DEF toldVars, Told
<1>2. ASSUME NEW k \in Handlers, Arrives(k) PROVE Told(u)' > 0
  <2>1. Told(u) \in Nat
    BY ToldType DEF IInv
  <2>2. Told(u)' = Told(u) \/ Told(u)' = Told(u) + 1
    BY <1>2, ArrivesFacts DEF IInv
  <2> QED BY <2>1, <2>2, SMT
<1> QED BY <1>1, <1>2, MovesStep DEF ToldMoves

\* An attempt that ends leaves its update told as its verdict says.
LEMMA EndTold ==
  ASSUME IInv, NEW h \in Handlers, Busy(h), pc' = [pc EXCEPT ![h] = "idle"],
         UNCHANGED <<on, aborted, verdict, toldVars>>,
         ~aborted[h] /\ verdict[h] = Done => job'[on[h]] = "completed",
         \A w \in Updates : w # on[h] => job'[w] = job[w],
         NEW v \in Updates, v \notin disturbed
  PROVE  ToldAt(v)'
<1>1. ToldAt(v) /\ pc \in [Handlers -> Stages]
  BY DEF IInv, ToldInv, TypeOK
<1>2. \A g \in Handlers : Busy(g)' <=> g # h /\ Busy(g)
  BY <1>1 DEF Busy
<1>3. Told(v)' = Told(v)
  BY DEF Told, toldVars
<1>4. \A g \in Handlers :
        on'[g] = v /\ Busy(g)' => Told(v)' = IF verdict'[g] = Done THEN 1 ELSE 0
  BY <1>1, <1>2, <1>3 DEF ToldAt
<1>5. ASSUME job'[v] # "completed", \A g \in Handlers : on'[g] = v => ~Busy(g)'
      PROVE  Told(v)' = 0
  <2>1. CASE on[h] = v
    <3>1. ~aborted[h] /\ verdict[h] # Done
      BY <1>5, <2>1, SoleAt
    <3> QED BY <1>1, <1>3, <2>1, <3>1 DEF ToldAt
  <2>2. CASE on[h] # v
    <3>1. job[v] # "completed" /\ \A g \in Handlers : on[g] = v => ~Busy(g)
      BY <1>2, <1>5, <2>2
    <3> QED BY <1>1, <1>3, <3>1 DEF ToldAt
  <2> QED BY <2>1, <2>2
<1>6. Told(v)' <= 1
  BY <1>1, <1>3 DEF ToldAt
<1> QED BY <1>4, <1>5, <1>6 DEF ToldAt

\* A handler goes on, and tells nobody.
LEMMA WorkTold ==
  ASSUME IInv, NEW h \in Handlers, Busy(h), NEW stage, stage # "idle",
         pc' = [pc EXCEPT ![h] = stage], UNCHANGED <<on, job, toldVars>>,
         \/ verdict' = verdict
         \/ /\ \E w \in {GivenUp, TryAgain} : verdict' = [verdict EXCEPT ![h] = w]
            /\ verdict[h] = TryAgain,
         NEW v \in Updates, v \notin disturbed
  PROVE  ToldAt(v)'
<1>1. ToldAt(v) /\ pc \in [Handlers -> Stages] /\ verdict \in [Handlers -> Verdict]
  BY DEF IInv, ToldInv, TypeOK
<1>2. \A g \in Handlers : Busy(g)' <=> Busy(g)
  BY <1>1 DEF Busy
<1>3. Told(v)' = Told(v)
  BY DEF Told, toldVars
<1>4. \A g \in Handlers : verdict'[g] = Done <=> verdict[g] = Done
  BY <1>1, VerdictFacts
<1> QED BY <1>1, <1>2, <1>3, <1>4 DEF ToldAt

\* A user is told once: the handler that tells is the only one, and its job ends with it.
LEMMA ToldStep == IInv /\ [Next]_vars => ToldInv'
<1> SUFFICES ASSUME IInv, [Next]_vars, NEW v \in Updates, v \notin disturbed' PROVE ToldAt(v)'
  BY DEF ToldInv
<1>0. /\ v \notin disturbed /\ ToldAt(v) /\ Told(v) \in Nat
      /\ \A g \in Handlers : on[g] \in Updates
      /\ pc \in [Handlers -> Stages] /\ on \in [Handlers -> Updates]
      /\ aborted \in [Handlers -> BOOLEAN] /\ verdict \in [Handlers -> Verdict]
      /\ job \in [Updates -> {"created", "active", "retry", "completed", "failed", "dropped"}]
      /\ UNCHANGED toldVars => Told(v)' = Told(v)
      /\ \A g \in Handlers : Busy(g) /\ on[g] = v => ~aborted[g] /\ job[v] = "active"
  BY MovesStep, SoleAt, ToldType DEF IInv, ToldInv, Grows, TypeOK, QueueTypeOK,
       toldVars, Told
<1> USE <1>0
<1> USE DEF handlerVars
<1>1. ASSUME NEW h \in Handlers, NEW u \in Updates, Fetch(h, u) PROVE ToldAt(v)'
  <2>1. Told(v)' = Told(v)
    BY <1>1 DEF Fetch
  <2>2. verdict' = [verdict EXCEPT ![h] = TryAgain] /\ on' = [on EXCEPT ![h] = u]
        /\ pc' = [pc EXCEPT ![h] = "open"] /\ job' = [job EXCEPT ![u] = "active"]
        /\ ~Busy(h) /\ job[u] \notin {"active", "completed"}
    BY <1>1 DEF Fetch, Take, Goto, Busy, Waiting
  <2>3. CASE u = v
    <3>1. Told(v) = 0
      BY <2>2, <2>3 DEF ToldAt
    <3>2. \A g \in Handlers : Busy(g)' /\ on'[g] = v => g = h
      BY <2>2, <2>3 DEF Busy
    <3> QED BY <2>1, <2>2, <2>3, <3>1, <3>2, VerdictFacts DEF ToldAt, Busy
  <2>4. CASE u # v
    <3>1. \A g \in Handlers : on'[g] = v /\ Busy(g)' <=> on[g] = v /\ Busy(g) /\ g # h
      BY <2>2, <2>4 DEF Busy
    <3>2. \A g \in Handlers : on[g] = v /\ Busy(g) => verdict'[g] = verdict[g] /\ g # h
      BY <2>2
    <3> QED BY <2>1, <2>2, <2>4, <3>1, <3>2 DEF ToldAt
  <2> QED BY <2>3, <2>4
<1>2. ASSUME NEW h \in Handlers, Outlive(h), disturbed' = disturbed \cup {on[h]},
           UNCHANGED <<status, toldVars, verdict, refused, unmarked>>
      PROVE  ToldAt(v)'
  <2>1. on[h] # v /\ UNCHANGED <<pc, on, verdict>> /\ Told(v)' = Told(v)
    BY <1>2 DEF Outlive
  <2>2. job'[v] = job[v]
    BY <1>2, <2>1, RequeueFacts DEF Outlive, IInv
  <2> QED BY <2>1, <2>2 DEF ToldAt, Busy
<1>3. ASSUME NEW h \in Handlers, Die(h), disturbed' = disturbed \cup {on[h]},
           UNCHANGED <<status, toldVars, verdict, refused, unmarked>>
      PROVE  ToldAt(v)'
  <2>1. on[h] # v /\ UNCHANGED <<on, verdict, job>> /\ Told(v)' = Told(v)
        /\ pc' = [pc EXCEPT ![h] = "idle"]
    BY <1>3 DEF Die, Goto, JobUntouched
  <2>2. \A g \in Handlers : on[g] = v => (Busy(g)' <=> Busy(g))
    BY <2>1 DEF Busy
  <2> QED BY <2>1, <2>2 DEF ToldAt
<1>4. ASSUME NEW u \in Updates, Recover(u), UNCHANGED disturbed,
           UNCHANGED <<status, toldVars, verdict, refused, unmarked>>
      PROVE  ToldAt(v)'
  <2>1. UNCHANGED <<pc, on, verdict>> /\ Told(v)' = Told(v)
    BY <1>4 DEF Recover
  <2>2. v # u => job'[v] = job[v]
    BY <1>4, RequeueFacts DEF Recover, IInv
  <2>3. v = u => job[v] # "completed"
    BY <1>4 DEF Recover
  <2> QED BY <2>1, <2>2, <2>3 DEF ToldAt, Busy
<1>5. ASSUME NEW u \in Updates, Drop(u), UNCHANGED disturbed,
           UNCHANGED <<status, toldVars, verdict, refused, unmarked>>
      PROVE  ToldAt(v)'
  <2>1. UNCHANGED <<pc, on, verdict>> /\ Told(v)' = Told(v)
    BY <1>5 DEF Drop
  <2>2. v # u => job'[v] = job[v]
    BY <1>5 DEF Drop
  <2>3. v = u => job[v] # "completed"
    BY <1>5 DEF Drop, Waiting
  <2> QED BY <2>1, <2>2, <2>3 DEF ToldAt, Busy
<1>6. ASSUME NEW h \in Handlers, Open(h) PROVE ToldAt(v)'
  <2>1. Busy(h) /\ pc' = [pc EXCEPT ![h] = "premark"] /\ UNCHANGED <<on, job, toldVars>>
    BY <1>6 DEF Open, Busy, JobUntouched, Goto
  <2>2. verdict' = verdict
    BY <1>6 DEF Open
  <2> QED BY <2>1, <2>2, WorkTold
<1>7. ASSUME NEW h \in Handlers, OpenFails(h) PROVE ToldAt(v)'
  <2>1. pc[h] = "open" /\ Throw(h)
    BY <1>7 DEF OpenFails
  <2>2. UNCHANGED <<verdict, toldVars>> /\ verdict[h] # Done /\ Busy(h)
    BY <1>7, VerdictFacts DEF OpenFails, IInv, VerdictInv, Busy
  <2>3. UNCHANGED <<on, aborted>> /\ pc' = [pc EXCEPT ![h] = "idle"]
        /\ \A w \in Updates : w # on[h] => job'[w] = job[w]
    BY <2>1, ThrowFacts DEF IInv
  <2> QED BY <2>2, <2>3, EndTold
<1>8. ASSUME NEW h \in Handlers, Premark(h) PROVE ToldAt(v)'
  <2>1. Busy(h) /\ pc' = [pc EXCEPT ![h] = "download"] /\ UNCHANGED <<on, job, toldVars>>
    BY <1>8 DEF Premark, Busy, JobUntouched, Goto
  <2>2. verdict' = verdict
    BY <1>8 DEF Premark
  <2> QED BY <2>1, <2>2, WorkTold
<1>9. ASSUME NEW h \in Handlers, Work(h) PROVE ToldAt(v)'
  <2>1. Busy(h) /\ pc' = [pc EXCEPT ![h] = IF pc[h] = "download" THEN "compare" ELSE "deliver"] /\ UNCHANGED <<on, job, toldVars>>
    BY <1>9 DEF Work, Busy, JobUntouched, Goto
  <2>2. verdict' = verdict
    BY <1>9 DEF Work
  <2> QED BY <2>1, <2>2, WorkTold
<1>10. ASSUME NEW h \in Handlers, WorkIsTerminal(h) PROVE ToldAt(v)'
  <2>1. Busy(h) /\ pc' = [pc EXCEPT ![h] = "apologise"] /\ UNCHANGED <<on, job, toldVars>>
    BY <1>10 DEF WorkIsTerminal, Busy, JobUntouched, Goto
  <2>2. verdict' = verdict
    BY <1>10 DEF WorkIsTerminal
  <2> QED BY <2>1, <2>2, WorkTold
<1>11. ASSUME NEW h \in Handlers, WorkFails(h) PROVE ToldAt(v)'
  <2>1. /\ Busy(h) /\ UNCHANGED <<on, job, toldVars>>
        /\ pc' = [pc EXCEPT ![h] = "mark"]
    BY <1>11 DEF WorkFails, Busy, JobUntouched, Goto, Conclude
  <2>2. verdict[h] = TryAgain
    BY <1>11 DEF WorkFails, IInv, VerdictInv
  <2>3. \E w \in {GivenUp, TryAgain} : verdict' = [verdict EXCEPT ![h] = w]
    BY <1>11 DEF WorkFails, Conclude
  <2> QED BY <2>1, <2>2, <2>3, WorkTold
<1>12. ASSUME NEW h \in Handlers, AbortSeen(h) PROVE ToldAt(v)'
  <2>1. /\ Busy(h) /\ UNCHANGED <<on, job, toldVars>>
        /\ pc' = [pc EXCEPT ![h] = "mark"] \/ pc' = [pc EXCEPT ![h] = "end"]
    BY <1>12 DEF AbortSeen, Busy, JobUntouched, Goto, Conclude
  <2>2. verdict[h] = TryAgain
    BY <1>12 DEF AbortSeen, IInv, VerdictInv
  <2>3. \E w \in {GivenUp, TryAgain} : verdict' = [verdict EXCEPT ![h] = w]
    BY <1>12 DEF AbortSeen, Conclude
  <2> QED BY <2>1, <2>2, <2>3, WorkTold
<1>13. ASSUME NEW h \in Handlers, Tell(h) PROVE ToldAt(v)'
  <2>1. pc' = [pc EXCEPT ![h] = "mark"] /\ Busy(h) /\ UNCHANGED <<on, job>>
    BY <1>13 DEF Tell, Busy, JobUntouched, Goto, Conclude
  <2>2. verdict[h] = TryAgain /\ verdict' = [verdict EXCEPT ![h] = Done] /\ Arrives(h)
    BY <1>13 DEF Tell, Conclude, IInv, VerdictInv
  <2>3. \A g \in Handlers : Busy(g)' <=> Busy(g)
    BY <2>1 DEF Busy
  <2>4. CASE on[h] = v
    <3>1. Told(v) = 0 /\ Told(v)' = 1
      BY <2>1, <2>2, <2>4, ArrivesFacts, VerdictFacts DEF ToldAt, IInv
    <3>2. \A g \in Handlers : Busy(g) /\ on[g] = v => g = h
      BY <2>1, <2>4, SoleAt
    <3> QED BY <2>1, <2>2, <2>3, <2>4, <3>1, <3>2 DEF ToldAt
  <2>5. CASE on[h] # v
    <3>1. Told(v)' = Told(v)
      BY <2>2, <2>5, ArrivesFacts DEF IInv
    <3> QED BY <2>1, <2>2, <2>3, <2>5, <3>1 DEF ToldAt
  <2> QED BY <2>4, <2>5
<1>14. ASSUME NEW h \in Handlers, TellFails(h) PROVE ToldAt(v)'
  <2>1. pc' = [pc EXCEPT ![h] = "mark"] /\ Busy(h) /\ UNCHANGED <<on, job>>
    BY <1>14 DEF TellFails, Busy, JobUntouched, Goto, Conclude
  <2>2. verdict[h] = TryAgain
    BY <1>14 DEF TellFails, IInv, VerdictInv
  <2>3. \E w \in {GivenUp, TryAgain} : verdict' = [verdict EXCEPT ![h] = w]
    BY <1>14 DEF TellFails, Conclude
  <2>4. CASE UNCHANGED toldVars
    BY <2>1, <2>2, <2>3, <2>4, WorkTold
  <2>5. CASE Arrives(h) /\ disturbed' = disturbed \cup {on[h]}
    <3>1. on[h] # v /\ Told(v)' = Told(v)
      BY <2>5, ArrivesFacts DEF IInv
    <3>2. \A g \in Handlers : on[g] = v => (Busy(g)' <=> Busy(g)) /\ verdict'[g] = verdict[g]
      BY <2>1, <2>3, <3>1 DEF Busy
    <3> QED BY <2>1, <3>1, <3>2 DEF ToldAt
  <2> QED BY <1>14, <2>4, <2>5 DEF TellFails
<1>15. ASSUME NEW h \in Handlers, TellUnsure(h) PROVE ToldAt(v)'
  <2>1. UNCHANGED <<pc, on, job, verdict>> /\ Arrives(h) /\ on[h] # v
    BY <1>15 DEF TellUnsure, JobUntouched
  <2>2. Told(v)' = Told(v)
    BY <2>1, ArrivesFacts DEF IInv
  <2> QED BY <2>1, <2>2 DEF ToldAt, Busy
<1>16. ASSUME NEW h \in Handlers, Mark(h) PROVE ToldAt(v)'
  <2>1. Busy(h) /\ pc' = [pc EXCEPT ![h] = "end"] /\ UNCHANGED <<on, job, toldVars>>
    BY <1>16 DEF Mark, Busy, JobUntouched, Goto
  <2>2. verdict' = verdict
    BY <1>16 DEF Mark
  <2> QED BY <2>1, <2>2, WorkTold
<1>17. ASSUME NEW h \in Handlers, MarkFails(h) PROVE ToldAt(v)'
  <2>1. Busy(h) /\ pc' = [pc EXCEPT ![h] = IF pc[h] = "premark" THEN "download" ELSE "end"] /\ UNCHANGED <<on, job, toldVars>>
    BY <1>17 DEF MarkFails, Busy, JobUntouched, Goto
  <2>2. verdict' = verdict
    BY <1>17 DEF MarkFails
  <2> QED BY <2>1, <2>2, WorkTold
<1>18. ASSUME NEW h \in Handlers, End(h), verdict[h].then = "return" PROVE ToldAt(v)'
  <2>1. pc[h] = "end" /\ Return(h)
    BY <1>18 DEF End
  <2>2. UNCHANGED <<verdict, toldVars>> /\ Busy(h)
    BY <1>18 DEF End, Busy
  <2>3. UNCHANGED <<on, aborted>> /\ pc' = [pc EXCEPT ![h] = "idle"]
        /\ (\A w \in Updates : w # on[h] => job'[w] = job[w])
        /\ (~aborted[h] => job'[on[h]] = "completed")
    BY <2>1, ReturnFacts DEF IInv
  <2> QED BY <2>2, <2>3, EndTold
<1>19. ASSUME NEW h \in Handlers, End(h), verdict[h].then # "return" PROVE ToldAt(v)'
  <2>1. pc[h] = "end" /\ Throw(h)
    BY <1>19 DEF End
  <2>2. UNCHANGED <<verdict, toldVars>> /\ verdict[h] # Done /\ Busy(h)
    BY <1>19, VerdictFacts DEF End, Busy
  <2>3. UNCHANGED <<on, aborted>> /\ pc' = [pc EXCEPT ![h] = "idle"]
        /\ \A w \in Updates : w # on[h] => job'[w] = job[w]
    BY <2>1, ThrowFacts DEF IInv
  <2> QED BY <2>2, <2>3, EndTold
<1>20. ASSUME UNCHANGED vars PROVE ToldAt(v)'
  <2>1. UNCHANGED <<pc, on, job, verdict, toldVars>>
    BY <1>20 DEF vars, queueVars, toldVars
  <2> QED BY <2>1 DEF ToldAt, Busy
<1> QED
  BY <1>1, <1>2, <1>3, <1>4, <1>5, <1>6, <1>7, <1>8, <1>9, <1>10, <1>11, <1>12, <1>13,
       <1>14, <1>15, <1>16, <1>17, <1>18, <1>19, <1>20 DEF Next, Step, FaultStep,
       QueueStep, Quiescent

\* A verdict has its grounds.
LEMMA EndStep == IInv /\ [Next]_vars => EndInv'
<1> DEFINE Grounds(k) ==
      pc[k] \in {"mark", "end"} =>
        /\ verdict[k] = Done => Told(on[k]) > 0
        /\ ~aborted[k] /\ verdict[k] = GivenUp => on[k] \in refused
<1> SUFFICES ASSUME IInv, [Next]_vars, NEW g \in Handlers PROVE Grounds(g)'
  BY DEF EndInv
<1>0. /\ Grounds(g) /\ on[g] \in Updates
      /\ \A w \in Updates : Told(w) > 0 => Told(w)' > 0
      /\ refused \subseteq refused'
      /\ pc \in [Handlers -> Stages] /\ on \in [Handlers -> Updates]
      /\ aborted \in [Handlers -> BOOLEAN] /\ verdict \in [Handlers -> Verdict]
  BY MovesStep, ToldGrows DEF IInv, EndInv, Grows, TypeOK, QueueTypeOK
<1> USE <1>0, VerdictFacts
<1> USE DEF handlerVars, Goto, JobUntouched
<1>1. ASSUME NEW h \in Handlers, NEW u \in Updates, Fetch(h, u) PROVE Grounds(g)'
  <2>1. /\ on' = [on EXCEPT ![h] = u] /\ pc' = [pc EXCEPT ![h] = "open"]
        /\ verdict' = [verdict EXCEPT ![h] = TryAgain]
        /\ aborted' = [aborted EXCEPT ![h] = FALSE]
    BY <1>1 DEF Fetch, Take
  <2>2. CASE g = h
    BY <2>1, <2>2
  <2>3. CASE g # h
    <3>1. on'[g] = on[g] /\ pc'[g] = pc[g] /\ verdict'[g] = verdict[g] /\ aborted'[g] = aborted[g]
      BY <2>1, <2>3
    <3>2. \A w : Told(w)' = Told(w)
      BY <1>1 DEF Fetch, Told, toldVars
    <3> QED BY <3>1, <3>2
  <2> QED BY <2>2, <2>3
<1>2. ASSUME NEW h \in Handlers, Outlive(h), disturbed' = disturbed \cup {on[h]},
           UNCHANGED <<status, toldVars, verdict, refused, unmarked>>
      PROVE  Grounds(g)'
  <2>1. UNCHANGED <<pc, on, verdict>> /\ aborted' = [aborted EXCEPT ![h] = TRUE]
    BY <1>2 DEF Outlive
  <2> QED BY <2>1
<1>3. ASSUME NEW h \in Handlers, Die(h), disturbed' = disturbed \cup {on[h]},
           UNCHANGED <<status, toldVars, verdict, refused, unmarked>>
      PROVE  Grounds(g)'
  <2>1. pc' = [pc EXCEPT ![h] = "idle"] /\ UNCHANGED <<on, aborted, verdict>>
    BY <1>3 DEF Die
  <2> QED BY <2>1
<1>4. ASSUME NEW u \in Updates, Recover(u), UNCHANGED disturbed,
           UNCHANGED <<status, toldVars, verdict, refused, unmarked>>
      PROVE  Grounds(g)'
  <2>1. UNCHANGED <<pc, on, verdict>>
    BY <1>4 DEF Recover
  <2> QED BY <1>4, <2>1 DEF Recover
<1>5. ASSUME NEW u \in Updates, Drop(u), UNCHANGED disturbed,
           UNCHANGED <<status, toldVars, verdict, refused, unmarked>>
      PROVE  Grounds(g)'
  <2>1. UNCHANGED <<pc, on, verdict>>
    BY <1>5 DEF Drop
  <2> QED BY <1>5, <2>1 DEF Drop
<1>6. ASSUME NEW h \in Handlers, Open(h) PROVE Grounds(g)'
  <2>1. pc' = [pc EXCEPT ![h] = "premark"] /\ UNCHANGED <<on, aborted, verdict>>
    BY <1>6 DEF Open
  <2> QED BY <2>1
<1>7. ASSUME NEW h \in Handlers, OpenFails(h) PROVE Grounds(g)'
  <2>1. pc[h] = "open" /\ Throw(h)
    BY <1>7 DEF OpenFails
  <2>2. pc' = [pc EXCEPT ![h] = "idle"] /\ UNCHANGED <<on, aborted>> /\ verdict' = verdict
    BY <1>7, <2>1, ThrowFacts DEF OpenFails, IInv
  <2> QED BY <2>2
<1>8. ASSUME NEW h \in Handlers, Premark(h) PROVE Grounds(g)'
  <2>1. pc' = [pc EXCEPT ![h] = "download"] /\ UNCHANGED <<on, aborted, verdict>>
    BY <1>8 DEF Premark
  <2> QED BY <2>1
<1>9. ASSUME NEW h \in Handlers, Work(h) PROVE Grounds(g)'
  <2>1. pc' = [pc EXCEPT ![h] = IF pc[h] = "download" THEN "compare" ELSE "deliver"] /\ UNCHANGED <<on, aborted, verdict>>
    BY <1>9 DEF Work
  <2> QED BY <2>1
<1>10. ASSUME NEW h \in Handlers, WorkIsTerminal(h) PROVE Grounds(g)'
  <2>1. pc' = [pc EXCEPT ![h] = "apologise"] /\ UNCHANGED <<on, aborted, verdict>>
    BY <1>10 DEF WorkIsTerminal
  <2> QED BY <2>1
<1>11. ASSUME NEW h \in Handlers, WorkFails(h) PROVE Grounds(g)'
  <2>1. /\ pc' = [pc EXCEPT ![h] = "mark"] /\ UNCHANGED <<on, aborted>>
        /\ verdict' = [verdict EXCEPT ![h] = TryAgain]
    BY <1>11 DEF WorkFails, Conclude
  <2> QED BY <2>1
<1>12. ASSUME NEW h \in Handlers, AbortSeen(h) PROVE Grounds(g)'
  <2>1. /\ aborted[h] /\ UNCHANGED <<on, aborted>> /\ verdict' = [verdict EXCEPT ![h] = GivenUp]
        /\ \E stage \in {"mark", "end"} : pc' = [pc EXCEPT ![h] = stage]
    BY <1>12 DEF AbortSeen, Conclude
  <2> QED BY <2>1
<1>13. ASSUME NEW h \in Handlers, Tell(h) PROVE Grounds(g)'
  <2>1. /\ pc' = [pc EXCEPT ![h] = "mark"] /\ UNCHANGED <<on, aborted>>
        /\ verdict' = [verdict EXCEPT ![h] = Done] /\ Arrives(h)
    BY <1>13 DEF Tell, Conclude
  <2>2. \A w \in Updates : w = on[h] => Told(w)' > 0
    BY <2>1, ArrivesFacts, ToldType, SMT DEF IInv
  <2>3. CASE g = h
    BY <2>1, <2>2, <2>3
  <2>4. CASE g # h
    BY <2>1, <2>4
  <2> QED BY <2>3, <2>4
<1>14. ASSUME NEW h \in Handlers, TellFails(h) PROVE Grounds(g)'
  <2>1. /\ pc' = [pc EXCEPT ![h] = "mark"] /\ UNCHANGED <<on, aborted>>
        /\ \/ verdict' = [verdict EXCEPT ![h] = GivenUp] /\ on[h] \in refused'
           \/ verdict' = [verdict EXCEPT ![h] = TryAgain]
    BY <1>14 DEF TellFails, Conclude
  <2> QED BY <2>1
<1>15. ASSUME NEW h \in Handlers, TellUnsure(h) PROVE Grounds(g)'
  <2>1. UNCHANGED <<pc, on, aborted, verdict>>
    BY <1>15 DEF TellUnsure
  <2> QED BY <2>1
<1>16. ASSUME NEW h \in Handlers, Mark(h) PROVE Grounds(g)'
  <2>1. pc[h] = "mark" /\ pc' = [pc EXCEPT ![h] = "end"] /\ UNCHANGED <<on, aborted, verdict>>
    BY <1>16 DEF Mark
  <2> QED BY <2>1
<1>17. ASSUME NEW h \in Handlers, MarkFails(h) PROVE Grounds(g)'
  <2>1. /\ pc[h] \in {"premark", "mark"} /\ UNCHANGED <<on, aborted, verdict>>
        /\ pc' = [pc EXCEPT ![h] = IF pc[h] = "premark" THEN "download" ELSE "end"]
    BY <1>17 DEF MarkFails
  <2> QED BY <2>1
<1>18. ASSUME NEW h \in Handlers, End(h), verdict[h].then = "return" PROVE Grounds(g)'
  <2>1. pc[h] = "end" /\ Return(h)
    BY <1>18 DEF End
  <2>2. pc' = [pc EXCEPT ![h] = "idle"] /\ UNCHANGED <<on, aborted>> /\ verdict' = verdict
    BY <1>18, <2>1, ReturnFacts DEF End, IInv
  <2> QED BY <2>2
<1>19. ASSUME NEW h \in Handlers, End(h), verdict[h].then # "return" PROVE Grounds(g)'
  <2>1. pc[h] = "end" /\ Throw(h)
    BY <1>19 DEF End
  <2>2. pc' = [pc EXCEPT ![h] = "idle"] /\ UNCHANGED <<on, aborted>> /\ verdict' = verdict
    BY <1>19, <2>1, ThrowFacts DEF End, IInv
  <2> QED BY <2>2
<1>20. ASSUME UNCHANGED vars PROVE Grounds(g)'
  <2>1. UNCHANGED <<pc, on, aborted, verdict>>
    BY <1>20 DEF vars, queueVars
  <2> QED BY <2>1
<1> QED
  BY <1>1, <1>2, <1>3, <1>4, <1>5, <1>6, <1>7, <1>8, <1>9, <1>10, <1>11, <1>12, <1>13,
       <1>14, <1>15, <1>16, <1>17, <1>18, <1>19, <1>20 DEF Next, Step, FaultStep,
       QueueStep, Quiescent

\* A status that could be written is that of the only handler.
LEMMA StatusStep == IInv /\ [Next]_vars => StatusInv'
<1> DEFINE Written(k) ==
      pc[k] = "end" /\ on[k] \notin disturbed \cup unmarked => status[on[k]] = verdict[k].mark
<1> SUFFICES ASSUME IInv, [Next]_vars, NEW g \in Handlers PROVE Written(g)'
  BY DEF StatusInv
<1>0. /\ Written(g) /\ on[g] \in Updates
      /\ disturbed \subseteq disturbed' /\ unmarked \subseteq unmarked'
      /\ pc \in [Handlers -> Stages] /\ on \in [Handlers -> Updates]
      /\ status \in [Updates -> {"received", "processed", "failed"}]
      /\ aborted \in [Handlers -> BOOLEAN] /\ verdict \in [Handlers -> Verdict]
  BY MovesStep DEF IInv, StatusInv, Grows, TypeOK, QueueTypeOK
<1> USE <1>0
<1> USE DEF handlerVars, Goto, JobUntouched
<1>1. ASSUME NEW h \in Handlers, NEW u \in Updates, Fetch(h, u) PROVE Written(g)'
  <2>1. /\ on' = [on EXCEPT ![h] = u] /\ pc' = [pc EXCEPT ![h] = "open"]
        /\ verdict' = [verdict EXCEPT ![h] = TryAgain] /\ UNCHANGED status
    BY <1>1 DEF Fetch, Take
  <2> QED BY <2>1
<1>2. ASSUME NEW h \in Handlers, Outlive(h), disturbed' = disturbed \cup {on[h]},
           UNCHANGED <<status, toldVars, verdict, refused, unmarked>>
      PROVE  Written(g)'
  <2>1. UNCHANGED <<pc, on, status, verdict>>
    BY <1>2 DEF Outlive
  <2> QED BY <2>1
<1>3. ASSUME NEW h \in Handlers, Die(h), disturbed' = disturbed \cup {on[h]},
           UNCHANGED <<status, toldVars, verdict, refused, unmarked>>
      PROVE  Written(g)'
  <2>1. pc' = [pc EXCEPT ![h] = "idle"] /\ UNCHANGED <<on, status, verdict>>
    BY <1>3 DEF Die
  <2> QED BY <2>1
<1>4. ASSUME NEW u \in Updates, Recover(u), UNCHANGED disturbed,
           UNCHANGED <<status, toldVars, verdict, refused, unmarked>>
      PROVE  Written(g)'
  <2>1. UNCHANGED <<pc, on, status, verdict>>
    BY <1>4 DEF Recover
  <2> QED BY <2>1
<1>5. ASSUME NEW u \in Updates, Drop(u), UNCHANGED disturbed,
           UNCHANGED <<status, toldVars, verdict, refused, unmarked>>
      PROVE  Written(g)'
  <2>1. UNCHANGED <<pc, on, status, verdict>>
    BY <1>5 DEF Drop
  <2> QED BY <2>1
<1>6. ASSUME NEW h \in Handlers, Open(h) PROVE Written(g)'
  <2>1. pc' = [pc EXCEPT ![h] = "premark"] /\ UNCHANGED <<on, status, verdict>>
    BY <1>6 DEF Open
  <2> QED BY <2>1
<1>7. ASSUME NEW h \in Handlers, OpenFails(h) PROVE Written(g)'
  <2>1. pc[h] = "open" /\ Throw(h)
    BY <1>7 DEF OpenFails
  <2>2. pc' = [pc EXCEPT ![h] = "idle"] /\ UNCHANGED <<on, status, verdict>>
    BY <1>7, <2>1, ThrowFacts DEF OpenFails, IInv
  <2> QED BY <2>2
<1>8. ASSUME NEW h \in Handlers, Premark(h) PROVE Written(g)'
  <2>1. /\ Busy(h) /\ pc' = [pc EXCEPT ![h] = "download"] /\ UNCHANGED <<on, verdict>>
        /\ status' = [status EXCEPT ![on[h]] = "failed"]
    BY <1>8 DEF Premark, Busy
  <2>2. CASE g = h
    BY <2>1, <2>2
  <2>3. ASSUME g # h, Busy(g), on[g] \notin disturbed PROVE on[g] # on[h]
    BY <2>1, <2>3, SoleAt
  <2>4. CASE g # h
    BY <2>1, <2>3, <2>4 DEF Busy
  <2> QED BY <2>2, <2>4
<1>9. ASSUME NEW h \in Handlers, Work(h) PROVE Written(g)'
  <2>1. pc' = [pc EXCEPT ![h] = IF pc[h] = "download" THEN "compare" ELSE "deliver"] /\ UNCHANGED <<on, status, verdict>>
    BY <1>9 DEF Work
  <2> QED BY <2>1
<1>10. ASSUME NEW h \in Handlers, WorkIsTerminal(h) PROVE Written(g)'
  <2>1. pc' = [pc EXCEPT ![h] = "apologise"] /\ UNCHANGED <<on, status, verdict>>
    BY <1>10 DEF WorkIsTerminal
  <2> QED BY <2>1
<1>11. ASSUME NEW h \in Handlers, WorkFails(h) PROVE Written(g)'
  <2>1. /\ pc' = [pc EXCEPT ![h] = "mark"] /\ UNCHANGED <<on, status>>
        /\ \E w \in Verdict : verdict' = [verdict EXCEPT ![h] = w]
    BY <1>11, VerdictFacts DEF WorkFails, Conclude
  <2> QED BY <2>1
<1>12. ASSUME NEW h \in Handlers, AbortSeen(h) PROVE Written(g)'
  <2>1. /\ aborted[h] /\ Busy(h) /\ UNCHANGED <<on, status>>
        /\ verdict' = [verdict EXCEPT ![h] = GivenUp]
        /\ \E stage \in {"mark", "end"} : pc' = [pc EXCEPT ![h] = stage]
    BY <1>12 DEF AbortSeen, Conclude, Busy
  <2>2. on[h] \in disturbed
    BY <2>1 DEF IInv, SoleInv
  <2> QED BY <2>1, <2>2
<1>13. ASSUME NEW h \in Handlers, Tell(h) PROVE Written(g)'
  <2>1. /\ pc' = [pc EXCEPT ![h] = "mark"] /\ UNCHANGED <<on, status>>
        /\ \E w \in Verdict : verdict' = [verdict EXCEPT ![h] = w]
    BY <1>13, VerdictFacts DEF Tell, Conclude
  <2> QED BY <2>1
<1>14. ASSUME NEW h \in Handlers, TellFails(h) PROVE Written(g)'
  <2>1. /\ pc' = [pc EXCEPT ![h] = "mark"] /\ UNCHANGED <<on, status>>
        /\ \E w \in Verdict : verdict' = [verdict EXCEPT ![h] = w]
    BY <1>14, VerdictFacts DEF TellFails, Conclude
  <2> QED BY <2>1
<1>15. ASSUME NEW h \in Handlers, TellUnsure(h) PROVE Written(g)'
  <2>1. UNCHANGED <<pc, on, status, verdict>>
    BY <1>15 DEF TellUnsure
  <2> QED BY <2>1
<1>16. ASSUME NEW h \in Handlers, Mark(h) PROVE Written(g)'
  <2>1. /\ Busy(h) /\ pc' = [pc EXCEPT ![h] = "end"] /\ UNCHANGED <<on, verdict>>
        /\ status' = [status EXCEPT ![on[h]] = verdict[h].mark]
    BY <1>16 DEF Mark, Busy
  <2>2. CASE g = h
    BY <2>1, <2>2
  <2>3. ASSUME g # h, Busy(g), on[g] \notin disturbed PROVE on[g] # on[h]
    BY <2>1, <2>3, SoleAt
  <2>4. CASE g # h
    BY <2>1, <2>3, <2>4 DEF Busy
  <2> QED BY <2>2, <2>4
<1>17. ASSUME NEW h \in Handlers, MarkFails(h) PROVE Written(g)'
  <2>1. /\ unmarked' = unmarked \cup {on[h]} /\ UNCHANGED <<on, status, verdict>>
        /\ pc' = [pc EXCEPT ![h] = IF pc[h] = "premark" THEN "download" ELSE "end"]
    BY <1>17 DEF MarkFails
  <2> QED BY <2>1
<1>18. ASSUME NEW h \in Handlers, End(h), verdict[h].then = "return" PROVE Written(g)'
  <2>1. pc[h] = "end" /\ Return(h)
    BY <1>18 DEF End
  <2>2. pc' = [pc EXCEPT ![h] = "idle"] /\ UNCHANGED <<on, status, verdict>>
    BY <1>18, <2>1, ReturnFacts DEF End, IInv
  <2> QED BY <2>2
<1>19. ASSUME NEW h \in Handlers, End(h), verdict[h].then # "return" PROVE Written(g)'
  <2>1. pc[h] = "end" /\ Throw(h)
    BY <1>19 DEF End
  <2>2. pc' = [pc EXCEPT ![h] = "idle"] /\ UNCHANGED <<on, status, verdict>>
    BY <1>19, <2>1, ThrowFacts DEF End, IInv
  <2> QED BY <2>2
<1>20. ASSUME UNCHANGED vars PROVE Written(g)'
  <2>1. UNCHANGED <<pc, on, status, verdict>>
    BY <1>20 DEF vars, queueVars
  <2> QED BY <2>1
<1> QED
  BY <1>1, <1>2, <1>3, <1>4, <1>5, <1>6, <1>7, <1>8, <1>9, <1>10, <1>11, <1>12, <1>13,
       <1>14, <1>15, <1>16, <1>17, <1>18, <1>19, <1>20 DEF Next, Step, FaultStep,
       QueueStep, Quiescent

\* Only a busy handler of an update writes or sends anything for it.
Writes ==
  \A u \in Updates :
    \/ UNCHANGED <<status[u], answers[u], apologies[u]>>
    \/ \E k \in Handlers : Busy(k) /\ on[k] = u

\* Who writes and sends.
LEMMA WritesStep == IInv /\ [Next]_vars => Writes
<1> SUFFICES ASSUME IInv, [Next]_vars PROVE Writes
  OBVIOUS
<1> USE DEF Writes, toldVars
<1>1. ASSUME NEW h \in Handlers, NEW u \in Updates, Fetch(h, u) PROVE Writes
  BY <1>1, SMTT(30) DEF Fetch, Take
<1>2. ASSUME NEW h \in Handlers, Outlive(h), disturbed' = disturbed \cup {on[h]},
           UNCHANGED <<status, toldVars, verdict, refused, unmarked>>
      PROVE  Writes
  BY <1>2, SMTT(30) DEF Outlive
<1>3. ASSUME NEW h \in Handlers, Die(h), disturbed' = disturbed \cup {on[h]},
           UNCHANGED <<status, toldVars, verdict, refused, unmarked>>
      PROVE  Writes
  BY <1>3, SMTT(30) DEF Die
<1>4. ASSUME NEW u \in Updates, Recover(u), UNCHANGED disturbed,
           UNCHANGED <<status, toldVars, verdict, refused, unmarked>>
      PROVE  Writes
  BY <1>4, SMTT(30) DEF Recover
<1>5. ASSUME NEW u \in Updates, Drop(u), UNCHANGED disturbed,
           UNCHANGED <<status, toldVars, verdict, refused, unmarked>>
      PROVE  Writes
  BY <1>5, SMTT(30) DEF Drop
<1>6. ASSUME NEW h \in Handlers, Open(h) PROVE Writes
  BY <1>6, SMTT(30) DEF Open
<1>7. ASSUME NEW h \in Handlers, OpenFails(h) PROVE Writes
  BY <1>7, SMTT(30) DEF OpenFails
<1>8. ASSUME NEW h \in Handlers, Premark(h) PROVE Writes
  <2>1. Busy(h) /\ UNCHANGED toldVars /\ status' = [status EXCEPT ![on[h]] = "failed"]
    BY <1>8 DEF Premark, Busy
  <2> QED BY <2>1 DEF IInv, TypeOK
<1>9. ASSUME NEW h \in Handlers, Work(h) PROVE Writes
  BY <1>9, SMTT(30) DEF Work
<1>10. ASSUME NEW h \in Handlers, WorkIsTerminal(h) PROVE Writes
  BY <1>10, SMTT(30) DEF WorkIsTerminal
<1>11. ASSUME NEW h \in Handlers, WorkFails(h) PROVE Writes
  BY <1>11, SMTT(30) DEF WorkFails, Conclude
<1>12. ASSUME NEW h \in Handlers, AbortSeen(h) PROVE Writes
  BY <1>12, SMTT(30) DEF AbortSeen, Conclude
<1>13. ASSUME NEW h \in Handlers, Tell(h) PROVE Writes
  <2>1. Busy(h) /\ UNCHANGED status /\ (UNCHANGED toldVars \/ Arrives(h))
    BY <1>13 DEF Tell, Busy
  <2> QED BY <2>1, ArrivesFacts DEF IInv
<1>14. ASSUME NEW h \in Handlers, TellFails(h) PROVE Writes
  <2>1. Busy(h) /\ UNCHANGED status /\ (UNCHANGED toldVars \/ Arrives(h))
    BY <1>14 DEF TellFails, Busy
  <2> QED BY <2>1, ArrivesFacts DEF IInv
<1>15. ASSUME NEW h \in Handlers, TellUnsure(h) PROVE Writes
  <2>1. Busy(h) /\ UNCHANGED status /\ (UNCHANGED toldVars \/ Arrives(h))
    BY <1>15 DEF TellUnsure, Busy
  <2> QED BY <2>1, ArrivesFacts DEF IInv
<1>16. ASSUME NEW h \in Handlers, Mark(h) PROVE Writes
  <2>1. Busy(h) /\ UNCHANGED toldVars /\ status' = [status EXCEPT ![on[h]] = verdict[h].mark]
    BY <1>16 DEF Mark, Busy
  <2> QED BY <2>1 DEF IInv, TypeOK
<1>17. ASSUME NEW h \in Handlers, MarkFails(h) PROVE Writes
  BY <1>17, SMTT(30) DEF MarkFails
<1>18. ASSUME NEW h \in Handlers, End(h), verdict[h].then = "return" PROVE Writes
  BY <1>18, SMTT(30) DEF End, Return
<1>19. ASSUME NEW h \in Handlers, End(h), verdict[h].then # "return" PROVE Writes
  BY <1>19, SMTT(30) DEF End, Throw
<1>20. ASSUME UNCHANGED vars PROVE Writes
  BY <1>20 DEF vars
<1> QED
  BY <1>1, <1>2, <1>3, <1>4, <1>5, <1>6, <1>7, <1>8, <1>9, <1>10, <1>11, <1>12, <1>13,
       <1>14, <1>15, <1>16, <1>17, <1>18, <1>19, <1>20 DEF Next, Step, FaultStep,
       QueueStep, Quiescent

\* Only an attempt that returns ends a job as completed.
JobMoves ==
  \A u \in Updates : job'[u] = "completed" =>
    \/ job[u] = "completed"
    \/ \E k \in Handlers :
         /\ pc[k] = "end" /\ ~aborted[k] /\ verdict[k].then = "return" /\ on[k] = u
         /\ UNCHANGED <<status, toldVars>>

\* Who completes a job.
LEMMA JobMovesStep == IInv /\ [Next]_vars => JobMoves
<1> SUFFICES ASSUME IInv, [Next]_vars PROVE JobMoves
  OBVIOUS
<1> USE DEF JobMoves, IInv, TypeOK, QueueTypeOK, handlerVars, Goto, JobUntouched
<1>1. ASSUME NEW h \in Handlers, NEW u \in Updates, Fetch(h, u) PROVE JobMoves
  BY <1>1 DEF Fetch, Take
<1>2. ASSUME NEW h \in Handlers, Outlive(h), disturbed' = disturbed \cup {on[h]},
           UNCHANGED <<status, toldVars, verdict, refused, unmarked>>
      PROVE  JobMoves
  <2>1. on[h] \in Updates /\ Requeue(on[h])
    BY <1>2, OnType DEF Outlive
  <2>2. job'[on[h]] # "completed" /\ \A v \in Updates : v # on[h] => job'[v] = job[v]
    BY <2>1, RequeueFacts
  <2> QED BY <2>1, <2>2
<1>3. ASSUME NEW h \in Handlers, Die(h), disturbed' = disturbed \cup {on[h]},
           UNCHANGED <<status, toldVars, verdict, refused, unmarked>>
      PROVE  JobMoves
  BY <1>3, SMTT(30) DEF Die
<1>4. ASSUME NEW u \in Updates, Recover(u), UNCHANGED disturbed,
           UNCHANGED <<status, toldVars, verdict, refused, unmarked>>
      PROVE  JobMoves
  <2>1. job'[u] # "completed" /\ \A v \in Updates : v # u => job'[v] = job[v]
    BY <1>4, RequeueFacts DEF Recover
  <2> QED BY <2>1
<1>5. ASSUME NEW u \in Updates, Drop(u), UNCHANGED disturbed,
           UNCHANGED <<status, toldVars, verdict, refused, unmarked>>
      PROVE  JobMoves
  BY <1>5 DEF Drop
<1>6. ASSUME NEW h \in Handlers, Open(h) PROVE JobMoves
  BY <1>6, SMTT(30) DEF Open
<1>7. ASSUME NEW h \in Handlers, OpenFails(h) PROVE JobMoves
  <2>1. pc[h] = "open" /\ Throw(h)
    BY <1>7 DEF OpenFails
  <2>2. on[h] \in Updates /\ (aborted[h] => job' = job)
        /\ (~aborted[h] => job'[on[h]] # "completed")
        /\ \A v \in Updates : v # on[h] => job'[v] = job[v]
    BY <2>1, ThrowFacts, OnType
  <2> QED BY <2>2
<1>8. ASSUME NEW h \in Handlers, Premark(h) PROVE JobMoves
  BY <1>8, SMTT(30) DEF Premark
<1>9. ASSUME NEW h \in Handlers, Work(h) PROVE JobMoves
  BY <1>9, SMTT(30) DEF Work
<1>10. ASSUME NEW h \in Handlers, WorkIsTerminal(h) PROVE JobMoves
  BY <1>10, SMTT(30) DEF WorkIsTerminal
<1>11. ASSUME NEW h \in Handlers, WorkFails(h) PROVE JobMoves
  BY <1>11, SMTT(30) DEF WorkFails, Conclude
<1>12. ASSUME NEW h \in Handlers, AbortSeen(h) PROVE JobMoves
  BY <1>12, SMTT(30) DEF AbortSeen, Conclude
<1>13. ASSUME NEW h \in Handlers, Tell(h) PROVE JobMoves
  BY <1>13, SMTT(30) DEF Tell, Conclude
<1>14. ASSUME NEW h \in Handlers, TellFails(h) PROVE JobMoves
  BY <1>14, SMTT(30) DEF TellFails, Conclude
<1>15. ASSUME NEW h \in Handlers, TellUnsure(h) PROVE JobMoves
  BY <1>15, SMTT(30) DEF TellUnsure
<1>16. ASSUME NEW h \in Handlers, Mark(h) PROVE JobMoves
  BY <1>16, SMTT(30) DEF Mark
<1>17. ASSUME NEW h \in Handlers, MarkFails(h) PROVE JobMoves
  BY <1>17, SMTT(30) DEF MarkFails
<1>18. ASSUME NEW h \in Handlers, End(h), verdict[h].then = "return" PROVE JobMoves
  <2>1. pc[h] = "end" /\ Return(h)
    BY <1>18 DEF End
  <2>2. (aborted[h] => job' = job) /\ \A v \in Updates : v # on[h] => job'[v] = job[v]
    BY <2>1, ReturnFacts
  <2>3. UNCHANGED <<status, toldVars>>
    BY <1>18 DEF End
  <2> QED BY <1>18, <2>1, <2>2, <2>3
<1>19. ASSUME NEW h \in Handlers, End(h), verdict[h].then # "return" PROVE JobMoves
  <2>1. pc[h] = "end" /\ Throw(h)
    BY <1>19 DEF End
  <2>2. on[h] \in Updates /\ (aborted[h] => job' = job)
        /\ (~aborted[h] => job'[on[h]] # "completed")
        /\ \A v \in Updates : v # on[h] => job'[v] = job[v]
    BY <2>1, ThrowFacts, OnType
  <2> QED BY <2>2
<1>20. ASSUME UNCHANGED vars PROVE JobMoves
  BY <1>20 DEF vars, queueVars
<1> QED
  BY <1>1, <1>2, <1>3, <1>4, <1>5, <1>6, <1>7, <1>8, <1>9, <1>10, <1>11, <1>12, <1>13,
       <1>14, <1>15, <1>16, <1>17, <1>18, <1>19, <1>20 DEF Next, Step, FaultStep,
       QueueStep, Quiescent

\* A completed job is one whose handler told its user, or was refused.
LEMMA CompletedStep == IInv /\ [Next]_vars => CompletedIsTold'
<1> SUFFICES ASSUME IInv, [Next]_vars, NEW u \in Updates, job'[u] = "completed"
             PROVE  Told(u)' > 0 \/ u \in refused'
  BY DEF CompletedIsTold
<1>1. (Told(u) > 0 => Told(u)' > 0) /\ refused \subseteq refused'
  BY ToldGrows, MovesStep DEF Grows
<1>2. CASE job[u] = "completed"
  BY <1>1, <1>2 DEF IInv, CompletedIsTold
<1>3. ASSUME NEW h \in Handlers, pc[h] = "end", ~aborted[h], verdict[h].then = "return",
             on[h] = u
      PROVE  Told(u) > 0 \/ u \in refused
  <2>1. verdict[h] \in {Done, GivenUp}
    BY <1>3, VerdictFacts DEF IInv, VerdictInv
  <2> QED BY <1>3, <2>1 DEF IInv, EndInv
<1> QED BY <1>1, <1>2, <1>3, JobMovesStep DEF JobMoves

\* Its status is then as the handler left it, for nobody else comes.
LEMMA StatusTrueStep == IInv /\ [Next]_vars => StatusIsTrue'
<1> SUFFICES ASSUME IInv, [Next]_vars, NEW u \in Updates, u \notin disturbed', u \notin unmarked',
                    job'[u] = "completed"
             PROVE  (status[u] = "processed" <=> Told(u) = 1)'
  BY DEF StatusIsTrue
<1>1. u \notin disturbed /\ u \notin unmarked
  BY MovesStep DEF Grows
<1>2. CASE job[u] = "completed"
  <2>1. UNCHANGED <<status[u], answers[u], apologies[u]>>
    BY <1>1, <1>2, WritesStep, SoleAt DEF Writes
  <2>2. Told(u)' = Told(u)
    BY <2>1 DEF Told
  <2>3. status[u] = "processed" <=> Told(u) = 1
    BY <1>1, <1>2 DEF IInv, StatusIsTrue
  <2> QED BY <2>1, <2>2, <2>3
<1>3. ASSUME NEW h \in Handlers, pc[h] = "end", verdict[h].then = "return", on[h] = u,
             UNCHANGED <<status, toldVars>>
      PROVE  (status[u] = "processed" <=> Told(u) = 1)'
  <2>1. verdict[h] \in {Done, GivenUp}
    BY <1>3, VerdictFacts DEF IInv, VerdictInv
  <2>2. status[u] = verdict[h].mark
    BY <1>1, <1>3 DEF IInv, StatusInv
  <2>3. Told(u) = IF verdict[h] = Done THEN 1 ELSE 0
    BY <1>1, <1>3 DEF IInv, ToldInv, ToldAt, Busy
  <2>4. status[u] = "processed" <=> Told(u) = 1
    BY <2>1, <2>2, <2>3, VerdictFacts
  <2>5. Told(u)' = Told(u) /\ status' = status
    BY <1>3 DEF Told, toldVars
  <2> QED BY <2>4, <2>5
<1> QED BY <1>2, <1>3, JobMovesStep DEF JobMoves

\* A busy handler that was not given up has an active job.
Quiet ==
  \A u \in Updates : Settled(u) /\ u \notin expired =>
    UNCHANGED <<status[u], answers[u], apologies[u]>>

LEMMA QuietStep == IInv /\ [Next]_vars => Quiet
<1> SUFFICES ASSUME IInv, [Next]_vars, NEW u \in Updates, Settled(u), u \notin expired
             PROVE  UNCHANGED <<status[u], answers[u], apologies[u]>>
  BY DEF Quiet
<1>1. \A k \in Handlers : ~(Busy(k) /\ on[k] = u)
  BY DEF IInv, SoleInv, Settled
<1> QED BY <1>1, WritesStep DEF Writes

-----------------------------------------------------------------------------
(* Results.                                                                *)

LEMMA Inductive == IInv /\ [Next]_vars => IInv'
BY TypeStep, SoleStep, VerdictStep, ToldStep, EndStep, StatusStep, CompletedStep,
   StatusTrueStep DEF IInv

\* The parts of the argument hold in every state.
THEOREM Invariance == Spec => []IInv
<1> QED BY InitInv, Inductive, PTL DEF Spec

\* Every variable keeps its type.
THEOREM TypeCorrect == Spec => []TypeOK
<1>1. IInv => TypeOK
  BY DEF IInv
<1> QED BY <1>1, Invariance, PTL

\* processPrivateComparisonJob tells a user once, unless an attempt died, expired
\* or lost Telegram's reply; a completed job has told him or was refused; and
\* the status says which, where it could be written.
THEOREM UserIsToldThm == Spec => []UserIsTold
<1>1. IInv => ToldOnce
  BY DEF IInv, ToldInv, ToldAt, ToldOnce
<1>2. IInv => UserIsTold
  BY <1>1 DEF IInv, UserIsTold
<1> QED BY <1>2, Invariance, PTL

\* No handler of privateComparisonRuntime.ts that was not aborted writes or sends
\* anything for an update whose job has ended.
THEOREM QuietAfterSettledThm == Spec => QuietAfterSettled
<1>1. IInv /\ [Next]_vars => [Quiet]_vars
  BY QuietStep
<1> QED BY <1>1, Invariance, PTL DEF Spec, QuietAfterSettled, Quiet
=============================================================================
