-------------------------- MODULE AnswerJobProofs --------------------------
(***************************************************************************)
(* Proofs about AnswerJob, for any updates, users, handlers, retries and   *)
(* number of faults.                                                       *)
(*                                                                         *)
(* Two things carry the argument.  The rows of an update are written once: *)
(* whoever comes later finds them.  And as long as no attempt of a job has *)
(* outlived it, one handler at most works on its update.                   *)
(***************************************************************************)
EXTENDS AnswerJob, TLAPS

\* The history: each row counts one message, an answer follows its message, and
\* who has a message is known.
StoreInv ==
  \A u \in Updates :
    /\ messages[u].user = (IF first[u] = "none" THEN 0 ELSE 1)
    /\ messages[u].assistant = (IF stored[u] = NoText THEN 0 ELSE 1)
    /\ stored[u] \in {NoText, Reserved} \/ stored[u].kind = "written"
    /\ stored[u] # NoText => first[u] # "none"
    /\ first[u] # "none" => UserOf[u] \in known

\* One update of a user is the first.
FirstInv ==
  \A u, v \in Updates :
    first[u] = "first" /\ first[v] = "first" /\ UserOf[u] = UserOf[v] => u = v

\* What a handler knows of the history, and of the text it has.
DraftInv ==
  \A h \in Handlers :
    /\ pc[h] \in {"find", "write", "record"} \/ (pc[h] = "send" /\ text[h].kind = "written") =>
         first[on[h]] # "none" /\ (notice[h] <=> first[on[h]] = "first")
    /\ pc[h] = "record" => text[h].kind = "written"
    /\ pc[h] = "send" => text[h] # NoText

\* The queue has one handler for a job, besides those that have outlived it.
SoleInv ==
  /\ \A h \in Handlers : pc[h] # "idle" =>
       IF aborted[h] THEN on[h] \in expired ELSE job[on[h]] = "active"
  /\ \A g, h \in Handlers :
       pc[g] # "idle" /\ pc[h] # "idle" /\ ~aborted[g] /\ ~aborted[h] /\ on[g] = on[h] => g = h

\* That handler's text is the one on record, or is going to be.
RecordInv ==
  \A h \in Handlers : on[h] \notin expired =>
    /\ pc[h] \in {"write", "record"} => stored[on[h]] = NoText
    /\ pc[h] = "send" /\ text[h].kind = "written" => text[h] = stored[on[h]]

\* What has arrived was known to the history.
ChatInv ==
  \A m \in chat : m.text.kind = "written" =>
    /\ first[m.update] # "none" /\ (m.notice <=> first[m.update] = "first")
    /\ m.update \notin expired => m.text = stored[m.update]

\* What a handler is going to report is so.
ReportInv ==
  \A h \in Handlers :
    /\ delivered[h] => MessagesFor(on[h]) # {}
    /\ pc[h] \in {"mark", "return"} /\ ~aborted[h] => delivered[h] \/ on[h] \in refused

IInv ==
  /\ TypeOK
  /\ StoreInv /\ FirstInv /\ DraftInv
  /\ SoleInv /\ RecordInv /\ ChatInv
  /\ ReportInv /\ DoneIsDelivered

USE UpdateAssumption, QueueAssumption

-----------------------------------------------------------------------------
(* Facts about the writes.                                                 *)

LEMMA TextFacts ==
  /\ NoText \notin Text /\ Reserved \notin Text /\ NoText # Reserved
  /\ NoText.kind = "none" /\ Reserved.kind = "reserved"
  /\ Fixed("warning") \in Text /\ Fixed("unavailable") \in Text
  /\ Fixed("warning").kind = "warning" /\ Fixed("unavailable").kind = "unavailable"
  /\ \A n \in 0..RetryLimit : [kind |-> "written", by |-> n] \in Text
BY SMT DEF Text, NoText, Reserved, Fixed

\* A handler that runs belongs to an update.
LEMMA OnType == TypeOK => \A h \in Handlers : on[h] \in Updates
BY DEF TypeOK, QueueTypeOK

\* append(user): only the first of an update has an effect on its row.
LEMMA UserFacts ==
  ASSUME TypeOK, NEW u \in Updates, StoreUser(u)
  PROVE  /\ stored' = stored /\ known' = known \cup {UserOf[u]}
         /\ \A v \in Updates : v # u => first'[v] = first[v] /\ messages'[v] = messages[v]
         /\ first[u] # "none" => first' = first /\ messages' = messages
         /\ first[u] = "none" =>
              /\ first'[u] = IF UserOf[u] \in known THEN "later" ELSE "first"
              /\ messages'[u].user = messages[u].user + 1
              /\ messages'[u].assistant = messages[u].assistant
BY SMT DEF StoreUser, TypeOK

\* append(assistant): so has only the first answer.
LEMMA AnswerFacts ==
  ASSUME TypeOK, NEW u \in Updates, NEW answer, StoreAnswer(u, answer)
  PROVE  /\ first' = first /\ known' = known \cup {UserOf[u]}
         /\ \A v \in Updates : v # u => stored'[v] = stored[v] /\ messages'[v] = messages[v]
         /\ stored[u] # NoText => stored' = stored /\ messages' = messages
         /\ stored[u] = NoText =>
              /\ stored'[u] = answer
              /\ messages'[u].assistant = messages[u].assistant + 1
              /\ messages'[u].user = messages[u].user
BY SMT DEF StoreAnswer, TypeOK

LEMMA RequeueFacts ==
  ASSUME TypeOK, NEW u \in Updates, Requeue(u)
  PROVE  /\ job'[u] \in {"retry", "failed"}
         /\ \A v \in Updates : v # u => job'[v] = job[v]
         /\ job' \in [Updates -> {"created", "active", "retry", "completed", "failed", "dropped"}]
         /\ retries' \in [Updates -> 0..RetryLimit]
<1>1. CASE retries[u] < RetryLimit
  <2>1. retries[u] + 1 \in 0..RetryLimit
    BY <1>1, SMT DEF TypeOK, QueueTypeOK
  <2> QED BY <1>1, <2>1 DEF Requeue, TypeOK, QueueTypeOK
<1>2. CASE ~(retries[u] < RetryLimit)
  BY <1>2 DEF Requeue, TypeOK, QueueTypeOK
<1> QED BY <1>1, <1>2

\* The types of what they write.
StoreOK ==
  /\ known \in SUBSET Users
  /\ first \in [Updates -> {"none", "first", "later"}]
  /\ stored \in [Updates -> Text \cup {NoText, Reserved}]
  /\ messages \in [Updates -> [user : Nat, assistant : Nat]]

LEMMA MessageType ==
  ASSUME NEW u \in Updates, messages \in [Updates -> [user : Nat, assistant : Nat]]
  PROVE  /\ [messages EXCEPT ![u].user = @ + 1] \in [Updates -> [user : Nat, assistant : Nat]]
         /\ [messages EXCEPT ![u].assistant = @ + 1] \in [Updates -> [user : Nat, assistant : Nat]]
OBVIOUS

LEMMA UserType ==
  ASSUME TypeOK, NEW u \in Updates, StoreUser(u)
  PROVE  StoreOK'
<1>1. known' \in SUBSET Users /\ stored' \in [Updates -> Text \cup {NoText, Reserved}]
  BY DEF StoreUser, TypeOK
<1>2. first' \in [Updates -> {"none", "first", "later"}]
  BY DEF StoreUser, TypeOK
<1>3. messages' \in [Updates -> [user : Nat, assistant : Nat]]
  <2>1. \/ messages' = messages
        \/ messages' = [messages EXCEPT ![u].user = @ + 1]
    BY DEF StoreUser
  <2>2. messages \in [Updates -> [user : Nat, assistant : Nat]]
    BY DEF TypeOK
  <2>3. [messages EXCEPT ![u].user = @ + 1] \in [Updates -> [user : Nat, assistant : Nat]]
    BY <2>2, MessageType, Zenon
  <2> QED BY <2>1, <2>2, <2>3, Zenon
<1> QED BY <1>1, <1>2, <1>3 DEF StoreOK

LEMMA AnswerType ==
  ASSUME TypeOK, NEW u \in Updates, NEW answer \in Text, StoreAnswer(u, answer)
  PROVE  StoreOK'
<1>1. known' \in SUBSET Users /\ first' \in [Updates -> {"none", "first", "later"}]
  BY DEF StoreAnswer, TypeOK
<1>2. stored' \in [Updates -> Text \cup {NoText, Reserved}]
  BY DEF StoreAnswer, TypeOK
<1>3. messages' \in [Updates -> [user : Nat, assistant : Nat]]
  <2>1. \/ messages' = messages
        \/ messages' = [messages EXCEPT ![u].assistant = @ + 1]
    BY DEF StoreAnswer
  <2>2. messages \in [Updates -> [user : Nat, assistant : Nat]]
    BY DEF TypeOK
  <2>3. [messages EXCEPT ![u].assistant = @ + 1] \in [Updates -> [user : Nat, assistant : Nat]]
    BY <2>2, MessageType, Zenon
  <2> QED BY <2>1, <2>2, <2>3, Zenon
<1> QED BY <1>1, <1>2, <1>3 DEF StoreOK

LEMMA ThrowFacts ==
  ASSUME TypeOK, NEW h \in Handlers, Throw(h)
  PROVE  /\ aborted[h] => job' = job
         /\ ~aborted[h] => job'[on[h]] \in {"retry", "failed"}
         /\ \A v \in Updates : v # on[h] => job'[v] = job[v]
         /\ job' \in [Updates -> {"created", "active", "retry", "completed", "failed", "dropped"}]
         /\ retries' \in [Updates -> 0..RetryLimit]
         /\ pc' = [pc EXCEPT ![h] = "idle"] /\ UNCHANGED <<on, attempt, aborted, expired>>
<1>1. on[h] \in Updates
  BY OnType
<1>2. CASE aborted[h]
  BY <1>2 DEF Throw, Goto, handlerVars, TypeOK, QueueTypeOK
<1>3. CASE ~aborted[h]
  BY <1>1, <1>3, RequeueFacts DEF Throw, Goto, handlerVars
<1> QED BY <1>2, <1>3

-----------------------------------------------------------------------------
(* Steps.                                                                  *)

LEMMA InitInv == Init => IInv
<1> SUFFICES ASSUME Init PROVE IInv
  OBVIOUS
<1> USE DEF Init, QueueInit, HandlersInit
<1>1. QueueTypeOK
  BY SMT DEF QueueTypeOK
<1>2. TypeOK
  <2>1. notice \in [Handlers -> BOOLEAN] /\ delivered \in [Handlers -> BOOLEAN]
    OBVIOUS
  <2>2. messages \in [Updates -> [user : Nat, assistant : Nat]]
    OBVIOUS
  <2> QED BY <1>1, <2>1, <2>2, SMT DEF TypeOK, Stages
<1>3. StoreInv /\ FirstInv
  BY SMT DEF StoreInv, FirstInv, NoText, Reserved, Fixed
<1>4. DraftInv /\ SoleInv /\ RecordInv /\ ChatInv /\ ReportInv
  BY DEF DraftInv, SoleInv, RecordInv, ChatInv, ReportInv
<1>5. DoneIsDelivered
  BY DEF DoneIsDelivered, CompletedIsAnswered, ProcessedIsDelivered
<1> QED BY <1>2, <1>3, <1>4, <1>5 DEF IInv

\* Types.
LEMMA TypeStep == IInv /\ [Next]_vars => TypeOK'
<1> SUFFICES ASSUME IInv, [Next]_vars PROVE TypeOK'
  OBVIOUS
<1> USE DEF IInv, TypeOK, QueueTypeOK, Stages, storeVars, draftVars, sendVars,
     handlerVars, Goto, JobUntouched, NoFault, Fault
<1>1. ASSUME NEW h \in Handlers, NEW u \in Updates, Fetch(h, u) PROVE TypeOK'
  <2>1. text'[h] \in Text \cup {NoText} /\ retries[u] \in 0..RetryLimit
    BY <1>1, TextFacts DEF Fetch
  <2>2. notice' \in [Handlers -> BOOLEAN] /\ delivered' \in [Handlers -> BOOLEAN]
        /\ aborted' \in [Handlers -> BOOLEAN]
    BY <1>1 DEF Fetch, Take
  <2>3. text' \in [Handlers -> Text \cup {NoText}]
    BY <1>1, <2>1, TextFacts DEF Fetch
  <2> QED BY <1>1, <2>1, <2>2, <2>3, SMTT(30) DEF Fetch, Take
<1>2. ASSUME NEW h \in Handlers, Outlive(h) /\ QueueStep PROVE TypeOK'
  <2>1. on[h] \in Updates
    BY OnType
  <2>2. aborted' \in [Handlers -> BOOLEAN] /\ expired' \in SUBSET Updates
    BY <1>2, <2>1 DEF Outlive
  <2> QED BY <1>2, <2>1, <2>2, RequeueFacts, SMTT(30) DEF Outlive, QueueStep
<1>3. ASSUME NEW h \in Handlers, Die(h) /\ QueueStep PROVE TypeOK'
  BY <1>3, SMTT(30) DEF Die, QueueStep
<1>4. ASSUME NEW u \in Updates, Recover(u) /\ QueueStep PROVE TypeOK'
  <2>1. Requeue(u) /\ UNCHANGED <<pc, on, attempt, aborted, faults, expired>>
    BY <1>4 DEF Recover
  <2> QED BY <1>4, <2>1, RequeueFacts DEF QueueStep
<1>5. ASSUME NEW h \in Handlers, AppendUser(h) PROVE TypeOK'
  <2>1. on[h] \in Updates
    BY OnType
  <2>2. StoreOK'
    BY <1>5, <2>1, UserType DEF AppendUser
  <2>3. notice' \in [Handlers -> BOOLEAN]
    BY <1>5 DEF AppendUser
  <2> QED BY <1>5, <2>2, <2>3 DEF AppendUser, StoreOK
<1>6. ASSUME NEW h \in Handlers, AppendUserFails(h) PROVE TypeOK'
  <2>1. on[h] \in Updates
    BY OnType
  <2>2. StoreOK'
    BY <1>6, <2>1, UserType DEF AppendUserFails, StoreOK
  <2>3. text' \in [Handlers -> Text \cup {NoText}] /\ notice' \in [Handlers -> BOOLEAN]
    BY <1>6, TextFacts DEF PersistFailed, AppendUserFails
  <2>4. faults' \in 0..MaxFaults
    BY <1>6, SMT DEF PersistFailed, AppendUserFails
  <2> QED BY <1>6, <2>2, <2>3, <2>4 DEF AppendUserFails, PersistFailed, StoreOK
<1>7. ASSUME NEW h \in Handlers, FindAnswer(h) PROVE TypeOK'
  <2>1. stored[on[h]] \in Text \cup {NoText}
    BY <1>7, OnType DEF FindAnswer, RetryBlocked
  <2> QED BY <1>7, <2>1 DEF FindAnswer
<1>8. ASSUME NEW h \in Handlers, FindAnswerFails(h) PROVE TypeOK'
  <2>2. StoreOK'
    BY <1>8 DEF FindAnswerFails, StoreOK
  <2>3. text' \in [Handlers -> Text \cup {NoText}] /\ notice' \in [Handlers -> BOOLEAN]
    BY <1>8, TextFacts DEF PersistFailed, FindAnswerFails
  <2>4. faults' \in 0..MaxFaults
    BY <1>8, SMT DEF PersistFailed, FindAnswerFails
  <2> QED BY <1>8, <2>2, <2>3, <2>4 DEF FindAnswerFails, PersistFailed, StoreOK
<1>9. ASSUME NEW h \in Handlers, FindAnswerBlocked(h) PROVE TypeOK'
  <2>1. Throw(h) /\ faults' = faults
    BY <1>9 DEF FindAnswerBlocked, AnswerThrows
  <2> QED BY <1>9, <2>1, ThrowFacts DEF FindAnswerBlocked, AnswerThrows
<1>10. ASSUME NEW h \in Handlers, WriteAnswer(h) PROVE TypeOK'
  <2>1. [kind |-> "written", by |-> attempt[h]] \in Text
    BY TextFacts
  <2> QED BY <1>10, <2>1 DEF WriteAnswer
<1>11. ASSUME NEW h \in Handlers, RecordAnswer(h) PROVE TypeOK'
  <2>1. on[h] \in Updates
    BY OnType
  <2>2. text[h] \in Text
    BY <1>11, TextFacts DEF DraftInv, RecordAnswer
  <2>3. StoreOK'
    BY <1>11, <2>1, <2>2, AnswerType DEF RecordAnswer
  <2> QED BY <1>11, <2>3 DEF RecordAnswer, StoreOK
<1>12. ASSUME NEW h \in Handlers, RecordAnswerFails(h) PROVE TypeOK'
  <2>1. on[h] \in Updates
    BY OnType
  <2>2. text[h] \in Text
    BY <1>12, TextFacts DEF DraftInv, RecordAnswerFails
  <2>3. StoreOK'
    BY <1>12, <2>1, <2>2, AnswerType DEF RecordAnswerFails, StoreOK
  <2>4. Throw(h)
    BY <1>12 DEF RecordAnswerFails, AnswerThrows
  <2>5. faults' \in 0..MaxFaults
    BY <1>12, SMT DEF RecordAnswerFails
  <2>6. QueueTypeOK' /\ pc' \in [Handlers -> Stages]
    BY <2>4, <2>5, ThrowFacts
  <2>7. UNCHANGED <<status, chat, draftVars, sendVars, refused>>
    BY <1>12 DEF RecordAnswerFails, AnswerThrows
  <2> QED BY <2>3, <2>6, <2>7 DEF StoreOK
<1>13. ASSUME NEW h \in Handlers, SendMessage(h) PROVE TypeOK'
  <2>1. on[h] \in Updates
    BY OnType
  <2>2. text[h] \in Text
    BY <1>13 DEF DraftInv, SendMessage
  <2>3. [update |-> on[h], text |-> text[h], notice |-> notice[h]] \in
          [update : Updates, text : Text, notice : BOOLEAN]
    BY <2>1, <2>2
  <2>4. delivered' \in [Handlers -> BOOLEAN]
    BY <1>13 DEF SendMessage
  <2> QED BY <1>13, <2>3, <2>4 DEF SendMessage, Arrives
<1>14. ASSUME NEW h \in Handlers, SendAborted(h) PROVE TypeOK'
  BY <1>14, SMTT(30) DEF SendAborted
<1>15. ASSUME NEW h \in Handlers, SendFails(h) PROVE TypeOK'
  <2>1. on[h] \in Updates
    BY OnType
  <2>2. text[h] \in Text
    BY <1>15 DEF DraftInv, SendFails
  <2>3. [update |-> on[h], text |-> text[h], notice |-> notice[h]] \in
          [update : Updates, text : Text, notice : BOOLEAN]
    BY <2>1, <2>2
  <2>4. chat' \in SUBSET [update : Updates, text : Text, notice : BOOLEAN]
    BY <1>15, <2>3 DEF SendFails, Arrives
  <2>5. faults' \in 0..MaxFaults /\ tries' \in [Handlers -> 0..(SendLimit - 1)]
    BY <1>15, SMT DEF SendFails
  <2>6. pc' \in [Handlers -> Stages] /\ refused' \in SUBSET Updates
    BY <1>15, <2>1 DEF SendFails
  <2> QED BY <1>15, <2>4, <2>5, <2>6 DEF SendFails
<1>16. ASSUME NEW h \in Handlers, MarkUpdate(h) PROVE TypeOK'
  BY <1>16, SMTT(30) DEF MarkUpdate
<1>17. ASSUME NEW h \in Handlers, MarkFails(h) PROVE TypeOK'
  BY <1>17, SMTT(30) DEF MarkFails
<1>18. ASSUME NEW h \in Handlers, Finish(h) PROVE TypeOK'
  BY <1>18, SMTT(30) DEF Finish, Return
<1>19. ASSUME UNCHANGED vars PROVE TypeOK'
  BY <1>19, SMTT(30) DEF vars, queueVars
<1> QED
  BY <1>1, <1>2, <1>3, <1>4, <1>5, <1>6, <1>7, <1>8, <1>9, <1>10, <1>11, <1>12, <1>13,
       <1>14, <1>15, <1>16, <1>17, <1>18, <1>19 DEF Next, Step, FaultStep, QueueStep,
       Quiescent

\* The history is written by an append only.
StoreMoves ==
  \/ UNCHANGED storeVars
  \/ \E k \in Handlers : pc[k] = "append" /\ StoreUser(on[k])
  \/ \E k \in Handlers : pc[k] = "record" /\ StoreAnswer(on[k], text[k])

\* What it has, it keeps.
StoreGrows ==
  \A u \in Updates :
    /\ first[u] # "none" => first'[u] = first[u]
    /\ stored[u] # NoText => stored'[u] = stored[u]

\* Which steps write it.
LEMMA MovesStep == IInv /\ [Next]_vars => StoreMoves
<1> SUFFICES ASSUME IInv, [Next]_vars PROVE StoreMoves
  OBVIOUS
<1> USE DEF StoreMoves, Fetch, QueueStep, PersistFailed, AnswerThrows, vars, queueVars
<1>1. ASSUME NEW h \in Handlers, NEW u \in Updates, Fetch(h, u) PROVE StoreMoves
  BY <1>1, SMTT(30) DEF Fetch, Take
<1>2. ASSUME NEW h \in Handlers, Outlive(h) /\ QueueStep PROVE StoreMoves
  BY <1>2, SMTT(30) DEF Outlive, QueueStep
<1>3. ASSUME NEW h \in Handlers, Die(h) /\ QueueStep PROVE StoreMoves
  BY <1>3, SMTT(30) DEF Die, QueueStep
<1>4. ASSUME NEW u \in Updates, Recover(u) /\ QueueStep PROVE StoreMoves
  BY <1>4, SMTT(30) DEF Recover, QueueStep
<1>5. ASSUME NEW h \in Handlers, AppendUser(h) PROVE StoreMoves
  BY <1>5, SMTT(30) DEF AppendUser
<1>6. ASSUME NEW h \in Handlers, AppendUserFails(h) PROVE StoreMoves
  BY <1>6, SMTT(30) DEF AppendUserFails, PersistFailed
<1>7. ASSUME NEW h \in Handlers, FindAnswer(h) PROVE StoreMoves
  BY <1>7, SMTT(30) DEF FindAnswer, RetryBlocked
<1>8. ASSUME NEW h \in Handlers, FindAnswerFails(h) PROVE StoreMoves
  BY <1>8, SMTT(30) DEF FindAnswerFails, PersistFailed
<1>9. ASSUME NEW h \in Handlers, FindAnswerBlocked(h) PROVE StoreMoves
  BY <1>9, SMTT(30) DEF FindAnswerBlocked, AnswerThrows, Throw
<1>10. ASSUME NEW h \in Handlers, WriteAnswer(h) PROVE StoreMoves
  BY <1>10, SMTT(30) DEF WriteAnswer
<1>11. ASSUME NEW h \in Handlers, RecordAnswer(h) PROVE StoreMoves
  BY <1>11, SMTT(30) DEF RecordAnswer
<1>12. ASSUME NEW h \in Handlers, RecordAnswerFails(h) PROVE StoreMoves
  BY <1>12, SMTT(30) DEF RecordAnswerFails, AnswerThrows, Throw
<1>13. ASSUME NEW h \in Handlers, SendMessage(h) PROVE StoreMoves
  BY <1>13, SMTT(30) DEF SendMessage, Arrives
<1>14. ASSUME NEW h \in Handlers, SendAborted(h) PROVE StoreMoves
  BY <1>14, SMTT(30) DEF SendAborted
<1>15. ASSUME NEW h \in Handlers, SendFails(h) PROVE StoreMoves
  BY <1>15, SMTT(30) DEF SendFails, Arrives
<1>16. ASSUME NEW h \in Handlers, MarkUpdate(h) PROVE StoreMoves
  BY <1>16, SMTT(30) DEF MarkUpdate
<1>17. ASSUME NEW h \in Handlers, MarkFails(h) PROVE StoreMoves
  BY <1>17, SMTT(30) DEF MarkFails
<1>18. ASSUME NEW h \in Handlers, Finish(h) PROVE StoreMoves
  BY <1>18, SMTT(30) DEF Finish, Return
<1>19. ASSUME UNCHANGED vars PROVE StoreMoves
  BY <1>19 DEF storeVars
<1> QED
  BY <1>1, <1>2, <1>3, <1>4, <1>5, <1>6, <1>7, <1>8, <1>9, <1>10, <1>11, <1>12, <1>13,
       <1>14, <1>15, <1>16, <1>17, <1>18, <1>19 DEF Next, Step, FaultStep, QueueStep,
       Quiescent

LEMMA GrowsStep == IInv /\ [Next]_vars => StoreGrows
<1> SUFFICES ASSUME IInv, [Next]_vars PROVE StoreGrows
  OBVIOUS
<1> USE DEF StoreGrows, IInv
<1>1. CASE UNCHANGED storeVars
  BY <1>1 DEF storeVars
<1>2. ASSUME NEW h \in Handlers, StoreUser(on[h]) PROVE StoreGrows
  BY <1>2, OnType, UserFacts
<1>3. ASSUME NEW h \in Handlers, StoreAnswer(on[h], text[h]) PROVE StoreGrows
  BY <1>3, OnType, AnswerFacts
<1> QED BY <1>1, <1>2, <1>3, MovesStep DEF StoreMoves

\* The rows count what they should, as the second append of a role is void.
LEMMA StoreStep == IInv /\ [Next]_vars => StoreInv'
<1> SUFFICES ASSUME IInv, [Next]_vars PROVE StoreInv'
  OBVIOUS
<1>1. CASE UNCHANGED storeVars
  BY <1>1 DEF storeVars, IInv, StoreInv
<1>2. ASSUME NEW h \in Handlers, StoreUser(on[h]) PROVE StoreInv'
  BY <1>2, OnType, UserFacts, SMT DEF IInv, StoreInv
<1>3. ASSUME NEW h \in Handlers, pc[h] = "record", StoreAnswer(on[h], text[h]) PROVE StoreInv'
  <2>1. text[h].kind = "written" /\ first[on[h]] # "none" /\ text[h] # NoText
    BY <1>3, TextFacts DEF IInv, DraftInv
  <2> QED BY <1>3, <2>1, OnType, AnswerFacts, SMT DEF IInv, StoreInv
<1> QED BY <1>1, <1>2, <1>3, MovesStep DEF StoreMoves

\* A user is new to the history once.
LEMMA FirstStep == IInv /\ [Next]_vars => FirstInv'
<1> SUFFICES ASSUME IInv, [Next]_vars PROVE FirstInv'
  OBVIOUS
<1>1. CASE UNCHANGED storeVars
  BY <1>1 DEF storeVars, IInv, FirstInv
<1>2. ASSUME NEW h \in Handlers, StoreUser(on[h]) PROVE FirstInv'
  <2>1. \A u \in Updates : first[u] = "first" => UserOf[u] \in known
    BY DEF IInv, StoreInv
  <2> QED BY <1>2, <2>1, OnType, UserFacts DEF IInv, FirstInv
<1>3. ASSUME NEW h \in Handlers, StoreAnswer(on[h], text[h]) PROVE FirstInv'
  BY <1>3, OnType, AnswerFacts DEF IInv, FirstInv
<1> QED BY <1>1, <1>2, <1>3, MovesStep DEF StoreMoves

\* A handler knows the row of its message, which does not change any more.
LEMMA DraftStep == IInv /\ [Next]_vars => DraftInv'
<1> DEFINE Known(k) ==
      /\ pc[k] \in {"find", "write", "record"} \/ (pc[k] = "send" /\ text[k].kind = "written") =>
           first[on[k]] # "none" /\ (notice[k] <=> first[on[k]] = "first")
      /\ pc[k] = "record" => text[k].kind = "written"
      /\ pc[k] = "send" => text[k] # NoText
<1> SUFFICES ASSUME IInv, [Next]_vars, NEW g \in Handlers PROVE Known(g)'
  BY DEF DraftInv
<1>0. /\ Known(g) /\ on[g] \in Updates
      /\ first[on[g]] # "none" => first'[on[g]] = first[on[g]]
      /\ on \in [Handlers -> Updates] /\ pc \in [Handlers -> Stages]
      /\ text \in [Handlers -> Text \cup {NoText}] /\ notice \in [Handlers -> BOOLEAN]
  BY GrowsStep DEF IInv, DraftInv, StoreGrows, TypeOK, QueueTypeOK
<1> USE <1>0
<1> USE DEF IInv, storeVars, draftVars, sendVars, handlerVars, Goto, JobUntouched,
     NoFault, Fault
<1>1. ASSUME NEW h \in Handlers, NEW u \in Updates, Fetch(h, u) PROVE Known(g)'
  BY <1>1, TextFacts, SMTT(30) DEF Fetch, Take
<1>2. ASSUME NEW h \in Handlers, Outlive(h) /\ QueueStep PROVE Known(g)'
  BY <1>2, TextFacts, SMTT(30) DEF Outlive, QueueStep
<1>3. ASSUME NEW h \in Handlers, Die(h) /\ QueueStep PROVE Known(g)'
  BY <1>3, TextFacts, SMTT(30) DEF Die, QueueStep
<1>4. ASSUME NEW u \in Updates, Recover(u) /\ QueueStep PROVE Known(g)'
  BY <1>4, TextFacts, SMTT(30) DEF Recover, QueueStep
<1>5. ASSUME NEW h \in Handlers, AppendUser(h) PROVE Known(g)'
  <2>1. first'[on[h]] # "none"
    BY <1>5, UserFacts DEF AppendUser
  <2>2. CASE g = h
    BY <1>5, <2>1, <2>2 DEF AppendUser
  <2>3. CASE g # h
    BY <1>5, <2>3 DEF AppendUser
  <2> QED BY <2>2, <2>3
<1>6. ASSUME NEW h \in Handlers, AppendUserFails(h) PROVE Known(g)'
  BY <1>6, TextFacts, SMTT(30) DEF AppendUserFails, PersistFailed
<1>7. ASSUME NEW h \in Handlers, FindAnswer(h) PROVE Known(g)'
  BY <1>7, TextFacts, SMTT(30) DEF FindAnswer, RetryBlocked
<1>8. ASSUME NEW h \in Handlers, FindAnswerFails(h) PROVE Known(g)'
  BY <1>8, TextFacts, SMTT(30) DEF FindAnswerFails, PersistFailed
<1>9. ASSUME NEW h \in Handlers, FindAnswerBlocked(h) PROVE Known(g)'
  <2>1. Throw(h) /\ UNCHANGED <<text, notice>>
    BY <1>9 DEF FindAnswerBlocked, AnswerThrows
  <2> QED BY <2>1, ThrowFacts
<1>10. ASSUME NEW h \in Handlers, WriteAnswer(h) PROVE Known(g)'
  BY <1>10, TextFacts, SMTT(30) DEF WriteAnswer
<1>11. ASSUME NEW h \in Handlers, RecordAnswer(h) PROVE Known(g)'
  BY <1>11, TextFacts, SMTT(30) DEF RecordAnswer
<1>12. ASSUME NEW h \in Handlers, RecordAnswerFails(h) PROVE Known(g)'
  <2>1. Throw(h) /\ UNCHANGED <<text, notice>>
    BY <1>12 DEF RecordAnswerFails, AnswerThrows
  <2> QED BY <2>1, ThrowFacts
<1>13. ASSUME NEW h \in Handlers, SendMessage(h) PROVE Known(g)'
  BY <1>13, TextFacts, SMTT(30) DEF SendMessage, Arrives
<1>14. ASSUME NEW h \in Handlers, SendAborted(h) PROVE Known(g)'
  BY <1>14, TextFacts, SMTT(30) DEF SendAborted
<1>15. ASSUME NEW h \in Handlers, SendFails(h) PROVE Known(g)'
  BY <1>15, TextFacts, SMTT(30) DEF SendFails, Arrives
<1>16. ASSUME NEW h \in Handlers, MarkUpdate(h) PROVE Known(g)'
  BY <1>16, TextFacts, SMTT(30) DEF MarkUpdate
<1>17. ASSUME NEW h \in Handlers, MarkFails(h) PROVE Known(g)'
  BY <1>17, TextFacts, SMTT(30) DEF MarkFails
<1>18. ASSUME NEW h \in Handlers, Finish(h) PROVE Known(g)'
  BY <1>18, TextFacts, SMTT(30) DEF Finish, Return
<1>19. ASSUME UNCHANGED vars PROVE Known(g)'
  BY <1>19, TextFacts, SMTT(30) DEF vars, queueVars
<1> QED
  BY <1>1, <1>2, <1>3, <1>4, <1>5, <1>6, <1>7, <1>8, <1>9, <1>10, <1>11, <1>12, <1>13,
       <1>14, <1>15, <1>16, <1>17, <1>18, <1>19 DEF Next, Step, FaultStep, QueueStep,
       Quiescent

\* An attempt that throws leaves no other with its job.
LEMMA ThrowSole ==
  ASSUME IInv, NEW h \in Handlers, Throw(h), pc[h] # "idle"
  PROVE  SoleInv'
<1>1. TypeOK /\ SoleInv
  BY DEF IInv
<1>2. /\ pc \in [Handlers -> Stages] /\ \A g \in Handlers : on[g] \in Updates
  BY <1>1 DEF TypeOK, QueueTypeOK
<1>3. pc' = [pc EXCEPT ![h] = "idle"] /\ UNCHANGED <<on, aborted, expired>>
  BY <1>1, ThrowFacts
<1>4. \A g \in Handlers : pc'[g] # "idle" => g # h /\ pc[g] # "idle"
  BY <1>2, <1>3
<1>5. ASSUME NEW g \in Handlers, pc'[g] # "idle"
      PROVE  IF aborted'[g] THEN on'[g] \in expired' ELSE job'[on'[g]] = "active"
  <2>1. g # h /\ pc[g] # "idle"
    BY <1>4, <1>5
  <2>2. CASE aborted[g]
    BY <1>1, <1>3, <2>1, <2>2 DEF SoleInv
  <2>3. CASE ~aborted[g]
    <3>1. job[on[g]] = "active"
      BY <1>1, <2>1, <2>3 DEF SoleInv
    <3>2. aborted[h] \/ on[g] # on[h]
      BY <1>1, <2>1, <2>3 DEF SoleInv
    <3>3. job'[on[g]] = job[on[g]]
      BY <1>1, <1>2, <3>2, ThrowFacts
    <3> QED BY <1>3, <2>3, <3>1, <3>3
  <2> QED BY <2>2, <2>3
<1>6. \A f, g \in Handlers :
        pc'[f] # "idle" /\ pc'[g] # "idle" /\ ~aborted'[f] /\ ~aborted'[g] /\ on'[f] = on'[g] =>
          f = g
  BY <1>1, <1>3, <1>4 DEF SoleInv
<1> QED BY <1>5, <1>6 DEF SoleInv

\* The queue gives a job to a handler only when nobody it counts on has it.
LEMMA SoleStep == IInv /\ [Next]_vars => SoleInv'
<1> SUFFICES ASSUME IInv, [Next]_vars PROVE SoleInv'
  OBVIOUS
<1> USE DEF IInv, SoleInv, TypeOK, QueueTypeOK, Stages, storeVars, draftVars, sendVars,
     handlerVars, Goto, JobUntouched, NoFault, Fault
<1>1. ASSUME NEW h \in Handlers, NEW u \in Updates, Fetch(h, u) PROVE SoleInv'
  BY <1>1, SMTT(30) DEF Fetch, Take, Waiting
<1>2. ASSUME NEW h \in Handlers, Outlive(h) /\ QueueStep PROVE SoleInv'
  <2>1. on[h] \in Updates
    BY OnType
  <2> QED BY <1>2, <2>1, RequeueFacts, SMTT(30) DEF Outlive
<1>3. ASSUME NEW h \in Handlers, Die(h) /\ QueueStep PROVE SoleInv'
  BY <1>3, SMTT(30) DEF Die, QueueStep
<1>4. ASSUME NEW u \in Updates, Recover(u) /\ QueueStep PROVE SoleInv'
  <2> QED BY <1>4, RequeueFacts, SMTT(30) DEF Recover, Abandoned
<1>5. ASSUME NEW h \in Handlers, AppendUser(h) PROVE SoleInv'
  BY <1>5, SMTT(30) DEF AppendUser
<1>6. ASSUME NEW h \in Handlers, AppendUserFails(h) PROVE SoleInv'
  BY <1>6, SMTT(30) DEF AppendUserFails, PersistFailed
<1>7. ASSUME NEW h \in Handlers, FindAnswer(h) PROVE SoleInv'
  BY <1>7, SMTT(30) DEF FindAnswer, RetryBlocked
<1>8. ASSUME NEW h \in Handlers, FindAnswerFails(h) PROVE SoleInv'
  BY <1>8, SMTT(30) DEF FindAnswerFails, PersistFailed
<1>9. ASSUME NEW h \in Handlers, FindAnswerBlocked(h) PROVE SoleInv'
  <2>1. Throw(h) /\ pc[h] # "idle"
    BY <1>9 DEF FindAnswerBlocked, AnswerThrows
  <2> QED BY <2>1, ThrowSole
<1>10. ASSUME NEW h \in Handlers, WriteAnswer(h) PROVE SoleInv'
  BY <1>10, SMTT(30) DEF WriteAnswer
<1>11. ASSUME NEW h \in Handlers, RecordAnswer(h) PROVE SoleInv'
  BY <1>11, SMTT(30) DEF RecordAnswer
<1>12. ASSUME NEW h \in Handlers, RecordAnswerFails(h) PROVE SoleInv'
  <2>1. Throw(h) /\ pc[h] # "idle"
    BY <1>12 DEF RecordAnswerFails, AnswerThrows
  <2> QED BY <2>1, ThrowSole
<1>13. ASSUME NEW h \in Handlers, SendMessage(h) PROVE SoleInv'
  BY <1>13, SMTT(30) DEF SendMessage, Arrives
<1>14. ASSUME NEW h \in Handlers, SendAborted(h) PROVE SoleInv'
  BY <1>14, SMTT(30) DEF SendAborted
<1>15. ASSUME NEW h \in Handlers, SendFails(h) PROVE SoleInv'
  BY <1>15, SMTT(30) DEF SendFails, Arrives
<1>16. ASSUME NEW h \in Handlers, MarkUpdate(h) PROVE SoleInv'
  BY <1>16, SMTT(30) DEF MarkUpdate
<1>17. ASSUME NEW h \in Handlers, MarkFails(h) PROVE SoleInv'
  BY <1>17, SMTT(30) DEF MarkFails
<1>18. ASSUME NEW h \in Handlers, Finish(h) PROVE SoleInv'
  BY <1>18, SMTT(30) DEF Finish, Return
<1>19. ASSUME UNCHANGED vars PROVE SoleInv'
  BY <1>19, SMTT(30) DEF vars, queueVars
<1> QED
  BY <1>1, <1>2, <1>3, <1>4, <1>5, <1>6, <1>7, <1>8, <1>9, <1>10, <1>11, <1>12, <1>13,
       <1>14, <1>15, <1>16, <1>17, <1>18, <1>19 DEF Next, Step, FaultStep, QueueStep,
       Quiescent

\* While no attempt has outlived the job, the rows are as its handler left them.
LEMMA RecordStep == IInv /\ [Next]_vars => RecordInv'
<1> DEFINE Recorded(k) ==
      on[k] \notin expired =>
        /\ pc[k] \in {"write", "record"} => stored[on[k]] = NoText
        /\ pc[k] = "send" /\ text[k].kind = "written" => text[k] = stored[on[k]]
<1> SUFFICES ASSUME IInv, [Next]_vars, NEW g \in Handlers PROVE Recorded(g)'
  BY DEF RecordInv
<1>0. /\ Recorded(g) /\ on[g] \in Updates
      /\ stored[on[g]] # NoText => stored'[on[g]] = stored[on[g]]
      /\ pc[g] = "send" => text[g] # NoText
      /\ stored[on[g]] \in {NoText, Reserved} \/ stored[on[g]].kind = "written"
      /\ on \in [Handlers -> Updates] /\ pc \in [Handlers -> Stages]
      /\ text \in [Handlers -> Text \cup {NoText}] /\ NoText.kind = "none"
  BY GrowsStep, TextFacts DEF IInv, RecordInv, StoreGrows, StoreInv, DraftInv, TypeOK,
       QueueTypeOK
<1> USE <1>0
<1> USE DEF IInv, Stages, storeVars, draftVars, sendVars, handlerVars, Goto, JobUntouched,
     NoFault, Fault
<1>1. ASSUME NEW h \in Handlers, NEW u \in Updates, Fetch(h, u) PROVE Recorded(g)'
  BY <1>1, TextFacts, SMTT(30) DEF Fetch, Take
<1>2. ASSUME NEW h \in Handlers, Outlive(h) /\ QueueStep PROVE Recorded(g)'
  BY <1>2, TextFacts, SMTT(30) DEF Outlive, QueueStep
<1>3. ASSUME NEW h \in Handlers, Die(h) /\ QueueStep PROVE Recorded(g)'
  BY <1>3, TextFacts, SMTT(30) DEF Die, QueueStep
<1>4. ASSUME NEW u \in Updates, Recover(u) /\ QueueStep PROVE Recorded(g)'
  BY <1>4, TextFacts, SMTT(30) DEF Recover, QueueStep
<1>5. ASSUME NEW h \in Handlers, AppendUser(h) PROVE Recorded(g)'
  <2>1. stored' = stored
    BY <1>5, OnType, UserFacts DEF AppendUser
  <2> QED BY <1>5, <2>1, SMTT(30) DEF AppendUser
<1>6. ASSUME NEW h \in Handlers, AppendUserFails(h) PROVE Recorded(g)'
  <2>1. stored' = stored
    BY <1>6, OnType, UserFacts DEF AppendUserFails
  <2> QED BY <1>6, <2>1, TextFacts, SMTT(30) DEF AppendUserFails, PersistFailed
<1>7. ASSUME NEW h \in Handlers, FindAnswer(h) PROVE Recorded(g)'
  BY <1>7, TextFacts, SMTT(30) DEF FindAnswer, RetryBlocked
<1>8. ASSUME NEW h \in Handlers, FindAnswerFails(h) PROVE Recorded(g)'
  BY <1>8, TextFacts, SMTT(30) DEF FindAnswerFails, PersistFailed
<1>9. ASSUME NEW h \in Handlers, FindAnswerBlocked(h) PROVE Recorded(g)'
  <2>1. Throw(h) /\ UNCHANGED <<text, stored>>
    BY <1>9 DEF FindAnswerBlocked, AnswerThrows
  <2> QED BY <2>1, ThrowFacts
<1>10. ASSUME NEW h \in Handlers, WriteAnswer(h) PROVE Recorded(g)'
  BY <1>10, TextFacts, SMTT(30) DEF WriteAnswer
<1>11. ASSUME NEW h \in Handlers, RecordAnswer(h) PROVE Recorded(g)'
  <2>1. on[h] \in Updates /\ text[h].kind = "written"
    BY <1>11, OnType DEF DraftInv, RecordAnswer
  <2>2. g # h /\ on[g] = on[h] /\ on[g] \notin expired => pc[g] = "idle"
    BY <1>11 DEF SoleInv, RecordAnswer
  <2>3. g # h /\ on[g] # on[h] => stored'[on[g]] = stored[on[g]]
    BY <1>11, <2>1, AnswerFacts DEF RecordAnswer
  <2>4. on[h] \notin expired => stored'[on[h]] = text[h]
    BY <1>11, <2>1, AnswerFacts DEF RecordAnswer, RecordInv
  <2>5. CASE g = h
    BY <1>11, <2>4, <2>5 DEF RecordAnswer
  <2>6. CASE g # h
    BY <1>11, <2>2, <2>3, <2>6 DEF RecordAnswer
  <2> QED BY <2>5, <2>6
<1>12. ASSUME NEW h \in Handlers, RecordAnswerFails(h) PROVE Recorded(g)'
  <2>1. on[h] \in Updates /\ text[h].kind = "written"
    BY <1>12, OnType DEF DraftInv, RecordAnswerFails
  <2>2. g # h /\ on[g] = on[h] /\ on[g] \notin expired => pc[g] = "idle"
    BY <1>12 DEF SoleInv, RecordAnswerFails
  <2>3. g # h /\ on[g] # on[h] => stored'[on[g]] = stored[on[g]]
    BY <1>12, <2>1, AnswerFacts DEF RecordAnswerFails
  <2>4. Throw(h) /\ UNCHANGED text
    BY <1>12 DEF RecordAnswerFails, AnswerThrows
  <2>5. CASE g = h
    BY <2>4, <2>5, ThrowFacts
  <2>6. CASE g # h
    BY <2>2, <2>3, <2>4, <2>6, ThrowFacts
  <2> QED BY <2>5, <2>6
<1>13. ASSUME NEW h \in Handlers, SendMessage(h) PROVE Recorded(g)'
  BY <1>13, TextFacts, SMTT(30) DEF SendMessage, Arrives
<1>14. ASSUME NEW h \in Handlers, SendAborted(h) PROVE Recorded(g)'
  BY <1>14, TextFacts, SMTT(30) DEF SendAborted
<1>15. ASSUME NEW h \in Handlers, SendFails(h) PROVE Recorded(g)'
  BY <1>15, TextFacts, SMTT(30) DEF SendFails, Arrives
<1>16. ASSUME NEW h \in Handlers, MarkUpdate(h) PROVE Recorded(g)'
  BY <1>16, TextFacts, SMTT(30) DEF MarkUpdate
<1>17. ASSUME NEW h \in Handlers, MarkFails(h) PROVE Recorded(g)'
  BY <1>17, TextFacts, SMTT(30) DEF MarkFails
<1>18. ASSUME NEW h \in Handlers, Finish(h) PROVE Recorded(g)'
  BY <1>18, TextFacts, SMTT(30) DEF Finish, Return
<1>19. ASSUME UNCHANGED vars PROVE Recorded(g)'
  BY <1>19, TextFacts, SMTT(30) DEF vars, queueVars
<1> QED
  BY <1>1, <1>2, <1>3, <1>4, <1>5, <1>6, <1>7, <1>8, <1>9, <1>10, <1>11, <1>12, <1>13,
       <1>14, <1>15, <1>16, <1>17, <1>18, <1>19 DEF Next, Step, FaultStep, QueueStep,
       Quiescent

\* What Telegram has, it keeps, and nobody forgets a refusal or an expiry.
ChatGrows ==
  /\ chat \subseteq chat' /\ refused \subseteq refused' /\ expired \subseteq expired'

\* The chat gets what a handler in deliverMessage has.
ChatMoves ==
  \/ chat' = chat
  \/ \E k \in Handlers : pc[k] = "send" /\ Arrives(k)

\* Which steps write the chat.
LEMMA ChatMovesStep == IInv /\ [Next]_vars => ChatMoves /\ ChatGrows
<1> SUFFICES ASSUME IInv, [Next]_vars PROVE ChatMoves /\ ChatGrows
  OBVIOUS
<1> USE DEF ChatMoves, ChatGrows, Goto, handlerVars, JobUntouched
<1>1. ASSUME NEW h \in Handlers, NEW u \in Updates, Fetch(h, u) PROVE ChatMoves /\ ChatGrows
  BY <1>1, SMTT(30) DEF Fetch, Take
<1>2. ASSUME NEW h \in Handlers, Outlive(h) /\ QueueStep PROVE ChatMoves /\ ChatGrows
  BY <1>2, SMTT(30) DEF Outlive, QueueStep
<1>3. ASSUME NEW h \in Handlers, Die(h) /\ QueueStep PROVE ChatMoves /\ ChatGrows
  BY <1>3, SMTT(30) DEF Die, QueueStep
<1>4. ASSUME NEW u \in Updates, Recover(u) /\ QueueStep PROVE ChatMoves /\ ChatGrows
  BY <1>4, SMTT(30) DEF Recover, QueueStep
<1>5. ASSUME NEW h \in Handlers, AppendUser(h) PROVE ChatMoves /\ ChatGrows
  BY <1>5, SMTT(30) DEF AppendUser
<1>6. ASSUME NEW h \in Handlers, AppendUserFails(h) PROVE ChatMoves /\ ChatGrows
  BY <1>6, SMTT(30) DEF AppendUserFails, PersistFailed
<1>7. ASSUME NEW h \in Handlers, FindAnswer(h) PROVE ChatMoves /\ ChatGrows
  BY <1>7, SMTT(30) DEF FindAnswer, RetryBlocked
<1>8. ASSUME NEW h \in Handlers, FindAnswerFails(h) PROVE ChatMoves /\ ChatGrows
  BY <1>8, SMTT(30) DEF FindAnswerFails, PersistFailed
<1>9. ASSUME NEW h \in Handlers, FindAnswerBlocked(h) PROVE ChatMoves /\ ChatGrows
  BY <1>9, SMTT(30) DEF FindAnswerBlocked, AnswerThrows, Throw
<1>10. ASSUME NEW h \in Handlers, WriteAnswer(h) PROVE ChatMoves /\ ChatGrows
  BY <1>10, SMTT(30) DEF WriteAnswer
<1>11. ASSUME NEW h \in Handlers, RecordAnswer(h) PROVE ChatMoves /\ ChatGrows
  BY <1>11, SMTT(30) DEF RecordAnswer
<1>12. ASSUME NEW h \in Handlers, RecordAnswerFails(h) PROVE ChatMoves /\ ChatGrows
  BY <1>12, SMTT(30) DEF RecordAnswerFails, AnswerThrows, Throw
<1>13. ASSUME NEW h \in Handlers, SendMessage(h) PROVE ChatMoves /\ ChatGrows
  BY <1>13, Zenon DEF SendMessage, Arrives
<1>14. ASSUME NEW h \in Handlers, SendAborted(h) PROVE ChatMoves /\ ChatGrows
  BY <1>14, SMTT(30) DEF SendAborted
<1>15. ASSUME NEW h \in Handlers, SendFails(h) PROVE ChatMoves /\ ChatGrows
  BY <1>15, Zenon DEF SendFails, Arrives
<1>16. ASSUME NEW h \in Handlers, MarkUpdate(h) PROVE ChatMoves /\ ChatGrows
  BY <1>16, SMTT(30) DEF MarkUpdate
<1>17. ASSUME NEW h \in Handlers, MarkFails(h) PROVE ChatMoves /\ ChatGrows
  BY <1>17, SMTT(30) DEF MarkFails
<1>18. ASSUME NEW h \in Handlers, Finish(h) PROVE ChatMoves /\ ChatGrows
  BY <1>18, SMTT(30) DEF Finish, Return
<1>19. ASSUME UNCHANGED vars PROVE ChatMoves /\ ChatGrows
  BY <1>19 DEF vars, queueVars
<1> QED
  BY <1>1, <1>2, <1>3, <1>4, <1>5, <1>6, <1>7, <1>8, <1>9, <1>10, <1>11, <1>12, <1>13,
       <1>14, <1>15, <1>16, <1>17, <1>18, <1>19 DEF Next, Step, FaultStep, QueueStep,
       Quiescent

\* A message was sent by someone who knew the history, which does not change.
LEMMA ChatStep == IInv /\ [Next]_vars => ChatInv'
<1> DEFINE Told(m) ==
      m.text.kind = "written" =>
        /\ first[m.update] # "none" /\ (m.notice <=> first[m.update] = "first")
        /\ m.update \notin expired => m.text = stored[m.update]
<1> SUFFICES ASSUME IInv, [Next]_vars, NEW m \in chat' PROVE Told(m)'
  BY DEF ChatInv
<1>1. ChatMoves /\ ChatGrows /\ StoreGrows
  BY ChatMovesStep, GrowsStep
<1>2. ASSUME Told(m), m.update \in Updates PROVE Told(m)'
  BY <1>1, <1>2, TextFacts DEF StoreGrows, ChatGrows
<1>3. CASE m \in chat
  <2>1. m.update \in Updates
    BY <1>3 DEF IInv, TypeOK
  <2>2. Told(m)
    BY <1>3 DEF IInv, ChatInv
  <2> QED BY <1>2, <2>1, <2>2
<1>4. ASSUME NEW h \in Handlers, pc[h] = "send",
             m = [update |-> on[h], text |-> text[h], notice |-> notice[h]]
      PROVE  Told(m)'
  <2>1. m.update = on[h] /\ m.text = text[h] /\ m.notice = notice[h]
    BY <1>4
  <2>2. Told(m)
    BY <1>4, <2>1 DEF IInv, DraftInv, RecordInv
  <2> QED BY <1>2, <2>1, <2>2, OnType DEF IInv
<1> QED BY <1>1, <1>3, <1>4 DEF ChatMoves, Arrives

\* An attempt says "delivered" of what arrived, and reports what it delivered or gave up.
LEMMA ReportStep == IInv /\ [Next]_vars => ReportInv'
<1> DEFINE Reported(k) ==
      /\ delivered[k] => MessagesFor(on[k]) # {}
      /\ pc[k] \in {"mark", "return"} /\ ~aborted[k] => delivered[k] \/ on[k] \in refused
<1> SUFFICES ASSUME IInv, [Next]_vars, NEW g \in Handlers PROVE Reported(g)'
  BY DEF ReportInv
<1>0. /\ Reported(g) /\ refused \subseteq refused'
      /\ \A u : MessagesFor(u) # {} => MessagesFor(u)' # {}
      /\ on \in [Handlers -> Updates] /\ pc \in [Handlers -> Stages]
      /\ delivered \in [Handlers -> BOOLEAN] /\ aborted \in [Handlers -> BOOLEAN]
  BY ChatMovesStep DEF IInv, ReportInv, ChatGrows, MessagesFor, TypeOK, QueueTypeOK
<1> USE <1>0
<1> USE DEF storeVars, draftVars, sendVars, handlerVars, Goto, JobUntouched, NoFault, Fault
<1>1. ASSUME NEW h \in Handlers, NEW u \in Updates, Fetch(h, u) PROVE Reported(g)'
  BY <1>1, SMTT(30) DEF Fetch, Take
<1>2. ASSUME NEW h \in Handlers, Outlive(h) /\ QueueStep PROVE Reported(g)'
  BY <1>2, SMTT(30) DEF Outlive, QueueStep
<1>3. ASSUME NEW h \in Handlers, Die(h) /\ QueueStep PROVE Reported(g)'
  BY <1>3, SMTT(30) DEF Die, QueueStep
<1>4. ASSUME NEW u \in Updates, Recover(u) /\ QueueStep PROVE Reported(g)'
  BY <1>4, SMTT(30) DEF Recover, QueueStep
<1>5. ASSUME NEW h \in Handlers, AppendUser(h) PROVE Reported(g)'
  BY <1>5, SMTT(30) DEF AppendUser
<1>6. ASSUME NEW h \in Handlers, AppendUserFails(h) PROVE Reported(g)'
  BY <1>6, SMTT(30) DEF AppendUserFails, PersistFailed
<1>7. ASSUME NEW h \in Handlers, FindAnswer(h) PROVE Reported(g)'
  BY <1>7, SMTT(30) DEF FindAnswer, RetryBlocked
<1>8. ASSUME NEW h \in Handlers, FindAnswerFails(h) PROVE Reported(g)'
  BY <1>8, SMTT(30) DEF FindAnswerFails, PersistFailed
<1>9. ASSUME NEW h \in Handlers, FindAnswerBlocked(h) PROVE Reported(g)'
  <2>1. Throw(h) /\ UNCHANGED delivered
    BY <1>9 DEF FindAnswerBlocked, AnswerThrows
  <2> QED BY <2>1, ThrowFacts DEF IInv
<1>10. ASSUME NEW h \in Handlers, WriteAnswer(h) PROVE Reported(g)'
  BY <1>10, SMTT(30) DEF WriteAnswer
<1>11. ASSUME NEW h \in Handlers, RecordAnswer(h) PROVE Reported(g)'
  BY <1>11, SMTT(30) DEF RecordAnswer
<1>12. ASSUME NEW h \in Handlers, RecordAnswerFails(h) PROVE Reported(g)'
  <2>1. Throw(h) /\ UNCHANGED delivered
    BY <1>12 DEF RecordAnswerFails, AnswerThrows
  <2> QED BY <2>1, ThrowFacts DEF IInv
<1>13. ASSUME NEW h \in Handlers, SendMessage(h) PROVE Reported(g)'
  <2>1. MessagesFor(on[h])' # {}
    BY <1>13 DEF SendMessage, Arrives, MessagesFor
  <2> QED BY <1>13, <2>1 DEF SendMessage
<1>14. ASSUME NEW h \in Handlers, SendAborted(h) PROVE Reported(g)'
  BY <1>14, SMTT(30) DEF SendAborted
<1>15. ASSUME NEW h \in Handlers, SendFails(h) PROVE Reported(g)'
  <2>1. UNCHANGED <<on, aborted, delivered>>
    BY <1>15 DEF SendFails
  <2>2. pc' = pc \/ (pc' = [pc EXCEPT ![h] = "mark"] /\ on[h] \in refused')
    BY <1>15 DEF SendFails
  <2> QED BY <2>1, <2>2
<1>16. ASSUME NEW h \in Handlers, MarkUpdate(h) PROVE Reported(g)'
  BY <1>16, SMTT(30) DEF MarkUpdate
<1>17. ASSUME NEW h \in Handlers, MarkFails(h) PROVE Reported(g)'
  BY <1>17, SMTT(30) DEF MarkFails
<1>18. ASSUME NEW h \in Handlers, Finish(h) PROVE Reported(g)'
  BY <1>18, SMTT(30) DEF Finish, Return
<1>19. ASSUME UNCHANGED vars PROVE Reported(g)'
  BY <1>19 DEF vars, queueVars
<1> QED
  BY <1>1, <1>2, <1>3, <1>4, <1>5, <1>6, <1>7, <1>8, <1>9, <1>10, <1>11, <1>12, <1>13,
       <1>14, <1>15, <1>16, <1>17, <1>18, <1>19 DEF Next, Step, FaultStep, QueueStep,
       Quiescent

\* Only an attempt that reports ends a job as completed, or an update as processed.
JobMoves ==
  \A u \in Updates : job'[u] = "completed" =>
    \/ job[u] = "completed"
    \/ \E k \in Handlers : pc[k] = "return" /\ ~aborted[k] /\ on[k] = u

StatusMoves ==
  \/ status' = status
  \/ \E k \in Handlers : status' = [status EXCEPT ![on[k]] =
                                      IF delivered[k] THEN "processed" ELSE "failed"]

\* Who completes a job.
LEMMA JobMovesStep == IInv /\ [Next]_vars => JobMoves
<1> SUFFICES ASSUME IInv, [Next]_vars PROVE JobMoves
  OBVIOUS
<1> USE DEF JobMoves, IInv, TypeOK, QueueTypeOK, handlerVars, Goto, JobUntouched
<1>1. ASSUME NEW h \in Handlers, NEW u \in Updates, Fetch(h, u) PROVE JobMoves
  BY <1>1 DEF Fetch, Take
<1>2. ASSUME NEW h \in Handlers, Outlive(h) /\ QueueStep PROVE JobMoves
  <2>1. on[h] \in Updates /\ Requeue(on[h])
    BY <1>2, OnType DEF Outlive
  <2>2. job'[on[h]] # "completed" /\ \A v \in Updates : v # on[h] => job'[v] = job[v]
    BY <2>1, RequeueFacts
  <2> QED BY <2>1, <2>2
<1>3. ASSUME NEW h \in Handlers, Die(h) /\ QueueStep PROVE JobMoves
  BY <1>3, SMTT(30) DEF Die, QueueStep
<1>4. ASSUME NEW u \in Updates, Recover(u) /\ QueueStep PROVE JobMoves
  <2>1. job'[u] # "completed" /\ \A v \in Updates : v # u => job'[v] = job[v]
    BY <1>4, RequeueFacts DEF Recover
  <2> QED BY <2>1
<1>5. ASSUME NEW h \in Handlers, AppendUser(h) PROVE JobMoves
  BY <1>5, SMTT(30) DEF AppendUser
<1>6. ASSUME NEW h \in Handlers, AppendUserFails(h) PROVE JobMoves
  BY <1>6, SMTT(30) DEF AppendUserFails, PersistFailed
<1>7. ASSUME NEW h \in Handlers, FindAnswer(h) PROVE JobMoves
  BY <1>7, SMTT(30) DEF FindAnswer, RetryBlocked
<1>8. ASSUME NEW h \in Handlers, FindAnswerFails(h) PROVE JobMoves
  BY <1>8, SMTT(30) DEF FindAnswerFails, PersistFailed
<1>9. ASSUME NEW h \in Handlers, FindAnswerBlocked(h) PROVE JobMoves
  <2>1. Throw(h)
    BY <1>9 DEF FindAnswerBlocked, AnswerThrows
  <2>2. on[h] \in Updates
    BY OnType DEF IInv
  <2>3. aborted[h] => job' = job
    BY <2>1, ThrowFacts DEF IInv
  <2>4. ~aborted[h] => job'[on[h]] # "completed"
    BY <2>1, ThrowFacts DEF IInv
  <2>5. \A v \in Updates : v # on[h] => job'[v] = job[v]
    BY <2>1, ThrowFacts DEF IInv
  <2> QED BY <2>2, <2>3, <2>4, <2>5
<1>10. ASSUME NEW h \in Handlers, WriteAnswer(h) PROVE JobMoves
  BY <1>10, SMTT(30) DEF WriteAnswer
<1>11. ASSUME NEW h \in Handlers, RecordAnswer(h) PROVE JobMoves
  BY <1>11, SMTT(30) DEF RecordAnswer
<1>12. ASSUME NEW h \in Handlers, RecordAnswerFails(h) PROVE JobMoves
  <2>1. Throw(h)
    BY <1>12 DEF RecordAnswerFails, AnswerThrows
  <2>2. on[h] \in Updates
    BY OnType DEF IInv
  <2>3. aborted[h] => job' = job
    BY <2>1, ThrowFacts DEF IInv
  <2>4. ~aborted[h] => job'[on[h]] # "completed"
    BY <2>1, ThrowFacts DEF IInv
  <2>5. \A v \in Updates : v # on[h] => job'[v] = job[v]
    BY <2>1, ThrowFacts DEF IInv
  <2> QED BY <2>2, <2>3, <2>4, <2>5
<1>13. ASSUME NEW h \in Handlers, SendMessage(h) PROVE JobMoves
  BY <1>13, SMTT(30) DEF SendMessage, Arrives
<1>14. ASSUME NEW h \in Handlers, SendAborted(h) PROVE JobMoves
  BY <1>14, SMTT(30) DEF SendAborted
<1>15. ASSUME NEW h \in Handlers, SendFails(h) PROVE JobMoves
  BY <1>15, SMTT(30) DEF SendFails, Arrives
<1>16. ASSUME NEW h \in Handlers, MarkUpdate(h) PROVE JobMoves
  BY <1>16, SMTT(30) DEF MarkUpdate
<1>17. ASSUME NEW h \in Handlers, MarkFails(h) PROVE JobMoves
  BY <1>17, SMTT(30) DEF MarkFails
<1>18. ASSUME NEW h \in Handlers, Finish(h) PROVE JobMoves
  BY <1>18 DEF Finish, Return
<1>19. ASSUME UNCHANGED vars PROVE JobMoves
  BY <1>19 DEF vars, queueVars
<1> QED
  BY <1>1, <1>2, <1>3, <1>4, <1>5, <1>6, <1>7, <1>8, <1>9, <1>10, <1>11, <1>12, <1>13,
       <1>14, <1>15, <1>16, <1>17, <1>18, <1>19 DEF Next, Step, FaultStep, QueueStep,
       Quiescent

\* Who marks an update.
LEMMA StatusMovesStep == IInv /\ [Next]_vars => StatusMoves
<1> SUFFICES ASSUME IInv, [Next]_vars PROVE StatusMoves
  OBVIOUS
<1> USE DEF StatusMoves, Fetch, QueueStep, PersistFailed, AnswerThrows
<1>1. ASSUME NEW h \in Handlers, NEW u \in Updates, Fetch(h, u) PROVE StatusMoves
  BY <1>1, SMTT(30) DEF Fetch, Take
<1>2. ASSUME NEW h \in Handlers, Outlive(h) /\ QueueStep PROVE StatusMoves
  BY <1>2, SMTT(30) DEF Outlive, QueueStep
<1>3. ASSUME NEW h \in Handlers, Die(h) /\ QueueStep PROVE StatusMoves
  BY <1>3, SMTT(30) DEF Die, QueueStep
<1>4. ASSUME NEW u \in Updates, Recover(u) /\ QueueStep PROVE StatusMoves
  BY <1>4, SMTT(30) DEF Recover, QueueStep
<1>5. ASSUME NEW h \in Handlers, AppendUser(h) PROVE StatusMoves
  BY <1>5, SMTT(30) DEF AppendUser
<1>6. ASSUME NEW h \in Handlers, AppendUserFails(h) PROVE StatusMoves
  BY <1>6, SMTT(30) DEF AppendUserFails, PersistFailed
<1>7. ASSUME NEW h \in Handlers, FindAnswer(h) PROVE StatusMoves
  BY <1>7, SMTT(30) DEF FindAnswer, RetryBlocked
<1>8. ASSUME NEW h \in Handlers, FindAnswerFails(h) PROVE StatusMoves
  BY <1>8, SMTT(30) DEF FindAnswerFails, PersistFailed
<1>9. ASSUME NEW h \in Handlers, FindAnswerBlocked(h) PROVE StatusMoves
  BY <1>9, SMTT(30) DEF FindAnswerBlocked, AnswerThrows, Throw
<1>10. ASSUME NEW h \in Handlers, WriteAnswer(h) PROVE StatusMoves
  BY <1>10, SMTT(30) DEF WriteAnswer
<1>11. ASSUME NEW h \in Handlers, RecordAnswer(h) PROVE StatusMoves
  BY <1>11, SMTT(30) DEF RecordAnswer
<1>12. ASSUME NEW h \in Handlers, RecordAnswerFails(h) PROVE StatusMoves
  BY <1>12, SMTT(30) DEF RecordAnswerFails, AnswerThrows, Throw
<1>13. ASSUME NEW h \in Handlers, SendMessage(h) PROVE StatusMoves
  BY <1>13, SMTT(30) DEF SendMessage, Arrives
<1>14. ASSUME NEW h \in Handlers, SendAborted(h) PROVE StatusMoves
  BY <1>14, SMTT(30) DEF SendAborted
<1>15. ASSUME NEW h \in Handlers, SendFails(h) PROVE StatusMoves
  BY <1>15, SMTT(30) DEF SendFails, Arrives
<1>16. ASSUME NEW h \in Handlers, MarkUpdate(h) PROVE StatusMoves
  BY <1>16, Zenon DEF MarkUpdate
<1>17. ASSUME NEW h \in Handlers, MarkFails(h) PROVE StatusMoves
  BY <1>17, SMTT(30) DEF MarkFails
<1>18. ASSUME NEW h \in Handlers, Finish(h) PROVE StatusMoves
  BY <1>18, SMTT(30) DEF Finish, Return
<1>19. ASSUME UNCHANGED vars PROVE StatusMoves
  BY <1>19 DEF vars, queueVars
<1> QED
  BY <1>1, <1>2, <1>3, <1>4, <1>5, <1>6, <1>7, <1>8, <1>9, <1>10, <1>11, <1>12, <1>13,
       <1>14, <1>15, <1>16, <1>17, <1>18, <1>19 DEF Next, Step, FaultStep, QueueStep,
       Quiescent

\* So nothing is done that was not delivered or refused.
LEMMA DoneStep == IInv /\ [Next]_vars => DoneIsDelivered'
<1> SUFFICES ASSUME IInv, [Next]_vars PROVE DoneIsDelivered'
  OBVIOUS
<1>1. \A u : MessagesFor(u) # {} => MessagesFor(u)' # {}
  BY ChatMovesStep DEF ChatGrows, MessagesFor
<1>2. CompletedIsAnswered'
  <2> SUFFICES ASSUME NEW u \in Updates, job'[u] = "completed"
               PROVE  MessagesFor(u)' # {} \/ u \in refused'
    BY DEF CompletedIsAnswered
  <2>1. MessagesFor(u) # {} \/ u \in refused
    BY JobMovesStep DEF JobMoves, IInv, DoneIsDelivered, CompletedIsAnswered, ReportInv
  <2> QED BY <1>1, <2>1, ChatMovesStep DEF ChatGrows
<1>3. ProcessedIsDelivered'
  <2> SUFFICES ASSUME NEW u \in Updates, status'[u] = "processed"
               PROVE  MessagesFor(u)' # {}
    BY DEF ProcessedIsDelivered
  <2>1. status[u] = "processed" => MessagesFor(u) # {}
    BY DEF IInv, DoneIsDelivered, ProcessedIsDelivered
  <2>2. CASE status' = status
    BY <1>1, <2>1, <2>2
  <2>3. ASSUME NEW k \in Handlers, status' = [status EXCEPT ![on[k]] =
                                     IF delivered[k] THEN "processed" ELSE "failed"]
        PROVE  MessagesFor(u)' # {}
    <3>1. delivered[k] => MessagesFor(on[k]) # {}
      BY DEF IInv, ReportInv
    <3>2. status \in [Updates -> {"received", "processed", "failed"}] /\ on[k] \in Updates
      BY OnType DEF IInv, TypeOK
    <3>3. CASE u = on[k]
      BY <1>1, <2>3, <3>1, <3>2, <3>3
    <3>4. CASE u # on[k]
      BY <1>1, <2>1, <2>3, <3>2, <3>4
    <3> QED BY <3>3, <3>4
  <2> QED BY <2>2, <2>3, StatusMovesStep DEF StatusMoves
<1> QED BY <1>2, <1>3 DEF DoneIsDelivered

-----------------------------------------------------------------------------
(* Results.                                                                *)

LEMMA Inductive == IInv /\ [Next]_vars => IInv'
BY TypeStep, StoreStep, FirstStep, DraftStep, SoleStep, RecordStep, ChatStep, ReportStep,
   DoneStep DEF IInv

\* The parts of the argument hold in every state.
THEOREM Invariance == Spec => []IInv
<1> QED BY InitInv, Inductive, PTL DEF Spec

\* Every variable keeps its type.
THEOREM TypeCorrect == Spec => []TypeOK
<1>1. IInv => TypeOK
  BY DEF IInv
<1> QED BY <1>1, Invariance, PTL

\* However attempts overlap, fail and repeat, the history has a message once and
\* at most one answer to it, the first update of a user is one, every answer sent
\* to it carries the notice, and unless an attempt outlived its job what was sent
\* is what was recorded.
THEOREM HistoryKeptThm == Spec => []HistoryKept
<1>1. ASSUME IInv PROVE HistoryOnce
  BY <1>1, SMT DEF IInv, StoreInv, HistoryOnce
<1>2. ASSUME IInv PROVE NoticeKept
  BY <1>2 DEF IInv, ChatInv, FirstInv, NoticeKept
<1>3. ASSUME IInv PROVE SentIsRecorded
  BY <1>3 DEF IInv, ChatInv, SentIsRecorded
<1>4. IInv => HistoryKept
  BY <1>1, <1>2, <1>3 DEF HistoryKept
<1> QED BY <1>4, Invariance, PTL

\* Neither a completed job nor a processed update is one nobody answered, but for
\* the jobs whose delivery was given up.
THEOREM DoneIsDeliveredThm == Spec => []DoneIsDelivered
<1>1. IInv => DoneIsDelivered
  BY DEF IInv
<1> QED BY <1>1, Invariance, PTL
=============================================================================
