------------------------------ MODULE AnswerJob ------------------------------
(***************************************************************************)
(* The life of a telegram-answer job, from the queue to the chat: the      *)
(* worker of main.ts, processAgentJob and createAgentAnswer of             *)
(* agentWorker.ts, the conversation repository, and deliverMessage.        *)
(*                                                                         *)
(* Each attempt stores the user's message, looks for an answer an earlier  *)
(* attempt stored, writes and stores one otherwise, sends it and marks the *)
(* update.  Attempts of a job may overlap: see JobQueue.                   *)
(***************************************************************************)
EXTENDS JobQueue, FiniteSets

CONSTANTS
  Users,
  UserOf,        \* sender of an update; each user writes in one chat
  Secrets,       \* updates whose text held a wallet secret
  Legacy,        \* updates with an assistant reservation older than message_id
  SendLimit      \* TELEGRAM_DELIVERY_MAX_ATTEMPTS

ASSUME UpdateAssumption ==
  /\ UserOf \in [Updates -> Users]
  /\ Secrets \subseteq Updates
  /\ Legacy \subseteq Updates \ Secrets
  /\ SendLimit \in Nat \ {0}

\* A text: the answer an attempt wrote, or one of the fixed messages.
Text == [kind : {"written"}, by : 0..RetryLimit]
          \cup [kind : {"unavailable", "warning"}, by : {0}]
Fixed(kind) == [kind |-> kind, by |-> 0]
NoText == Fixed("none")
Reserved == Fixed("reserved")

VARIABLES
  known,      \* telegram_users
  first,      \* first_interaction of the user reservation, or "none"
  stored,     \* the assistant's answer linked to an update
  messages,   \* conversation_messages stored for an update, by role
  status,     \* telegram_updates.status
  chat,       \* messages Telegram accepted
  text,       \* the text a handler is going to send
  notice,     \* firstInteraction as it knows it
  tries,      \* its calls of sendMessage that failed
  delivered,  \* its outcome of deliverMessage
  refused     \* history: updates whose delivery was given up by deliverMessage

storeVars == <<known, first, stored, messages>>
draftVars == <<text, notice>>
sendVars == <<tries, delivered>>
vars == <<queueVars, known, first, stored, messages, status, chat, text, notice, tries,
          delivered, refused>>

Stages == {"idle", "append", "find", "write", "record", "send", "mark", "return"}

TypeOK ==
  /\ QueueTypeOK
  /\ pc \in [Handlers -> Stages]
  /\ known \in SUBSET Users
  /\ first \in [Updates -> {"none", "first", "later"}]
  /\ stored \in [Updates -> Text \cup {NoText, Reserved}]
  /\ messages \in [Updates -> [user : Nat, assistant : Nat]]
  /\ status \in [Updates -> {"received", "processed", "failed"}]
  /\ chat \in SUBSET [update : Updates, text : Text, notice : BOOLEAN]
  /\ text \in [Handlers -> Text \cup {NoText}]
  /\ notice \in [Handlers -> BOOLEAN]
  /\ tries \in [Handlers -> 0..(SendLimit - 1)]
  /\ delivered \in [Handlers -> BOOLEAN]
  /\ refused \in SUBSET Updates

\* Jobs as admission leaves them.  A legacy update was answered, but not sent,
\* by an older release, which reserved messages without linking them.
Init ==
  /\ QueueInit
  /\ known = {UserOf[u] : u \in Legacy}
  /\ first = [u \in Updates |-> IF u \in Legacy THEN "later" ELSE "none"]
  /\ stored = [u \in Updates |-> IF u \in Legacy THEN Reserved ELSE NoText]
  /\ messages = [u \in Updates |-> IF u \in Legacy THEN [user |-> 1, assistant |-> 1]
                                                   ELSE [user |-> 0, assistant |-> 0]]
  /\ status = [u \in Updates |-> "received"]
  /\ chat = {}
  /\ text = [h \in Handlers |-> NoText]
  /\ notice = [h \in Handlers |-> FALSE]
  /\ tries = [h \in Handlers |-> 0]
  /\ delivered = [h \in Handlers |-> FALSE]
  /\ refused = {}

-----------------------------------------------------------------------------
\* A job reaches a handler; a wallet secret only ever gets the fixed warning.
Fetch(h, u) ==
  /\ Take(h, u, IF u \in Secrets THEN "send" ELSE "append")
  /\ text' = [text EXCEPT ![h] = IF u \in Secrets THEN Fixed("warning") ELSE NoText]
  /\ notice' = [notice EXCEPT ![h] = FALSE]
  /\ tries' = [tries EXCEPT ![h] = 0]
  /\ delivered' = [delivered EXCEPT ![h] = FALSE]
  /\ UNCHANGED <<storeVars, status, chat, refused>>

\* The queue acts behind the handlers' back.
QueueStep ==
  /\ \/ \E h \in Handlers : Outlive(h) \/ Die(h)
     \/ \E u \in Updates : Recover(u)
  /\ UNCHANGED <<storeVars, status, chat, draftVars, sendVars, refused>>

-----------------------------------------------------------------------------
(* createAgentAnswer.                                                      *)

\* append(user): one transaction, idempotent by the update's reservation.
StoreUser(u) ==
  /\ known' = known \cup {UserOf[u]}
  /\ IF first[u] = "none"
     THEN /\ first' = [first EXCEPT ![u] = IF UserOf[u] \in known THEN "later" ELSE "first"]
          /\ messages' = [messages EXCEPT ![u].user = @ + 1]
     ELSE UNCHANGED <<first, messages>>
  /\ UNCHANGED stored

AppendUser(h) ==
  /\ pc[h] = "append"
  /\ StoreUser(on[h])
  /\ notice' = [notice EXCEPT ![h] = first'[on[h]] = "first"]
  /\ Goto(h, "find") /\ NoFault /\ JobUntouched
  /\ UNCHANGED <<status, chat, text, sendVars, refused>>

\* persist throws: answerQuestion answers anyway, without notice, and nothing
\* is recorded for the assistant.
PersistFailed(h) ==
  /\ Fault
  /\ text' = [text EXCEPT ![h] = Fixed("unavailable")]
  /\ notice' = [notice EXCEPT ![h] = FALSE]
  /\ Goto(h, "send") /\ JobUntouched
  /\ UNCHANGED <<status, chat, sendVars, refused>>

\* append(user) fails, before or after its COMMIT took effect.
AppendUserFails(h) ==
  /\ pc[h] = "append"
  /\ StoreUser(on[h]) \/ UNCHANGED storeVars
  /\ PersistFailed(h)

\* The answer of an older release is in the history, but nothing links it.
RetryBlocked(u) == stored[u] = Reserved

\* Broken: the stored answer is never looked up.
FindAnswer_AlwaysWrites(h) ==
  /\ pc[h] = "find"
  /\ ~RetryBlocked(on[h])
  /\ Goto(h, "write") /\ NoFault /\ JobUntouched
  /\ UNCHANGED <<storeVars, status, chat, draftVars, sendVars, refused>>

\* findForUpdate(assistant): an answer stored by an earlier attempt is reused.
FindAnswer(h) ==
  LET found == stored[on[h]]
  IN /\ pc[h] = "find"
     /\ ~RetryBlocked(on[h])
     /\ Goto(h, IF found.kind = "written" THEN "send" ELSE "write")
     /\ text' = [text EXCEPT ![h] = found]
     /\ NoFault /\ JobUntouched
     /\ UNCHANGED <<storeVars, status, chat, notice, sendVars, refused>>

FindAnswerFails(h) ==
  /\ pc[h] = "find"
  /\ PersistFailed(h)
  /\ UNCHANGED storeVars

\* Broken: the error is caught and logged, as that of the status update is.
AnswerThrows_Swallowed(h) ==
  /\ Goto(h, "return") /\ JobUntouched
  /\ UNCHANGED <<status, chat, draftVars, sendVars, refused>>

\* createAgentAnswer throws, and with it the attempt.
AnswerThrows(h) ==
  /\ Throw(h)
  /\ UNCHANGED <<status, chat, draftVars, sendVars, refused>>

\* Broken: the attempt waits until the operator has repaired the update.
FindAnswerBlocked_Waits(h) ==
  /\ pc[h] = "find"
  /\ RetryBlocked(on[h])
  /\ UNCHANGED vars

\* "operator repair is required": every attempt of the update throws here.
FindAnswerBlocked(h) ==
  /\ pc[h] = "find"
  /\ RetryBlocked(on[h])
  /\ AnswerThrows(h) /\ NoFault
  /\ UNCHANGED storeVars

\* retrieve, discover, complete and verify: always ends with some text.
WriteAnswer(h) ==
  /\ pc[h] = "write"
  /\ text' = [text EXCEPT ![h] = [kind |-> "written", by |-> attempt[h]]]
  /\ Goto(h, "record") /\ NoFault /\ JobUntouched
  /\ UNCHANGED <<storeVars, status, chat, notice, sendVars, refused>>

\* append(assistant): the first answer recorded for an update stays.
StoreAnswer(u, answer) ==
  /\ known' = known \cup {UserOf[u]}
  /\ IF stored[u] = NoText
     THEN /\ stored' = [stored EXCEPT ![u] = answer]
          /\ messages' = [messages EXCEPT ![u].assistant = @ + 1]
     ELSE UNCHANGED <<stored, messages>>
  /\ UNCHANGED first

RecordAnswer(h) ==
  /\ pc[h] = "record"
  /\ StoreAnswer(on[h], text[h])
  /\ Goto(h, "send") /\ NoFault /\ JobUntouched
  /\ UNCHANGED <<status, chat, draftVars, sendVars, refused>>

\* append(assistant) fails, before or after its COMMIT took effect.
RecordAnswerFails(h) ==
  /\ pc[h] = "record"
  /\ StoreAnswer(on[h], text[h]) \/ UNCHANGED storeVars
  /\ AnswerThrows(h) /\ Fault

-----------------------------------------------------------------------------
(* deliverMessage, the update's status, and the end of the attempt.        *)

Arrives(h) ==
  chat' = chat \cup {[update |-> on[h], text |-> text[h], notice |-> notice[h]]}

SendMessage(h) ==
  /\ pc[h] = "send" /\ ~aborted[h]
  /\ Arrives(h)
  /\ delivered' = [delivered EXCEPT ![h] = TRUE]
  /\ Goto(h, "mark") /\ NoFault /\ JobUntouched
  /\ UNCHANGED <<storeVars, status, draftVars, tries, refused>>

SendAborted(h) ==
  /\ pc[h] = "send" /\ aborted[h]
  /\ Goto(h, "mark") /\ NoFault /\ JobUntouched
  /\ UNCHANGED <<storeVars, status, chat, draftVars, sendVars, refused>>

\* sendMessage throws: a permanent refusal, or a failure after which Telegram
\* may have the message all the same and which is repeated unless it is the last.
SendFails(h) ==
  /\ Fault
  /\ pc[h] = "send" /\ ~aborted[h]
  /\ \/ /\ tries[h] + 1 < SendLimit
        /\ Arrives(h) \/ UNCHANGED chat
        /\ tries' = [tries EXCEPT ![h] = @ + 1]
        /\ UNCHANGED <<pc, refused>>
     \/ /\ (tries[h] + 1 = SendLimit /\ Arrives(h)) \/ UNCHANGED chat
        /\ refused' = refused \cup {on[h]}
        /\ Goto(h, "mark")
        /\ UNCHANGED tries
  /\ JobUntouched
  /\ UNCHANGED <<storeVars, status, draftVars, delivered>>

\* Unconditional UPDATE telegram_updates, also by an aborted handler.
MarkUpdate(h) ==
  /\ pc[h] = "mark"
  /\ status' = [status EXCEPT ![on[h]] = IF delivered[h] THEN "processed" ELSE "failed"]
  /\ Goto(h, "return") /\ NoFault /\ JobUntouched
  /\ UNCHANGED <<storeVars, chat, draftVars, sendVars, refused>>

\* Its failure is logged and swallowed.
MarkFails(h) ==
  /\ Fault
  /\ pc[h] = "mark"
  /\ Goto(h, "return") /\ JobUntouched
  /\ UNCHANGED <<storeVars, status, chat, draftVars, sendVars, refused>>

Finish(h) ==
  /\ pc[h] = "return"
  /\ Return(h)
  /\ UNCHANGED <<storeVars, status, chat, draftVars, sendVars, refused>>

-----------------------------------------------------------------------------
Quiescent == AtRest /\ UNCHANGED vars

Step(h) ==
  \/ AppendUser(h) \/ FindAnswer(h) \/ FindAnswerBlocked(h) \/ WriteAnswer(h)
  \/ RecordAnswer(h) \/ SendMessage(h) \/ SendAborted(h) \/ MarkUpdate(h) \/ Finish(h)

FaultStep(h) ==
  \/ AppendUserFails(h) \/ FindAnswerFails(h) \/ RecordAnswerFails(h)
  \/ SendFails(h) \/ MarkFails(h)

Next ==
  \/ \E h \in Handlers :
       \/ \E u \in Updates : Fetch(h, u)
       \/ Step(h)
       \/ FaultStep(h)
  \/ QueueStep
  \/ Quiescent

Spec == Init /\ [][Next]_vars

\* Awaited calls return, the queue's expiry monitor runs and a worker polls.
Fairness ==
  /\ \A h \in Handlers : WF_vars(Step(h))
  /\ \A u \in Updates : WF_vars(Recover(u) /\ QueueStep)
  /\ \A u \in Updates : WF_vars(\E h \in Handlers : Fetch(h, u))

FairSpec == Spec /\ Fairness

-----------------------------------------------------------------------------
MessagesFor(u) == {m \in chat : m.update = u}

\* However often an update is tried, and with an old attempt still running, the
\* history holds its message once, at most one answer to it, and never the
\* answer without the message.
HistoryOnce ==
  \A u \in Updates :
    /\ messages[u].user <= 1
    /\ messages[u].assistant <= messages[u].user
    /\ messages[u].assistant = (IF stored[u] = NoText THEN 0 ELSE 1)

\* Every answer written for the update that made its sender known carries
\* the retention notice, whichever attempt sends it, and no answer to
\* another update of that user does.
NoticeKept ==
  /\ \A m \in chat : m.text.kind = "written" => (m.notice <=> first[m.update] = "first")
  /\ \A u, v \in Updates :
       first[u] = "first" /\ first[v] = "first" /\ UserOf[u] = UserOf[v] => u = v

\* Unless an attempt outlived its job, the answer a user reads is the one the
\* history has: a retry repeats the stored answer and never writes another.
SentIsRecorded ==
  \A m \in chat :
    m.text.kind = "written" /\ m.update \notin expired => m.text = stored[m.update]

\* What users read and what the history has: one message, one answer, the
\* notice with the first, however attempts overlap and repeat.
HistoryKept == HistoryOnce /\ NoticeKept /\ SentIsRecorded

\* A job leaves the queue as completed only when its user got a message or
\* Telegram refused it: an expired attempt that sends nothing costs a retry.
CompletedIsAnswered ==
  \A u \in Updates : job[u] = "completed" => MessagesFor(u) # {} \/ u \in refused

\* 'processed' is never written for an update that got no message, although
\* attempts overlap and the last one to write decides.
ProcessedIsDelivered ==
  \A u \in Updates : status[u] = "processed" => MessagesFor(u) # {}

\* Neither the queue nor the status says "done" of an update nobody answered.
DoneIsDelivered == CompletedIsAnswered /\ ProcessedIsDelivered

\* Every job ends and no handler hangs: crashes and expiries are recovered, and
\* an update that can never be answered is not tried, or waited for, for ever.
ComesToRest == <>[]AtRest

\* The first interaction shows the retention notice.
FirstInteractionShowsNotice ==
  \A u \in Updates :
    first[u] = "first" /\ job[u] = "completed" /\ MessagesFor(u) # {} =>
      \E m \in MessagesFor(u) : m.notice
=============================================================================
