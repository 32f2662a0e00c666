------------------------------- MODULE Polling -------------------------------
(***************************************************************************)
(* The long-polling ingress: runPolling of pollingRuntime.ts with its      *)
(* deliverMessage, the offset file of runtimeState.ts and the rate limiter *)
(* of accessControl.ts.                                                    *)
(*                                                                         *)
(* Telegram keeps an update until a getUpdates with a higher offset        *)
(* confirms it.  The poller takes the updates in order: it answers texts   *)
(* itself, hands private documents to the admission transaction, and       *)
(* passes over the rest.  Its offset is in memory first and then in        *)
(* a file; a failed call ends the batch and polls again from the offset.   *)
(***************************************************************************)
EXTENDS Integers

CONSTANTS
  Last,          \* updates are numbered 1..Last
  KindOf,        \* what an update holds
  Chats, ChatOf,
  LIMIT,         \* limit of FixedWindowRateLimiter
  WINDOW,        \* its windowMs, in clock ticks
  SendLimit,     \* TELEGRAM_DELIVERY_MAX_ATTEMPTS
  MaxClock,      \* bound on the clock
  MaxFaults,     \* bound on failing calls and writes
  MaxRestarts,   \* bound on crashes and orderly stops
  NoWindow       \* no entry in the limiter's map

Updates == 1..Last
Kinds == {"text", "document", "invalid", "other"}  \* invalid: a document that does not parse
Window == [start : Nat, count : 1..LIMIT]

ASSUME UpdateAssumption ==
  /\ Last \in Nat
  /\ KindOf \in [Updates -> Kinds]
  /\ ChatOf \in [Updates -> Chats]

ASSUME LimitAssumption ==
  /\ LIMIT \in Nat \ {0}
  /\ WINDOW \in Nat \ {0}
  /\ SendLimit \in Nat \ {0}
  /\ MaxClock \in Nat /\ MaxFaults \in Nat /\ MaxRestarts \in Nat
  /\ NoWindow \notin Window

VARIABLES
  arrived,    \* the last update users have sent
  confirmed,  \* Telegram has forgotten the updates below it
  file,       \* telegramOffset in the state file
  offset,     \* the poller's offset
  next, last, \* the update it handles, and the last one of its batch
  approval,   \* pendingPrivateApproval, 0 for none
  limiter,    \* the limiter's window of each chat
  tries,      \* failed sendMessage calls of the current delivery
  pc,
  stopping,   \* options.signal
  clock, faults, restarts,
  decided,    \* history: updates whose handling came to an end
  sent,       \* history: messages Telegram took for an update, in this run
  charged,    \* history: what an update took from the limiter, in this run
  unsure      \* history: updates with a send of unknown outcome, in this run

envVars == <<arrived, clock>>
telegramVars == <<arrived, confirmed>>
batchVars == <<next, last>>
runVars == <<stopping, restarts>>
historyVars == <<sent, charged, unsure>>
vars == <<arrived, confirmed, file, offset, next, last, approval, limiter, tries, pc,
          stopping, clock, faults, restarts, decided, sent, charged, unsure>>

Stages == {"down", "poll", "next", "answer", "send", "sending", "enqueue", "settle"}

TypeOK ==
  /\ arrived \in 0..Last
  /\ confirmed \in 0..(Last + 1)
  /\ file \in 0..(Last + 1)
  /\ offset \in 0..(Last + 1)
  /\ next \in 0..(Last + 1)
  /\ last \in 0..Last
  /\ approval \in 0..Last
  /\ limiter \in [Chats -> Window \cup {NoWindow}]
  /\ tries \in 0..(SendLimit - 1)
  /\ pc \in Stages
  /\ stopping \in BOOLEAN
  /\ clock \in 0..MaxClock
  /\ faults \in 0..MaxFaults
  /\ restarts \in 0..MaxRestarts
  /\ decided \in SUBSET Updates
  /\ sent \in [Updates -> Nat]
  /\ charged \in [Updates -> Nat]
  /\ unsure \in SUBSET Updates

Nothing == [u \in Updates |-> 0]

Init ==
  /\ arrived = 0 /\ confirmed = 0 /\ file = 0 /\ offset = 0
  /\ next = 0 /\ last = 0 /\ approval = 0
  /\ limiter = [c \in Chats |-> NoWindow]
  /\ tries = 0
  /\ pc = "poll" /\ stopping = FALSE
  /\ clock = 0 /\ faults = 0 /\ restarts = 0
  /\ decided = {}
  /\ sent = Nothing /\ charged = Nothing /\ unsure = {}

Later(a, b) == IF a > b THEN a ELSE b
Fault == faults < MaxFaults /\ faults' = faults + 1
NoFault == UNCHANGED faults
Decide == decided' = decided \cup {next}

-----------------------------------------------------------------------------
(* Telegram and the clock.                                                 *)

Arrive ==
  /\ arrived < Last
  /\ arrived' = arrived + 1
  /\ UNCHANGED <<confirmed, file, offset, batchVars, approval, limiter, tries, pc, runVars,
                 clock, faults, decided, historyVars>>

Tick ==
  /\ clock < MaxClock
  /\ clock' = clock + 1
  /\ UNCHANGED <<telegramVars, file, offset, batchVars, approval, limiter, tries, pc, runVars,
                 faults, decided, historyVars>>

-----------------------------------------------------------------------------
(* A batch.                                                                *)

\* getUpdates confirms what is below the offset and returns the rest.
GetUpdates ==
  /\ pc = "poll" /\ ~stopping
  /\ confirmed' = Later(confirmed, offset)
  /\ next' = Later(1, confirmed') /\ last' = arrived
  /\ pc' = "next"
  /\ UNCHANGED <<arrived, file, offset, approval, limiter, tries, runVars, clock, faults,
                 decided, historyVars>>

\* It throws, before or after Telegram saw the offset; logged, and tried again.
GetUpdatesFails ==
  /\ Fault
  /\ pc = "poll" /\ ~stopping
  /\ confirmed' \in {confirmed, Later(confirmed, offset)}
  /\ UNCHANGED <<arrived, file, offset, batchVars, approval, limiter, tries, pc, runVars, clock,
                 decided, historyVars>>

\* The loop ends with the batch, or when the signal is seen between updates.
EndBatch ==
  /\ pc = "next"
  /\ stopping \/ next > last
  /\ pc' = "poll"
  /\ UNCHANGED <<telegramVars, file, offset, batchVars, approval, limiter, tries, runVars, clock,
                 faults, decided, historyVars>>

Has(kinds) == pc = "next" /\ ~stopping /\ next <= last /\ KindOf[next] \in kinds

\* Broken: memory follows the file, so a write that fails loses both.
Advance_FileFirst(kept) ==
  \/ /\ offset' = Later(offset, next + 1)
     /\ file' = offset'
     /\ next' = next + 1 /\ pc' = "next"
     /\ approval' = IF KindOf[next] \in {"document", "invalid"} THEN 0 ELSE approval
     /\ NoFault /\ UNCHANGED last
  \/ /\ Fault
     /\ UNCHANGED <<offset, file, next, last>>
     /\ pc' = "poll"
     /\ approval' = kept

\* offset = max(offset, updateId + 1), then writeTelegramOffset: a file renamed
\* into place.  It may throw before the rename or after it, and then the
\* batch ends with the offset advanced in memory.
Advance(kept) ==
  /\ offset' = Later(offset, next + 1)
  /\ \/ /\ file' = offset'
        /\ next' = next + 1 /\ pc' = "next"
        /\ approval' = IF KindOf[next] \in {"document", "invalid"} THEN 0 ELSE approval
        /\ NoFault /\ UNCHANGED last
     \/ /\ Fault
        /\ file' \in {file, offset'}
        /\ pc' = "poll"
        /\ approval' = kept
        /\ UNCHANGED batchVars

\* Broken: what is not for the bot is passed over, but never confirmed.
Skip_NoOffset ==
  /\ Has({"invalid", "other"})
  /\ Decide
  /\ next' = next + 1
  /\ UNCHANGED <<telegramVars, file, offset, last, approval, limiter, tries, pc, runVars, clock,
                 faults, historyVars>>

\* Nothing the bot can answer.
Skip ==
  /\ Has({"invalid", "other"})
  /\ Decide
  /\ Advance(IF KindOf[next] = "invalid" THEN 0 ELSE approval)
  /\ UNCHANGED <<telegramVars, limiter, tries, runVars, clock, historyVars>>

-----------------------------------------------------------------------------
(* FixedWindowRateLimiter.                                                 *)

Reopens(w) == w # NoWindow => clock - w.start >= WINDOW

HasRoom(w) == ~Reopens(w) => w.count < LIMIT

Charged(w) ==
  IF Reopens(w) THEN [start |-> clock, count |-> 1] ELSE [w EXCEPT !.count = @ + 1]

Approved == KindOf[next] = "document" /\ approval = next

\* A text, or a document without a pending approval, takes from its chat.
Allow ==
  /\ Has({"text", "document"})
  /\ IF Approved
     THEN UNCHANGED <<limiter, charged>>
     ELSE /\ HasRoom(limiter[ChatOf[next]])
          /\ limiter' = [limiter EXCEPT ![ChatOf[next]] = Charged(@)]
          /\ charged' = [charged EXCEPT ![next] = @ + 1]
  /\ pc' = IF KindOf[next] = "text" THEN "answer" ELSE "enqueue"
  /\ UNCHANGED <<telegramVars, file, offset, batchVars, approval, tries, runVars, clock, faults,
                 decided, sent, unsure>>

RateLimited ==
  /\ Has({"text", "document"})
  /\ ~Approved /\ ~HasRoom(limiter[ChatOf[next]])
  /\ Decide
  /\ Advance(IF KindOf[next] = "document" THEN 0 ELSE approval)
  /\ UNCHANGED <<telegramVars, limiter, tries, runVars, clock, historyVars>>

-----------------------------------------------------------------------------
(* Texts: options.answer and deliverMessage.                               *)

Answer ==
  /\ pc = "answer"
  /\ pc' = "send" /\ tries' = 0
  /\ UNCHANGED <<telegramVars, file, offset, batchVars, approval, limiter, runVars, clock, faults,
                 decided, historyVars>>

\* The answer throws: the same update is polled, and charged, again.
AnswerFails ==
  /\ Fault
  /\ pc = "answer"
  /\ pc' = "poll"
  /\ UNCHANGED <<telegramVars, file, offset, batchVars, approval, limiter, tries, runVars, clock,
                 decided, historyVars>>

StartSend ==
  /\ pc = "send" /\ ~stopping
  /\ pc' = "sending"
  /\ UNCHANGED <<telegramVars, file, offset, batchVars, approval, limiter, tries, runVars, clock,
                 faults, decided, historyVars>>

\* The signal is seen before a call or in the pause after a failed one.
SendAborted ==
  /\ pc = "send" /\ stopping
  /\ pc' = "poll"
  /\ UNCHANGED <<telegramVars, file, offset, batchVars, approval, limiter, tries, runVars, clock,
                 faults, decided, historyVars>>

Sent ==
  /\ pc = "sending"
  /\ sent' = [sent EXCEPT ![next] = @ + 1]
  /\ Decide
  /\ pc' = "settle"
  /\ UNCHANGED <<telegramVars, file, offset, batchVars, approval, limiter, tries, runVars, clock,
                 faults, charged, unsure>>

\* Whether a call that failed reached the chat nobody knows.
MaybeSent ==
  \/ UNCHANGED <<sent, unsure>>
  \/ sent' = [sent EXCEPT ![next] = @ + 1] /\ unsure' = unsure \cup {next}

\* Broken: a delivery cut short by the signal counts as abandoned.
SendCut_Settles ==
  /\ pc = "sending" /\ stopping
  /\ MaybeSent
  /\ pc' = "settle"
  /\ UNCHANGED <<telegramVars, file, offset, batchVars, approval, limiter, tries, runVars, clock,
                 faults, decided, charged>>

\* The signal aborts the call.
SendCut ==
  /\ pc = "sending" /\ stopping
  /\ MaybeSent
  /\ pc' = "poll"
  /\ UNCHANGED <<telegramVars, file, offset, batchVars, approval, limiter, tries, runVars, clock,
                 faults, decided, charged>>

SendFails ==
  /\ Fault
  /\ pc = "sending" /\ ~stopping
  /\ MaybeSent
  /\ IF tries + 1 < SendLimit
     THEN tries' = tries + 1 /\ pc' = "send" /\ UNCHANGED decided
     ELSE Decide /\ pc' = "settle" /\ UNCHANGED tries
  /\ UNCHANGED <<telegramVars, file, offset, batchVars, approval, limiter, runVars, clock, charged>>

\* A permanent refusal is not repeated.
SendRefused ==
  /\ Fault
  /\ pc = "sending" /\ ~stopping
  /\ Decide
  /\ pc' = "settle"
  /\ UNCHANGED <<telegramVars, file, offset, batchVars, approval, limiter, tries, runVars, clock,
                 historyVars>>

-----------------------------------------------------------------------------
(* Private documents: options.enqueuePrivate.                              *)

\* Admitted, or rejected for good: either way the admission has decided.
Enqueue ==
  /\ pc = "enqueue"
  /\ Decide
  /\ pc' = "settle"
  /\ UNCHANGED <<telegramVars, file, offset, batchVars, approval, limiter, tries, runVars, clock,
                 faults, historyVars>>

\* What the inner catch leaves behind: nothing when the signal was given.
Retained == IF stopping THEN approval ELSE next

EnqueueFails ==
  /\ Fault
  /\ pc = "enqueue"
  /\ approval' = Retained
  /\ pc' = "poll"
  /\ UNCHANGED <<telegramVars, file, offset, batchVars, limiter, tries, runVars, clock,
                 decided, historyVars>>

-----------------------------------------------------------------------------
\* A failing write after an admission ends in the inner catch as well, which
\* finds the approval already cleared.
Settle ==
  /\ pc = "settle"
  /\ Advance(IF KindOf[next] # "document" THEN approval ELSE IF stopping THEN 0 ELSE next)
  /\ UNCHANGED <<telegramVars, limiter, tries, runVars, clock, decided, historyVars>>

-----------------------------------------------------------------------------
(* The process.                                                            *)

\* SIGTERM: what is in progress sees the signal at its next await.
Stop ==
  /\ restarts < MaxRestarts
  /\ pc # "down" /\ ~stopping
  /\ stopping' = TRUE
  /\ restarts' = restarts + 1
  /\ UNCHANGED <<telegramVars, file, offset, batchVars, approval, limiter, tries, pc, clock, faults,
                 decided, historyVars>>

Exit ==
  /\ pc = "poll" /\ stopping
  /\ pc' = "down"
  /\ UNCHANGED <<telegramVars, file, offset, batchVars, approval, limiter, tries, runVars, clock,
                 faults, decided, historyVars>>

Crash ==
  /\ restarts < MaxRestarts
  /\ pc # "down" /\ ~stopping
  /\ restarts' = restarts + 1
  /\ pc' = "down"
  /\ UNCHANGED <<telegramVars, file, offset, batchVars, approval, limiter, tries, stopping, clock,
                 faults, decided, historyVars>>

\* All that a new process has is the file.
FreshRun ==
  /\ pc = "down"
  /\ pc' = "poll"
  /\ stopping' = FALSE
  /\ next' = 0 /\ last' = 0 /\ approval' = 0 /\ tries' = 0
  /\ limiter' = [c \in Chats |-> NoWindow]
  /\ sent' = Nothing /\ charged' = Nothing /\ unsure' = {}
  /\ UNCHANGED <<telegramVars, file, clock, faults, restarts, decided>>

Restart == FreshRun /\ offset' = file

-----------------------------------------------------------------------------
Work ==
  \/ GetUpdates \/ EndBatch \/ Skip \/ Allow \/ RateLimited
  \/ Answer \/ StartSend \/ SendAborted \/ Sent \/ SendCut
  \/ Enqueue \/ Settle \/ Exit \/ Restart

FaultStep ==
  \/ GetUpdatesFails \/ AnswerFails \/ SendFails \/ SendRefused \/ EnqueueFails

Next == Arrive \/ Tick \/ Work \/ FaultStep \/ Stop \/ Crash

Spec == Init /\ [][Next]_vars

\* Awaited calls return, and a supervisor starts the process again.
FairSpec == Spec /\ WF_vars(Work)

-----------------------------------------------------------------------------
\* An update that no run will see again, because Telegram has forgotten it or
\* the file is past it, was answered, given up after the last attempt,
\* handed over, rate limited or not for the bot: whatever fails or dies, the
\* offset never overtakes the work.
NothingSkipped ==
  \A u \in Updates : u < file \/ u < confirmed => u \in decided

\* A run sends the answer to an update once, unless a failed call had reached
\* the chat: not even an offset file that cannot be written sends it twice.
SentOncePerRun == \A u \in Updates \ unsure : sent[u] <= 1

\* However often its admission fails, a document takes from the limiter of its
\* chat once in a run, and when it comes back it is not thrown away by
\* a limit it has passed.
DocumentChargedOnce ==
  /\ \A u \in Updates : KindOf[u] = "document" => charged[u] <= 1
  /\ Has({"document"}) /\ charged[next] > 0 => Approved

\* What the file or Telegram is past is never worked on again, by this process
\* or by one after it.
Working == pc \in {"answer", "send", "sending", "enqueue", "settle"}
NeverBack == Working => file <= next /\ confirmed <= next

\* A run answers, charges and works on an update once.
OncePerRun == SentOncePerRun /\ DocumentChargedOnce /\ NeverBack

\* Every update is decided and confirmed in the end: no failure makes the
\* poller circle on an update it never passes.
EventuallyConfirmed == \A u \in Updates : (u <= arrived) ~> (u < confirmed)
=============================================================================
