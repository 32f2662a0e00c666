-------------------------- MODULE PrivateComparison --------------------------
(***************************************************************************)
(* The life of a telegram-private-compare job: the worker of main.ts and   *)
(* processPrivateComparisonJob of privateComparisonRuntime.ts.             *)
(*                                                                         *)
(* Nothing of the document outlives an attempt, so every attempt starts    *)
(* again from the encrypted job.  It marks the update 'failed' before it   *)
(* does anything else, and corrects that once it has told the user; a      *)
(* failure nobody can repair is told to the user, any other one throws so  *)
(* that the queue tries again.                                             *)
(***************************************************************************)
EXTENDS JobQueue

CONSTANT
  Undecryptable    \* updates whose envelope does not open: key or owner differ

ASSUME EnvelopeAssumption == Undecryptable \subseteq Updates

VARIABLES
  status,      \* telegram_updates.status
  answers,     \* comparisons Telegram took for an update
  apologies,   \* terminal failure messages Telegram took for an update
  verdict,     \* what a handler marks, and how it ends then
  refused,     \* history: updates Telegram refused a message for, for good
  disturbed,   \* history: attempts died, expired, or cannot tell what was sent
  unmarked     \* history: updates for which writing the status failed

toldVars == <<answers, apologies>>
vars == <<queueVars, status, answers, apologies, verdict, refused, disturbed, unmarked>>

Verdict == [mark : {"processed", "failed"}, then : {"return", "throw"}]
Done == [mark |-> "processed", then |-> "return"]
GivenUp == [mark |-> "failed", then |-> "return"]
TryAgain == [mark |-> "failed", then |-> "throw"]

Stages == {"idle", "open", "premark", "download", "compare", "deliver", "apologise",
           "mark", "end"}

TypeOK ==
  /\ QueueTypeOK
  /\ pc \in [Handlers -> Stages]
  /\ status \in [Updates -> {"received", "processed", "failed"}]
  /\ answers \in [Updates -> Nat]
  /\ apologies \in [Updates -> Nat]
  /\ verdict \in [Handlers -> Verdict]
  /\ refused \in SUBSET Updates
  /\ disturbed \in SUBSET Updates
  /\ unmarked \in SUBSET Updates

Init ==
  /\ QueueInit
  /\ status = [u \in Updates |-> "received"]
  /\ answers = [u \in Updates |-> 0]
  /\ apologies = [u \in Updates |-> 0]
  /\ verdict = [h \in Handlers |-> TryAgain]
  /\ refused = {}
  /\ disturbed = {}
  /\ unmarked = {}

-----------------------------------------------------------------------------
Fetch(h, u) ==
  /\ Take(h, u, "open")
  /\ verdict' = [verdict EXCEPT ![h] = TryAgain]
  /\ UNCHANGED <<status, toldVars, refused, disturbed, unmarked>>

\* The queue acts behind the handlers' back.
QueueStep ==
  /\ \/ \E h \in Handlers : (Outlive(h) \/ Die(h)) /\ disturbed' = disturbed \cup {on[h]}
     \/ \E u \in Updates : (Recover(u) \/ Drop(u)) /\ UNCHANGED disturbed
  /\ UNCHANGED <<status, toldVars, verdict, refused, unmarked>>

\* What a handler decides, when it has nothing else to do than mark and end.
Conclude(h, v) ==
  /\ verdict' = [verdict EXCEPT ![h] = v]
  /\ Goto(h, "mark")

Open(h) ==
  /\ pc[h] = "open"
  /\ on[h] \notin Undecryptable
  /\ Goto(h, "premark") /\ NoFault /\ JobUntouched
  /\ UNCHANGED <<status, toldVars, verdict, refused, disturbed, unmarked>>

\* validation: thrown before the update was authenticated, so never marked.
OpenFails(h) ==
  /\ pc[h] = "open"
  /\ on[h] \in Undecryptable
  /\ Throw(h) /\ NoFault
  /\ UNCHANGED <<status, toldVars, verdict, refused, disturbed, unmarked>>

Premark(h) ==
  /\ pc[h] = "premark"
  /\ status' = [status EXCEPT ![on[h]] = "failed"]
  /\ Goto(h, "download") /\ NoFault /\ JobUntouched
  /\ UNCHANGED <<toldVars, verdict, refused, disturbed, unmarked>>

\* getFile and the download, then the extractor, retrieval and comparison on
\* the bytes, in the download's consumer.
Work(h) ==
  /\ pc[h] \in {"download", "compare"} /\ ~aborted[h]
  /\ Goto(h, IF pc[h] = "download" THEN "compare" ELSE "deliver")
  /\ NoFault /\ JobUntouched
  /\ UNCHANGED <<status, toldVars, verdict, refused, disturbed, unmarked>>

\* The file or the document is refused for good: the user is told.
WorkIsTerminal(h) ==
  /\ pc[h] \in {"download", "compare"} /\ ~aborted[h]
  /\ Goto(h, "apologise") /\ NoFault /\ JobUntouched
  /\ UNCHANGED <<status, toldVars, verdict, refused, disturbed, unmarked>>

\* Telegram, the extractor, retrieval or the provider is unavailable.
WorkFails(h) ==
  /\ Fault
  /\ pc[h] \in {"download", "compare"} /\ ~aborted[h]
  /\ Conclude(h, TryAgain) /\ JobUntouched
  /\ UNCHANGED <<status, toldVars, refused, disturbed, unmarked>>

\* Broken: a delivery is awaited without the signal.
AbortSeen_NotInDelivery(h) ==
  /\ aborted[h]
  /\ pc[h] \in {"download", "compare"}
  /\ Conclude(h, GivenUp)
  /\ NoFault /\ JobUntouched
  /\ UNCHANGED <<status, toldVars, refused, disturbed, unmarked>>

\* The signal is seen between two steps, or wakes the handler from one.  An
\* abort during the terminal message may also end without marking.
AbortSeen(h) ==
  /\ aborted[h]
  /\ \/ /\ pc[h] \in {"download", "compare", "deliver", "apologise"}
        /\ Conclude(h, GivenUp)
     \/ /\ pc[h] = "apologise"
        /\ verdict' = [verdict EXCEPT ![h] = GivenUp]
        /\ Goto(h, "end")
  /\ NoFault /\ JobUntouched
  /\ UNCHANGED <<status, toldVars, refused, disturbed, unmarked>>

-----------------------------------------------------------------------------
\* Telegram takes the comparison or the terminal message of a handler.
Arrives(h) ==
  IF pc[h] = "deliver"
  THEN answers' = [answers EXCEPT ![on[h]] = @ + 1] /\ UNCHANGED apologies
  ELSE apologies' = [apologies EXCEPT ![on[h]] = @ + 1] /\ UNCHANGED answers

\* Broken: the job is completed as soon as the message is out.
Tell_CompletesFirst(h) ==
  /\ pc[h] \in {"deliver", "apologise"} /\ ~aborted[h]
  /\ Arrives(h)
  /\ Conclude(h, Done) /\ NoFault
  /\ job' = [job EXCEPT ![on[h]] = "completed"]
  /\ UNCHANGED <<retries, handlerVars, expired, status, refused, disturbed, unmarked>>

Tell(h) ==
  /\ pc[h] \in {"deliver", "apologise"} /\ ~aborted[h]
  /\ Arrives(h)
  /\ Conclude(h, Done) /\ NoFault /\ JobUntouched
  /\ UNCHANGED <<status, refused, disturbed, unmarked>>

\* deliverMessage gives up: a permanent refusal ends the job, and after the
\* last failure, which may have reached the chat, the attempt throws.
TellFails(h) ==
  /\ Fault
  /\ pc[h] \in {"deliver", "apologise"} /\ ~aborted[h]
  /\ \/ /\ Conclude(h, GivenUp)
        /\ refused' = refused \cup {on[h]}
        /\ UNCHANGED <<toldVars, disturbed>>
     \/ /\ Conclude(h, TryAgain)
        /\ \/ Arrives(h) /\ disturbed' = disturbed \cup {on[h]}
           \/ UNCHANGED <<toldVars, disturbed>>
        /\ UNCHANGED refused
  /\ JobUntouched
  /\ UNCHANGED <<status, unmarked>>

\* A failing sendMessage that deliverMessage repeats, though it arrived.
TellUnsure(h) ==
  /\ Fault
  /\ pc[h] \in {"deliver", "apologise"} /\ ~aborted[h]
  /\ Arrives(h)
  /\ disturbed' = disturbed \cup {on[h]}
  /\ JobUntouched
  /\ UNCHANGED <<pc, status, verdict, refused, unmarked>>

-----------------------------------------------------------------------------
Mark(h) ==
  /\ pc[h] = "mark"
  /\ status' = [status EXCEPT ![on[h]] = verdict[h].mark]
  /\ Goto(h, "end") /\ NoFault /\ JobUntouched
  /\ UNCHANGED <<toldVars, verdict, refused, disturbed, unmarked>>

\* Broken: a status that cannot be written fails the attempt.
MarkFails_Throws(h) ==
  /\ Fault
  /\ pc[h] \in {"premark", "mark"}
  /\ unmarked' = unmarked \cup {on[h]}
  /\ verdict' = [verdict EXCEPT ![h] = TryAgain]
  /\ Goto(h, "end") /\ JobUntouched
  /\ UNCHANGED <<status, toldVars, refused, disturbed>>

\* markPrivateStatus swallows the error.
MarkFails(h) ==
  /\ Fault
  /\ pc[h] \in {"premark", "mark"}
  /\ unmarked' = unmarked \cup {on[h]}
  /\ Goto(h, IF pc[h] = "premark" THEN "download" ELSE "end") /\ JobUntouched
  /\ UNCHANGED <<status, toldVars, verdict, refused, disturbed>>

End(h) ==
  /\ pc[h] = "end"
  /\ IF verdict[h].then = "return" THEN Return(h) ELSE Throw(h) /\ NoFault
  /\ UNCHANGED <<status, toldVars, verdict, refused, disturbed, unmarked>>

-----------------------------------------------------------------------------
Quiescent == AtRest /\ UNCHANGED vars

Step(h) ==
  \/ Open(h) \/ OpenFails(h) \/ Premark(h) \/ Work(h) \/ WorkIsTerminal(h)
  \/ AbortSeen(h) \/ Tell(h) \/ Mark(h) \/ End(h)

FaultStep(h) == WorkFails(h) \/ TellFails(h) \/ TellUnsure(h) \/ MarkFails(h)

Next ==
  \/ \E h \in Handlers :
       \/ \E u \in Updates : Fetch(h, u)
       \/ Step(h)
       \/ FaultStep(h)
  \/ QueueStep
  \/ Quiescent

Spec == Init /\ [][Next]_vars

\* Awaited calls return, the queue's expiry monitor runs and a worker polls.
Fairness ==
  /\ \A h \in Handlers : WF_vars(Step(h))
  /\ \A u \in Updates : WF_vars(Recover(u) /\ QueueStep)
  /\ \A u \in Updates : WF_vars(\E h \in Handlers : Fetch(h, u))

FairSpec == Spec /\ Fairness

-----------------------------------------------------------------------------
Told(u) == answers[u] + apologies[u]

\* Unless an attempt died, expired or lost Telegram's reply, the user hears of
\* an update once, a comparison or an apology: neither failed attempts before
\* it nor a status that cannot be written make anybody hear twice.
ToldOnce == \A u \in Updates \ disturbed : Told(u) <= 1

\* A job leaves the queue as completed only when its user was told something
\* or Telegram refused it for good.
CompletedIsTold ==
  \A u \in Updates : job[u] = "completed" => Told(u) > 0 \/ u \in refused

\* When all its attempts ended by themselves, the status of a completed update
\* says whether its user was told, in spite of the 'failed' written up front.
StatusIsTrue ==
  \A u \in Updates \ (disturbed \cup unmarked) :
    job[u] = "completed" => (status[u] = "processed" <=> Told(u) = 1)

\* What the user heard, what the queue says and what the status says agree.
UserIsTold == ToldOnce /\ CompletedIsTold /\ StatusIsTrue

\* The queue's last word is the last word: only a handler that was aborted
\* can still send or write anything for an update whose job has ended.
QuietAfterSettled ==
  [][\A u \in Updates : Settled(u) /\ u \notin expired =>
       UNCHANGED <<status[u], answers[u], apologies[u]>>]_vars

\* Every job ends, whatever fails in its attempts, and every handler of it
\* does, although an aborted one is no longer awaited by anybody.
ComesToRest == <>[]AtRest

\* Every terminal path marks the update processed or failed.
TerminalIsMarked ==
  \A u \in Updates : Settled(u) /\ u \notin unmarked => status[u] # "received"
=============================================================================
