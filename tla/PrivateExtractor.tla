-------------------------- MODULE PrivateExtractor --------------------------
(***************************************************************************)
(* The private document extractor: handleRequest and its worker promise    *)
(* (privateDocumentServer.ts), and PrivateDocumentClient.extract.  A slot  *)
(* whose parser thread could not be shown to be gone is poisoned: the      *)
(* process answers 503 until it has exited and was restarted.              *)
(***************************************************************************)
EXTENDS ExtractorCalls

CONSTANTS
  Unparsable,  \* calls whose document the parser refuses
  Nameless     \* calls whose document may lack a usable name or type

ASSUME DocumentsAssumption == Unparsable \subseteq Calls /\ Nameless \subseteq Calls

RequestVerdict(r) ==
  FirstFailing(<<Check(r.endpoint, 404), Check(r.token, 401), Check(r.octets, 415),
                 Check(~r.chunked, 415), Check(r.metadata, 422), Check(r.length, 413),
                 Check(slot # "poisoned", 503), Check(slot # "busy", 429)>>)

\* The slot is taken before the body is read.
HandleRequest(c) ==
  /\ up /\ wire[c] = "open" /\ serving[c] = "none"
  /\ \E r \in Requests :
       LET status == RequestVerdict(r) IN
       IF status # 0
       THEN /\ serving' = [serving EXCEPT ![c] = "answered"]
            /\ reply' = [reply EXCEPT ![c] = status]
            /\ UNCHANGED <<slot, input>>
       ELSE /\ slot' = "busy"
            /\ serving' = [serving EXCEPT ![c] = "reading"]
            /\ input' = [input EXCEPT ![c] = "held"]
            /\ UNCHANGED reply
  /\ UNCHANGED <<processVars, outcome, thread, wire, clientVars, faults>>

\* The answer, unless nobody waits for it, and the slot given back: catch and
\* finally of handleRequest.
Answer(c, status, poisoned) ==
  /\ slot' = IF poisoned THEN "poisoned" ELSE "available"
  /\ closing' = (closing \/ poisoned)
  /\ serving' = [serving EXCEPT ![c] = "answered"]
  /\ reply' = [reply EXCEPT ![c] = IF wire[c] = "open" THEN status ELSE 0]

Wiped(copy, c) == [copy EXCEPT ![c] = "wiped"]

-----------------------------------------------------------------------------
(* readRequestBody                                                         *)

\* The whole body arrived and a thread gets a copy of it.
BodyRead(c) ==
  /\ serving[c] = "reading" /\ wire[c] = "open"
  /\ serving' = [serving EXCEPT ![c] = "working"]
  /\ thread' = [thread EXCEPT ![c] = "running"]
  /\ UNCHANGED <<processVars, slot, outcome, input, reply, wire, clientVars, faults>>

\* No thread is to be had, or the body breaks off: its length is always the
\* declared one when the connection holds.
BodyFails(c) ==
  /\ serving[c] = "reading" /\ Fault
  /\ Answer(c, IF wire[c] = "open" THEN 503 ELSE 422, FALSE)
  /\ input' = Wiped(input, c)
  /\ UNCHANGED <<up, outcome, thread, wire, clientVars>>

\* The deadline, or a caller that went away, wins the race with the body.
\* The reading goes on by itself, and wipes the buffer when it ends.
BodyTooLate(c) ==
  /\ serving[c] = "reading"
  /\ Answer(c, 504, FALSE)
  /\ UNCHANGED <<up, outcome, thread, input, wire, clientVars, faults>>

StrayRead(c) ==
  /\ serving[c] = "answered" /\ input[c] = "held"
  /\ input' = Wiped(input, c)
  /\ UNCHANGED <<processVars, slot, serving, outcome, thread, reply, wire, clientVars, faults>>

-----------------------------------------------------------------------------
(* runPrivateDocumentWorker                                                *)

\* finish: the first event decides, and the thread is told to terminate.
Finish(c, status) ==
  /\ serving' = [serving EXCEPT ![c] = "finishing"]
  /\ outcome' = [outcome EXCEPT ![c] = status]

\* The thread's message: the text, the category of its refusal, or nothing
\* that validatePrivateExtractionResult accepts.
ThreadAnswers(c) ==
  /\ serving[c] = "working" /\ thread[c] = "running"
  /\ \/ Finish(c, IF c \in Unparsable THEN 422 ELSE 200) /\ NoFault
     \/ Finish(c, 503) /\ Fault
  /\ Terminating(c)
  /\ UNCHANGED <<processVars, slot, input, reply, wire, clientVars>>

\* 'error' or 'exit': out of memory, as a rule.
ThreadDies(c) ==
  /\ serving[c] = "working" /\ thread[c] = "running" /\ Fault
  /\ Finish(c, 503)
  /\ thread' = [thread EXCEPT ![c] = "gone"]
  /\ UNCHANGED <<processVars, slot, input, reply, wire, clientVars>>

\* The deadline, or the request's abort.
WorkTooLate(c) ==
  /\ serving[c] = "working"
  /\ Finish(c, 504)
  /\ Terminating(c)
  /\ UNCHANGED <<processVars, slot, input, reply, wire, clientVars, faults>>

\* terminate() throws: the slot is poisoned at once.
TerminateThrows(c) ==
  /\ serving[c] = "working" /\ Fault
  /\ Answer(c, 504, TRUE)
  /\ input' = Wiped(input, c)
  /\ UNCHANGED <<up, outcome, thread, wire, clientVars>>

\* The termination is confirmed: settle(false).  An answer that would be too
\* long becomes a 503.
Settle(c) ==
  /\ serving[c] = "finishing" /\ thread[c] = "gone"
  /\ \/ Answer(c, outcome[c], FALSE) /\ NoFault
     \/ outcome[c] = 200 /\ Answer(c, 503, FALSE) /\ Fault
  /\ input' = Wiped(input, c)
  /\ UNCHANGED <<up, outcome, thread, wire, clientVars>>

\* terminate() rejects: nobody knows what became of the thread.
TerminateRejects(c) ==
  /\ serving[c] = "finishing" /\ Fault
  /\ Answer(c, IF outcome[c] = 200 THEN 503 ELSE outcome[c], TRUE)
  /\ input' = Wiped(input, c)
  /\ UNCHANGED <<up, outcome, thread, wire, clientVars>>

\* Broken: after the deadline the slot is free again, whatever the thread does.
GracePasses_Frees(c) ==
  /\ serving[c] = "finishing"
  /\ Answer(c, 504, FALSE)
  /\ input' = Wiped(input, c)
  /\ UNCHANGED <<up, outcome, thread, wire, clientVars, faults>>

\* The termination takes longer than the deadline and its grace: settle(true).
GracePasses(c) ==
  /\ serving[c] = "finishing"
  /\ Answer(c, 504, TRUE)
  /\ input' = Wiped(input, c)
  /\ UNCHANGED <<up, outcome, thread, wire, clientVars, faults>>

-----------------------------------------------------------------------------
(* PrivateDocumentClient                                                   *)

\* extract() throws before it makes a request.
RejectInput(c) ==
  /\ client[c] = "idle" /\ c \in Nameless
  /\ client' = [client EXCEPT ![c] = "threw"]
  /\ UNCHANGED <<processVars, serverVars, wire, body, signal, faults>>

Extract(c) ==
  /\ client[c] = "idle"
  /\ IF signal[c] THEN /\ client' = [client EXCEPT ![c] = "aborted"]
                       /\ body' = Wiped(body, c)
                       /\ UNCHANGED wire
     ELSE /\ client' = [client EXCEPT ![c] = "waiting"]
          /\ body' = [body EXCEPT ![c] = "held"]
          /\ wire' = [wire EXCEPT ![c] = IF up THEN "open" ELSE "shut"]
  /\ UNCHANGED <<processVars, serverVars, signal, faults>>

\* Broken: a busy extractor is the document's fault.
RetryableStatus_ServerErrors(status) == status \in 500..599

RetryableStatus(status) == status = 429 \/ status \in 500..599

\* The answer: the text, or an error by its status.  A response that breaks off
\* after a 4xx ends the same way.
Receive(c) ==
  /\ client[c] = "waiting" /\ wire[c] = "open" /\ reply[c] # 0
  /\ client' = [client EXCEPT ![c] = IF reply[c] = 200 THEN "ok"
                                     ELSE IF RetryableStatus(reply[c]) THEN "retry"
                                     ELSE "refused"]
  /\ wire' = [wire EXCEPT ![c] = "shut"]
  /\ UNCHANGED <<processVars, serverVars, body, signal, faults>>

\* What a failing connection means while the caller's signal has, or has not,
\* fired.
Broken(c) == IF signal[c] THEN "aborted" ELSE "retry"

\* 'error' of the request or of a response that may be retried, the timeout, or
\* the caller's abort: the request is destroyed.
GiveUp(c) ==
  /\ client[c] = "waiting"
  /\ client' = [client EXCEPT ![c] = Broken(c)]
  /\ body' = Wiped(body, c)
  /\ wire' = [wire EXCEPT ![c] = "shut"]
  /\ UNCHANGED <<processVars, serverVars, signal, faults>>

\* The request was written, or is closed.
RequestClosed(c) ==
  /\ body[c] = "held" /\ (wire[c] = "shut" \/ input[c] # "none")
  /\ body' = Wiped(body, c)
  /\ UNCHANGED <<processVars, serverVars, wire, client, signal, faults>>

-----------------------------------------------------------------------------
PrivateStep(c) ==
  \/ HandleRequest(c) \/ BodyRead(c) \/ BodyTooLate(c) \/ StrayRead(c)
  \/ ThreadAnswers(c) \/ WorkTooLate(c) \/ ThreadStops(c) \/ Settle(c) \/ GracePasses(c)
  \/ Receive(c) \/ GiveUp(c) \/ RequestClosed(c)

PrivateFault(c) ==
  BodyFails(c) \/ ThreadDies(c) \/ ThreadHangs(c) \/ TerminateThrows(c) \/ TerminateRejects(c)
=============================================================================
