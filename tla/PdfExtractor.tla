---------------------------- MODULE PdfExtractor ----------------------------
(***************************************************************************)
(* The PDF extractor of the knowledge worker (pdfExtractorServer.ts) and   *)
(* PdfExtractorClient.extract.  Unlike the private extractor it never      *)
(* poisons its slot: a request settles by its deadline, whatever became of *)
(* its parser thread.                                                      *)
(***************************************************************************)
EXTENDS ExtractorCalls

PdfRequestVerdict(r) ==
  FirstFailing(<<Check(r.endpoint, 415), Check(r.token, 401), Check(r.octets, 415),
                 Check(~r.chunked, 415), Check(r.length, 413), Check(slot = "available", 503)>>)

\* active is set before the body is read.
PdfHandleRequest(c) ==
  /\ up /\ wire[c] = "open" /\ serving[c] = "none"
  /\ \E r \in Requests :
       LET status == PdfRequestVerdict(r) IN
       IF status # 0
       THEN /\ serving' = [serving EXCEPT ![c] = "answered"]
            /\ reply' = [reply EXCEPT ![c] = status]
            /\ UNCHANGED slot
       ELSE /\ slot' = "busy"
            /\ serving' = [serving EXCEPT ![c] = "reading"]
            /\ UNCHANGED reply
  /\ UNCHANGED <<processVars, outcome, thread, input, wire, clientVars, faults>>

\* The answer, unless nobody waits for it, and active reset by finally.
PdfAnswer(c, status) ==
  /\ slot' = "available"
  /\ serving' = [serving EXCEPT ![c] = "answered"]
  /\ reply' = [reply EXCEPT ![c] = IF wire[c] = "open" THEN status ELSE 0]

\* The whole body arrived and a thread gets a copy of it.
PdfBodyRead(c) ==
  /\ serving[c] = "reading" /\ wire[c] = "open"
  /\ serving' = [serving EXCEPT ![c] = "working"]
  /\ thread' = [thread EXCEPT ![c] = "running"]
  /\ UNCHANGED <<processVars, slot, outcome, input, reply, wire, clientVars, faults>>

\* A longer body, a shorter or broken one, or no thread to be had.
PdfBodyFails(c) ==
  /\ serving[c] = "reading" /\ Fault
  /\ \E status \in {413, 422, 503} : PdfAnswer(c, status)
  /\ UNCHANGED <<processVars, outcome, thread, input, wire, clientVars>>

\* The deadline, or a caller that went away, wins the race with the body.
PdfBodyTooLate(c) ==
  /\ serving[c] = "reading"
  /\ PdfAnswer(c, 504)
  /\ UNCHANGED <<processVars, outcome, thread, input, wire, clientVars, faults>>

-----------------------------------------------------------------------------
(* runPdfExtractorWorker                                                   *)

\* finish before the deadline: the thread is told to terminate.  Whether
\* terminate() throws makes no difference, the deadline is awaited then.
PdfFinish(c, status) ==
  /\ serving' = [serving EXCEPT ![c] = "finishing"]
  /\ outcome' = [outcome EXCEPT ![c] = status]

\* Text, or a refusal: a malformed message and a failing parser are one.
PdfThreadAnswers(c) ==
  /\ serving[c] = "working" /\ thread[c] = "running"
  /\ \E status \in {200, 422} : PdfFinish(c, status)
  /\ Terminating(c)
  /\ UNCHANGED <<processVars, slot, input, reply, wire, clientVars, faults>>

\* 'error' or 'exit'.
PdfThreadDies(c) ==
  /\ serving[c] = "working" /\ thread[c] = "running" /\ Fault
  /\ PdfFinish(c, 422)
  /\ thread' = [thread EXCEPT ![c] = "gone"]
  /\ UNCHANGED <<processVars, slot, input, reply, wire, clientVars>>

\* The request was aborted before its deadline.
PdfWorkAborted(c) ==
  /\ serving[c] = "working" /\ wire[c] = "shut"
  /\ PdfFinish(c, 504)
  /\ Terminating(c)
  /\ UNCHANGED <<processVars, slot, input, reply, wire, clientVars, faults>>

\* At the deadline nothing is left to wait: the termination is not awaited.
PdfWorkTooLate(c) ==
  /\ serving[c] = "working"
  /\ PdfAnswer(c, 504)
  /\ Terminating(c)
  /\ UNCHANGED <<processVars, outcome, input, wire, clientVars, faults>>

\* settle(false): an answer that became available only after the deadline is
\* a 504 as well, and one that is too long a 422.
PdfSettle(c) ==
  /\ serving[c] = "finishing" /\ thread[c] = "gone"
  /\ \E status \in {outcome[c], 504} \cup (IF outcome[c] = 200 THEN {422} ELSE {}) :
       PdfAnswer(c, status)
  /\ UNCHANGED <<processVars, outcome, thread, input, wire, clientVars, faults>>

\* Broken: a termination that hangs is awaited.
PdfDeadline_Awaits(c) ==
  /\ serving[c] = "finishing" /\ thread[c] # "stuck"
  /\ PdfAnswer(c, 504)
  /\ UNCHANGED <<processVars, outcome, thread, input, wire, clientVars, faults>>

\* settle(true): the deadline passes while the termination hangs or after it
\* was rejected.
PdfDeadline(c) ==
  /\ serving[c] = "finishing"
  /\ PdfAnswer(c, 504)
  /\ UNCHANGED <<processVars, outcome, thread, input, wire, clientVars, faults>>

-----------------------------------------------------------------------------
(* PdfExtractorClient                                                      *)

PdfExtract(c) ==
  /\ client[c] = "idle"
  /\ IF signal[c] THEN client' = [client EXCEPT ![c] = "failed"] /\ UNCHANGED wire
     ELSE /\ client' = [client EXCEPT ![c] = "waiting"]
          /\ wire' = [wire EXCEPT ![c] = IF up THEN "open" ELSE "shut"]
  /\ UNCHANGED <<processVars, serverVars, body, signal, faults>>

\* The client's errors carry a status; its caller treats them alike.
PdfReceive(c) ==
  /\ client[c] = "waiting" /\ wire[c] = "open" /\ reply[c] # 0
  /\ client' = [client EXCEPT ![c] = IF reply[c] = 200 THEN "ok" ELSE "failed"]
  /\ wire' = [wire EXCEPT ![c] = "shut"]
  /\ UNCHANGED <<processVars, serverVars, body, signal, faults>>

PdfGiveUp(c) ==
  /\ client[c] = "waiting"
  /\ client' = [client EXCEPT ![c] = "failed"]
  /\ wire' = [wire EXCEPT ![c] = "shut"]
  /\ UNCHANGED <<processVars, serverVars, body, signal, faults>>

-----------------------------------------------------------------------------
PdfStep(c) ==
  \/ PdfHandleRequest(c) \/ PdfBodyRead(c) \/ PdfBodyTooLate(c) \/ PdfThreadAnswers(c)
  \/ PdfWorkAborted(c) \/ PdfWorkTooLate(c) \/ ThreadStops(c) \/ PdfSettle(c)
  \/ PdfDeadline(c) \/ PdfExtract(c) \/ PdfReceive(c) \/ PdfGiveUp(c)

PdfFault(c) == PdfBodyFails(c) \/ PdfThreadDies(c) \/ ThreadHangs(c)
=============================================================================
