-------------------------- MODULE ExtractionProofs --------------------------
(***************************************************************************)
(* Proofs about Extraction, for any calls, documents and number of faults. *)
(*                                                                         *)
(* Of the slot, what matters is a small core: the process, the slot, where *)
(* each request is, and its thread.  CoreMove says how any step of either  *)
(* extractor moves it; the rest of the argument is about those moves.      *)
(***************************************************************************)
EXTENDS Extraction, TLAPS

\* Where a thread may live, and that poison is final until the restart.
ThreadInv ==
  /\ \A c \in Calls : thread[c] \in Alive =>
       up /\ serving[c] \in {"working", "finishing", "answered"}
  /\ \A c \in Calls : serving[c] \in Active => up
  /\ up /\ closing => slot = "poisoned"
  /\ kind = "pdf" =>
       /\ slot # "poisoned"
       /\ \A c \in Calls : thread[c] = "running" => serving[c] = "working"

\* What the private server answers, and what its client makes of it.
ReplyInv ==
  kind = "private" =>
    \A c \in Calls :
      /\ outcome[c] \in {0, 200, 503, 504} \cup (IF c \in Unparsable THEN {422} ELSE {})
      /\ reply[c] \in {0, 200, 401, 429, 503, 504}
                       \cup (IF c \in Unparsable THEN {422} ELSE {})
      /\ reply[c] # 0 => serving[c] = "answered"
      /\ client[c] = "refused" => c \in Unparsable \/ reply[c] = 401

\* Why a download failed.
FailureInv ==
  \A c \in Calls :
    /\ failure[c] = 499 => signal[c]
    /\ download[c] \in {"idle", "failed"} => buffer[c] = "zero"

IInv == TypeOK /\ ThreadInv /\ SlotGuardsParser /\ ReplyInv /\ FailureInv

USE CallsAssumption, ClientAssumption, DocumentsAssumption

-----------------------------------------------------------------------------
(* The verdict on a request.                                               *)

\* Min picks a member: of sets as large as a list of checks, induction is not
\* needed.
LEMMA MinFacts ==
  ASSUME NEW S \in SUBSET (1..8), S # {}
  PROVE  Min(S) \in S
<1>1. \E x \in S : \A y \in S : x <= y
  <2> SUFFICES ASSUME \A x \in S : \E y \in S : y < x PROVE FALSE
    BY SMT
  <2>1. 1 \notin S
    OBVIOUS
  <2>2. 2 \notin S
    BY <2>1
  <2>3. 3 \notin S
    BY <2>1, <2>2
  <2>4. 4 \notin S
    BY <2>1, <2>2, <2>3
  <2>5. 5 \notin S
    BY <2>1, <2>2, <2>3, <2>4
  <2>6. 6 \notin S
    BY <2>1, <2>2, <2>3, <2>4, <2>5
  <2>7. 7 \notin S
    BY <2>1, <2>2, <2>3, <2>4, <2>5, <2>6
  <2>8. 8 \notin S
    BY <2>1, <2>2, <2>3, <2>4, <2>5, <2>6, <2>7
  <2>9. \A x \in 1..8 : x \in {1, 2, 3, 4, 5, 6, 7, 8}
    OBVIOUS
  <2> QED BY <2>1, <2>2, <2>3, <2>4, <2>5, <2>6, <2>7, <2>8, <2>9
<1> QED BY <1>1 DEF Min

\* All checks hold, or the status is that of one that does not.
LEMMA FirstFailingFacts ==
  ASSUME NEW n \in 1..8, NEW checks, DOMAIN checks = 1..n
  PROVE  \/ FirstFailing(checks) = 0 /\ \A i \in 1..n : checks[i].holds
         \/ \E i \in 1..n : ~checks[i].holds /\ FirstFailing(checks) = checks[i].status
<1> DEFINE failing == {i \in DOMAIN checks : ~checks[i].holds}
<1>1. CASE failing = {}
  BY <1>1 DEF FirstFailing
<1>2. CASE failing # {}
  <2>1. failing \in SUBSET (1..8)
    OBVIOUS
  <2>2. Min(failing) \in failing
    BY <1>2, <2>1, MinFacts
  <2> QED BY <1>2, <2>2 DEF FirstFailing
<1> QED BY <1>1, <1>2

\* What the private server says to what its client sends.
LEMMA VerdictFacts ==
  ASSUME NEW r \in Requests, TypeOK
  PROVE  /\ RequestVerdict(r) \in {0, 401, 429, 503}
         /\ RequestVerdict(r) = 0 => slot = "available"
<1> DEFINE checks == <<Check(r.endpoint, 404), Check(r.token, 401), Check(r.octets, 415),
                 Check(~r.chunked, 415), Check(r.metadata, 422), Check(r.length, 413),
                 Check(slot # "poisoned", 503), Check(slot # "busy", 429)>>
<1>1. DOMAIN checks = 1..8 /\ RequestVerdict(r) = FirstFailing(checks)
  BY DEF RequestVerdict
<1>2. /\ checks[1].holds <=> r.endpoint
      /\ checks[2].status = 401
      /\ checks[3].holds <=> r.octets
      /\ checks[4].holds <=> ~r.chunked
      /\ checks[5].holds <=> r.metadata
      /\ checks[6].holds <=> r.length
      /\ (checks[7].holds <=> slot # "poisoned") /\ checks[7].status = 503
      /\ (checks[8].holds <=> slot # "busy") /\ checks[8].status = 429
  BY DEF Check
<1> HIDE DEF checks
<1>3. r.endpoint /\ r.octets /\ ~r.chunked /\ r.metadata /\ r.length
  OBVIOUS
<1>4. CASE FirstFailing(checks) = 0 /\ \A i \in 1..8 : checks[i].holds
  <2>1. checks[7].holds /\ checks[8].holds
    BY <1>4
  <2> QED BY <1>1, <1>2, <1>4, <2>1 DEF TypeOK, CallsTypeOK
<1>5. ASSUME NEW i \in 1..8, ~checks[i].holds, FirstFailing(checks) = checks[i].status
      PROVE  RequestVerdict(r) \in {401, 429, 503}
  <2>1. i \in {1, 2, 3, 4, 5, 6, 7, 8}
    OBVIOUS
  <2>2. i \in {2, 7, 8}
    BY <1>2, <1>3, <1>5, <2>1
  <2> QED BY <1>1, <1>2, <1>5, <2>2
<1> QED BY <1>1, <1>4, <1>5, FirstFailingFacts

\* What the PDF server says to what its client sends.
LEMMA PdfVerdictFacts ==
  ASSUME NEW r \in Requests, TypeOK
  PROVE  /\ PdfRequestVerdict(r) \in {0, 401, 503}
         /\ PdfRequestVerdict(r) = 0 => slot = "available"
<1> DEFINE checks == <<Check(r.endpoint, 415), Check(r.token, 401), Check(r.octets, 415),
                 Check(~r.chunked, 415), Check(r.length, 413),
                 Check(slot = "available", 503)>>
<1>1. DOMAIN checks = 1..6 /\ PdfRequestVerdict(r) = FirstFailing(checks)
  BY DEF PdfRequestVerdict
<1>2. /\ checks[1].holds <=> r.endpoint
      /\ checks[2].status = 401
      /\ checks[3].holds <=> r.octets
      /\ checks[4].holds <=> ~r.chunked
      /\ checks[5].holds <=> r.length
      /\ (checks[6].holds <=> slot = "available") /\ checks[6].status = 503
  BY DEF Check
<1> HIDE DEF checks
<1>3. r.endpoint /\ r.octets /\ ~r.chunked /\ r.length
  OBVIOUS
<1>4. CASE FirstFailing(checks) = 0 /\ \A i \in 1..6 : checks[i].holds
  <2>1. checks[6].holds
    BY <1>4
  <2> QED BY <1>1, <1>2, <1>4, <2>1
<1>5. ASSUME NEW i \in 1..6, ~checks[i].holds, FirstFailing(checks) = checks[i].status
      PROVE  PdfRequestVerdict(r) \in {401, 503}
  <2>1. i \in {1, 2, 3, 4, 5, 6}
    OBVIOUS
  <2>2. i \in {2, 6}
    BY <1>2, <1>3, <1>5, <2>1
  <2> QED BY <1>1, <1>2, <1>5, <2>2
<1> QED BY <1>1, <1>4, <1>5, FirstFailingFacts

-----------------------------------------------------------------------------
(* Steps.                                                                  *)

\* The beginning.
LEMMA InitInv == Init => IInv
<1> SUFFICES ASSUME Init PROVE IInv
  OBVIOUS
<1> USE DEF Init, CallsInit, DownloadInit
<1>1. TypeOK
  <2>1. CallsTypeOK
    <3>1. /\ up \in BOOLEAN /\ closing \in BOOLEAN
          /\ signal \in [Calls -> BOOLEAN]
      OBVIOUS
    <3>2. faults \in 0..MaxFaults
      BY SMT
    <3>3. /\ slot \in {"available", "busy", "poisoned"}
          /\ wire \in [Calls -> {"none", "open", "shut"}]
          /\ serving \in [Calls -> {"none", "answered"} \cup Active]
          /\ outcome \in [Calls -> Statuses \cup {0}]
          /\ thread \in [Calls -> {"none", "gone"} \cup Alive]
          /\ input \in [Calls -> {"none", "held", "wiped"}]
          /\ reply \in [Calls -> Statuses \cup {0}]
          /\ client \in [Calls -> {"idle", "waiting"} \cup Settlements]
          /\ body \in [Calls -> {"none", "held", "wiped"}]
      OBVIOUS
    <3> QED BY <3>1, <3>2, <3>3 DEF CallsTypeOK
  <2>2. DownloadTypeOK
    BY DEF DownloadTypeOK
  <2> QED BY <2>1, <2>2 DEF TypeOK
<1>2. ThreadInv /\ SlotGuardsParser
  BY DEF ThreadInv, SlotGuardsParser, OneParser, SlotIsHeld, PoisonCoversThreads, Alive,
       Active
<1>3. ReplyInv /\ FailureInv
  BY DEF ReplyInv, FailureInv
<1> QED BY <1>1, <1>2, <1>3 DEF IInv

\* The process's own steps.
LEMMA ProcessTypes ==
  ASSUME TypeOK, ProcessStep, UNCHANGED downloadVars, kind' = kind
  PROVE  TypeOK'
<1>1. DownloadTypeOK'
  <2>1. /\ stream' = stream /\ download' = download /\ failure' = failure
        /\ buffer' = buffer /\ started' = started
    BY DEF downloadVars
  <2> QED BY <2>1, Zenon DEF TypeOK, DownloadTypeOK
<1>2. /\ outcome' = outcome /\ reply' = reply /\ client' = client /\ body' = body
      /\ signal' = signal
  BY SMT DEF ProcessStep, Crash, PoisonedExit, Restart, clientVars
<1>3. up' \in BOOLEAN
  BY Zenon DEF ProcessStep, Crash, PoisonedExit, Restart
<1>4. closing' = closing \/ closing' = FALSE
  <2>1. CASE Crash \/ PoisonedExit
    <3>1. UNCHANGED <<closing, slot>>
      BY <2>1, Zenon DEF Crash, PoisonedExit
    <3> QED BY <3>1
  <2>2. CASE Restart
    BY <2>2, Zenon DEF Restart
  <2> QED BY <2>1, <2>2 DEF ProcessStep
<1>5. /\ slot' \in {"available", "busy", "poisoned"}
      /\ wire' \in [Calls -> {"none", "open", "shut"}]
      /\ serving' \in [Calls -> {"none", "answered"} \cup Active]
      /\ thread' \in [Calls -> {"none", "gone"} \cup Alive]
      /\ input' \in [Calls -> {"none", "held", "wiped"}]
  BY SMTT(30) DEF TypeOK, CallsTypeOK, ProcessStep, Crash, PoisonedExit, Restart, Alive,
       Active
<1>6. faults' \in 0..MaxFaults
  BY SMT DEF TypeOK, CallsTypeOK, ProcessStep, Crash, PoisonedExit, Restart, Fault
<1>7. CallsTypeOK'
  BY <1>2, <1>3, <1>4, <1>5, <1>6, Zenon DEF TypeOK, CallsTypeOK
<1> QED BY <1>1, <1>7, Zenon DEF TypeOK

\* Types.
LEMMA TypeStep == IInv /\ [Next]_vars => TypeOK'
<1> SUFFICES ASSUME IInv, [Next]_vars PROVE TypeOK'
  OBVIOUS
<1> USE DEF IInv, TypeOK, CallsTypeOK, DownloadTypeOK, Statuses, Settlements, Active,
     Alive, callVars, processVars, serverVars, clientVars, downloadVars, Fault, NoFault
<1>1. ASSUME NEW c \in Calls, kind = "private", UNCHANGED kind, UNCHANGED downloadVars,
             HandleRequest(c)
      PROVE  TypeOK'
  <2>1. \A r \in Requests : RequestVerdict(r) \in Statuses \cup {0}
    BY VerdictFacts
  <2> QED BY <1>1, <2>1, SMTT(30) DEF HandleRequest
<1>2. ASSUME NEW c \in Calls, kind = "private", UNCHANGED kind, UNCHANGED downloadVars,
             BodyRead(c)
      PROVE  TypeOK'
  BY <1>2, SMTT(30) DEF BodyRead
<1>3. ASSUME NEW c \in Calls, kind = "private", UNCHANGED kind, UNCHANGED downloadVars,
             BodyTooLate(c)
      PROVE  TypeOK'
  BY <1>3, SMTT(30) DEF BodyTooLate, Answer
<1>4. ASSUME NEW c \in Calls, kind = "private", UNCHANGED kind, UNCHANGED downloadVars,
             StrayRead(c)
      PROVE  TypeOK'
  BY <1>4, SMTT(30) DEF StrayRead, Wiped
<1>5. ASSUME NEW c \in Calls, kind = "private", UNCHANGED kind, UNCHANGED downloadVars,
             ThreadAnswers(c)
      PROVE  TypeOK'
  BY <1>5, SMTT(30) DEF ThreadAnswers, Finish, Terminating
<1>6. ASSUME NEW c \in Calls, kind = "private", UNCHANGED kind, UNCHANGED downloadVars,
             WorkTooLate(c)
      PROVE  TypeOK'
  BY <1>6, SMTT(30) DEF WorkTooLate, Finish, Terminating
<1>7. ASSUME NEW c \in Calls, kind = "private", UNCHANGED kind, UNCHANGED downloadVars,
             Settle(c)
      PROVE  TypeOK'
  BY <1>7, SMTT(30) DEF Settle, Answer, Wiped
<1>8. ASSUME NEW c \in Calls, kind = "private", UNCHANGED kind, UNCHANGED downloadVars,
             GracePasses(c)
      PROVE  TypeOK'
  BY <1>8, SMTT(30) DEF GracePasses, Answer, Wiped
<1>9. ASSUME NEW c \in Calls, kind = "private", UNCHANGED kind, UNCHANGED downloadVars,
             Receive(c)
      PROVE  TypeOK'
  BY <1>9, SMTT(30) DEF Receive
<1>10. ASSUME NEW c \in Calls, kind = "private", UNCHANGED kind, UNCHANGED downloadVars,
              GiveUp(c)
       PROVE  TypeOK'
  <2>1. Broken(c) \in Settlements
    BY DEF Broken
  <2> QED BY <1>10, <2>1, SMTT(30) DEF GiveUp, Wiped
<1>11. ASSUME NEW c \in Calls, kind = "private", UNCHANGED kind, UNCHANGED downloadVars,
              RequestClosed(c)
       PROVE  TypeOK'
  BY <1>11, SMTT(30) DEF RequestClosed, Wiped
<1>12. ASSUME NEW c \in Calls, kind = "private", UNCHANGED kind, UNCHANGED downloadVars,
              BodyFails(c)
       PROVE  TypeOK'
  BY <1>12, SMTT(30) DEF BodyFails, Answer, Wiped
<1>13. ASSUME NEW c \in Calls, kind = "private", UNCHANGED kind, UNCHANGED downloadVars,
              ThreadDies(c)
       PROVE  TypeOK'
  BY <1>13, SMTT(30) DEF ThreadDies, Finish
<1>14. ASSUME NEW c \in Calls, kind = "private", UNCHANGED kind, UNCHANGED downloadVars,
              TerminateThrows(c)
       PROVE  TypeOK'
  BY <1>14, SMTT(30) DEF TerminateThrows, Answer, Wiped
<1>15. ASSUME NEW c \in Calls, kind = "private", UNCHANGED kind, UNCHANGED downloadVars,
              TerminateRejects(c)
       PROVE  TypeOK'
  BY <1>15, SMTT(30) DEF TerminateRejects, Answer, Wiped
<1>16. ASSUME NEW c \in Calls, kind = "private", UNCHANGED kind, Begin(c) PROVE TypeOK'
  BY <1>16, SMTT(30) DEF Begin, Reject
<1>17. ASSUME NEW c \in Calls, kind = "private", UNCHANGED kind, OnResponse(c) PROVE TypeOK'
  BY <1>17, SMTT(30) DEF OnResponse, Fail, Reject, Cleaned
<1>18. ASSUME NEW c \in Calls, kind = "private", UNCHANGED kind, OnData(c) PROVE TypeOK'
  BY <1>18, SMTT(30) DEF OnData, Fail, Reject, Cleaned
<1>19. ASSUME NEW c \in Calls, kind = "private", UNCHANGED kind, OnEnd(c) PROVE TypeOK'
  <2>1. CASE buffer[c] # "whole" \/ ~Loading(c)
    BY <1>19, <2>1, SMTT(30) DEF OnEnd, Succeed, Fail, Reject, Cleaned
  <2>2. CASE ~(buffer[c] # "whole" \/ ~Loading(c))
    <3>0. started' = [started EXCEPT ![c] = TRUE]
      BY <1>19, <2>2, SMT DEF OnEnd, Succeed
    <3>1. started' \in [Calls -> BOOLEAN]
      BY <3>0
    <3> QED BY <1>19, <2>2, <3>1, SMTT(30) DEF OnEnd, Succeed
  <2> QED BY <2>1, <2>2
<1>20. ASSUME NEW c \in Calls, kind = "private", UNCHANGED kind, DownloadTimesOut(c)
       PROVE  TypeOK'
  BY <1>20, SMTT(30) DEF DownloadTimesOut, Fail, Reject, Cleaned
<1>21. ASSUME NEW c \in Calls, kind = "private", UNCHANGED kind, DownloadAborts(c)
       PROVE  TypeOK'
  BY <1>21, SMTT(30) DEF DownloadAborts, Fail, Reject, Cleaned
<1>22. ASSUME NEW c \in Calls, kind = "private", UNCHANGED kind, Consume(c) PROVE TypeOK'
  BY <1>22, SMTT(30) DEF Consume, Extract, RejectInput, Wiped
<1>23. ASSUME NEW c \in Calls, kind = "private", UNCHANGED kind, ConsumerEnds(c)
       PROVE  TypeOK'
  BY <1>23, SMTT(30) DEF ConsumerEnds, Reject, Cleaned
<1>24. ASSUME NEW c \in Calls, kind = "private", UNCHANGED kind, BeginRefused(c)
       PROVE  TypeOK'
  BY <1>24, SMTT(30) DEF BeginRefused, Reject
<1>25. ASSUME NEW c \in Calls, kind = "private", UNCHANGED kind, OnStreamError(c)
       PROVE  TypeOK'
  BY <1>25, SMTT(30) DEF OnStreamError, Fail, Reject, Cleaned
<1>26. ASSUME NEW c \in Calls, kind = "pdf", UNCHANGED kind, UNCHANGED downloadVars,
              PdfHandleRequest(c)
       PROVE  TypeOK'
  <2>1. \A r \in Requests : PdfRequestVerdict(r) \in Statuses \cup {0}
    BY PdfVerdictFacts
  <2> QED BY <1>26, <2>1, SMTT(30) DEF PdfHandleRequest
<1>27. ASSUME NEW c \in Calls, kind = "pdf", UNCHANGED kind, UNCHANGED downloadVars,
              PdfBodyRead(c)
       PROVE  TypeOK'
  BY <1>27, SMTT(30) DEF PdfBodyRead
<1>28. ASSUME NEW c \in Calls, kind = "pdf", UNCHANGED kind, UNCHANGED downloadVars,
              PdfBodyTooLate(c)
       PROVE  TypeOK'
  BY <1>28, SMTT(30) DEF PdfBodyTooLate, PdfAnswer
<1>29. ASSUME NEW c \in Calls, kind = "pdf", UNCHANGED kind, UNCHANGED downloadVars,
              PdfThreadAnswers(c)
       PROVE  TypeOK'
  BY <1>29, SMTT(30) DEF PdfThreadAnswers, PdfFinish, Terminating
<1>30. ASSUME NEW c \in Calls, kind = "pdf", UNCHANGED kind, UNCHANGED downloadVars,
              PdfWorkAborted(c)
       PROVE  TypeOK'
  BY <1>30, SMTT(30) DEF PdfWorkAborted, PdfFinish, Terminating
<1>31. ASSUME NEW c \in Calls, kind = "pdf", UNCHANGED kind, UNCHANGED downloadVars,
              PdfWorkTooLate(c)
       PROVE  TypeOK'
  BY <1>31, SMTT(30) DEF PdfWorkTooLate, PdfAnswer, Terminating
<1>32. ASSUME NEW c \in Calls, kind = "pdf", UNCHANGED kind, UNCHANGED downloadVars,
              PdfSettle(c)
       PROVE  TypeOK'
  BY <1>32, SMTT(30) DEF PdfSettle, PdfAnswer
<1>33. ASSUME NEW c \in Calls, kind = "pdf", UNCHANGED kind, UNCHANGED downloadVars,
              PdfDeadline(c)
       PROVE  TypeOK'
  BY <1>33, SMTT(30) DEF PdfDeadline, PdfAnswer
<1>34. ASSUME NEW c \in Calls, kind = "pdf", UNCHANGED kind, UNCHANGED downloadVars,
              PdfExtract(c)
       PROVE  TypeOK'
  BY <1>34, SMTT(30) DEF PdfExtract
<1>35. ASSUME NEW c \in Calls, kind = "pdf", UNCHANGED kind, UNCHANGED downloadVars,
              PdfReceive(c)
       PROVE  TypeOK'
  BY <1>35, SMTT(30) DEF PdfReceive
<1>36. ASSUME NEW c \in Calls, kind = "pdf", UNCHANGED kind, UNCHANGED downloadVars,
              PdfGiveUp(c)
       PROVE  TypeOK'
  BY <1>36, SMTT(30) DEF PdfGiveUp
<1>37. ASSUME NEW c \in Calls, kind = "pdf", UNCHANGED kind, UNCHANGED downloadVars,
              PdfBodyFails(c)
       PROVE  TypeOK'
  BY <1>37, SMTT(30) DEF PdfBodyFails, PdfAnswer
<1>38. ASSUME NEW c \in Calls, kind = "pdf", UNCHANGED kind, UNCHANGED downloadVars,
              PdfThreadDies(c)
       PROVE  TypeOK'
  BY <1>38, SMTT(30) DEF PdfThreadDies, PdfFinish
<1>39. ASSUME NEW c \in Calls, UNCHANGED kind, UNCHANGED downloadVars, ThreadStops(c)
       PROVE  TypeOK'
  BY <1>39, SMTT(30) DEF ThreadStops
<1>40. ASSUME NEW c \in Calls, UNCHANGED kind, UNCHANGED downloadVars, ThreadHangs(c)
       PROVE  TypeOK'
  BY <1>40, SMTT(30) DEF ThreadHangs
<1>41. ASSUME NEW c \in Calls, UNCHANGED kind, UNCHANGED downloadVars, CallerAborts(c)
       PROVE  TypeOK'
  BY <1>41, SMTT(30) DEF CallerAborts
<1>42. ASSUME UNCHANGED kind, UNCHANGED downloadVars, Crash PROVE TypeOK'
  <2>1. TypeOK /\ ProcessStep
    BY <1>42 DEF ProcessStep
  <2>2. TypeOK'
    BY <1>42, <2>1, ProcessTypes
  <2> QED BY <2>2
<1>43. ASSUME UNCHANGED kind, UNCHANGED downloadVars, PoisonedExit PROVE TypeOK'
  <2>1. TypeOK /\ ProcessStep
    BY <1>43 DEF ProcessStep
  <2>2. TypeOK'
    BY <1>43, <2>1, ProcessTypes
  <2> QED BY <2>2
<1>44. ASSUME UNCHANGED kind, UNCHANGED downloadVars, Restart PROVE TypeOK'
  <2>1. TypeOK /\ ProcessStep
    BY <1>44 DEF ProcessStep
  <2>2. TypeOK'
    BY <1>44, <2>1, ProcessTypes
  <2> QED BY <2>2
<1>45. ASSUME UNCHANGED vars PROVE TypeOK'
  BY <1>45, SMTT(30) DEF vars, downloadVars
<1> HIDE DEF IInv, TypeOK, CallsTypeOK, DownloadTypeOK
<1> QED
  BY <1>1, <1>2, <1>3, <1>4, <1>5, <1>6, <1>7, <1>8, <1>9, <1>10, <1>11, <1>12, <1>13,
       <1>14, <1>15, <1>16, <1>17, <1>18, <1>19, <1>20, <1>21, <1>22, <1>23, <1>24,
       <1>25, <1>26, <1>27, <1>28, <1>29, <1>30, <1>31, <1>32, <1>33, <1>34, <1>35,
       <1>36, <1>37, <1>38, <1>39, <1>40, <1>41, <1>42, <1>43, <1>44, <1>45 DEF Next,
       Private, PrivateFails, Pdf, PdfFails, Aborts, Process, ProcessStep, PrivateStep,
       PrivateFault, DownloadStep, DownloadFault, PdfStep, PdfFault, Quiescent

-----------------------------------------------------------------------------
(* How a step moves the process, the slot and the threads.                 *)

Moved(c, from, to) == serving[c] \in from /\ serving' = [serving EXCEPT ![c] = to]

Idle == UNCHANGED <<up, closing, slot, serving, thread>>

Refused(c) ==
  /\ up /\ Moved(c, {"none"}, "answered")
  /\ UNCHANGED <<up, closing, slot, thread>>

Taken(c) ==
  /\ up /\ slot = "available" /\ slot' = "busy" /\ Moved(c, {"none"}, "reading")
  /\ UNCHANGED <<up, closing, thread>>

Started(c) ==
  /\ Moved(c, {"reading"}, "working") /\ thread' = [thread EXCEPT ![c] = "running"]
  /\ UNCHANGED <<up, closing, slot>>

Finished(c) ==
  /\ Moved(c, {"working"}, "finishing")
  /\ Terminating(c) \/ thread' = [thread EXCEPT ![c] = "gone"]
  /\ UNCHANGED <<up, closing, slot>>

Stopped(c) ==
  /\ thread[c] \in Alive
  /\ \E t \in {"stuck", "gone"} : thread' = [thread EXCEPT ![c] = t]
  /\ UNCHANGED <<up, closing, slot, serving>>

PrivateFreed(c) ==
  /\ kind = "private" /\ thread[c] \notin Alive
  /\ slot' = "available" /\ Moved(c, Active, "answered")
  /\ UNCHANGED <<up, closing, thread>>

PdfFreed(c) ==
  /\ kind = "pdf"
  /\ slot' = "available" /\ Moved(c, Active, "answered")
  /\ Terminating(c) \/ (thread[c] # "running" /\ UNCHANGED thread)
  /\ UNCHANGED <<up, closing>>

Poisoned(c) ==
  /\ kind = "private"
  /\ slot' = "poisoned" /\ Moved(c, Active, "answered")
  /\ UNCHANGED <<up, thread>>

Died ==
  /\ up' = FALSE /\ UNCHANGED slot
  /\ \A c \in Calls : thread'[c] \notin Alive /\ serving'[c] \notin Active

CoreMove ==
  \/ Idle \/ Died \/ Restart
  \/ \E c \in Calls : \/ Refused(c) \/ Taken(c) \/ Started(c) \/ Finished(c) \/ Stopped(c)
                      \/ PrivateFreed(c) \/ PdfFreed(c) \/ Poisoned(c)

\* Every handler of both extractors, and the process, is one of these moves.
LEMMA CoreMoves == IInv /\ [Next]_vars => CoreMove
<1> SUFFICES ASSUME IInv, [Next]_vars PROVE CoreMove
  OBVIOUS
<1>0. TypeOK /\ ThreadInv /\ SlotIsHeld
  BY DEF IInv, SlotGuardsParser
<1> USE DEF Moved, callVars, processVars, serverVars, clientVars, downloadVars, Fault,
     NoFault
<1>1. ASSUME NEW c \in Calls, kind = "private", UNCHANGED kind, UNCHANGED downloadVars,
             HandleRequest(c)
      PROVE  Refused(c) \/ Taken(c)
  BY <1>1, <1>0, VerdictFacts, SMTT(30) DEF HandleRequest, Refused, Taken
<1>2. ASSUME NEW c \in Calls, kind = "private", UNCHANGED kind, UNCHANGED downloadVars,
             BodyRead(c)
      PROVE  Started(c)
  BY <1>2, SMTT(30) DEF BodyRead, Started
<1>3. ASSUME NEW c \in Calls, kind = "private", UNCHANGED kind, UNCHANGED downloadVars,
             BodyTooLate(c)
      PROVE  PrivateFreed(c)
  BY <1>3, <1>0, SMTT(30) DEF BodyTooLate, Answer, PrivateFreed, ThreadInv, Alive,
       Active, TypeOK, CallsTypeOK
<1>4. ASSUME NEW c \in Calls, kind = "private", UNCHANGED kind, UNCHANGED downloadVars,
             StrayRead(c)
      PROVE  Idle
  BY <1>4, SMTT(30) DEF StrayRead, Idle
<1>5. ASSUME NEW c \in Calls, kind = "private", UNCHANGED kind, UNCHANGED downloadVars,
             ThreadAnswers(c)
      PROVE  Finished(c)
  BY <1>5, SMTT(30) DEF ThreadAnswers, Finish, Terminating, Finished
<1>6. ASSUME NEW c \in Calls, kind = "private", UNCHANGED kind, UNCHANGED downloadVars,
             WorkTooLate(c)
      PROVE  Finished(c)
  BY <1>6, SMTT(30) DEF WorkTooLate, Finish, Terminating, Finished
<1>7. ASSUME NEW c \in Calls, kind = "private", UNCHANGED kind, UNCHANGED downloadVars,
             Settle(c)
      PROVE  PrivateFreed(c)
  BY <1>7, <1>0, SMTT(30) DEF Settle, Answer, PrivateFreed, ThreadInv, Alive, Active,
       TypeOK, CallsTypeOK
<1>8. ASSUME NEW c \in Calls, kind = "private", UNCHANGED kind, UNCHANGED downloadVars,
             GracePasses(c)
      PROVE  Poisoned(c)
  BY <1>8, SMTT(30) DEF GracePasses, Answer, Poisoned, Alive, Active
<1>9. ASSUME NEW c \in Calls, kind = "private", UNCHANGED kind, UNCHANGED downloadVars,
             Receive(c)
      PROVE  Idle
  BY <1>9, SMTT(30) DEF Receive, Idle
<1>10. ASSUME NEW c \in Calls, kind = "private", UNCHANGED kind, UNCHANGED downloadVars,
              GiveUp(c)
       PROVE  Idle
  BY <1>10, SMTT(30) DEF GiveUp, Idle
<1>11. ASSUME NEW c \in Calls, kind = "private", UNCHANGED kind, UNCHANGED downloadVars,
              RequestClosed(c)
       PROVE  Idle
  BY <1>11, SMTT(30) DEF RequestClosed, Idle
<1>12. ASSUME NEW c \in Calls, kind = "private", UNCHANGED kind, UNCHANGED downloadVars,
              BodyFails(c)
       PROVE  PrivateFreed(c)
  BY <1>12, <1>0, SMTT(30) DEF BodyFails, Answer, PrivateFreed, ThreadInv, Alive,
       Active, TypeOK, CallsTypeOK
<1>13. ASSUME NEW c \in Calls, kind = "private", UNCHANGED kind, UNCHANGED downloadVars,
              ThreadDies(c)
       PROVE  Finished(c)
  BY <1>13, SMTT(30) DEF ThreadDies, Finish, Finished
<1>14. ASSUME NEW c \in Calls, kind = "private", UNCHANGED kind, UNCHANGED downloadVars,
              TerminateThrows(c)
       PROVE  Poisoned(c)
  BY <1>14, SMTT(30) DEF TerminateThrows, Answer, Poisoned, Alive, Active
<1>15. ASSUME NEW c \in Calls, kind = "private", UNCHANGED kind, UNCHANGED downloadVars,
              TerminateRejects(c)
       PROVE  Poisoned(c)
  BY <1>15, SMTT(30) DEF TerminateRejects, Answer, Poisoned, Alive, Active
<1>16. ASSUME NEW c \in Calls, kind = "private", UNCHANGED kind, Begin(c) PROVE Idle
  BY <1>16, SMTT(30) DEF Begin, Reject, Idle
<1>17. ASSUME NEW c \in Calls, kind = "private", UNCHANGED kind, OnResponse(c) PROVE Idle
  BY <1>17, SMTT(30) DEF OnResponse, Fail, Reject, Cleaned, Idle
<1>18. ASSUME NEW c \in Calls, kind = "private", UNCHANGED kind, OnData(c) PROVE Idle
  BY <1>18, SMTT(30) DEF OnData, Fail, Reject, Cleaned, Idle
<1>19. ASSUME NEW c \in Calls, kind = "private", UNCHANGED kind, OnEnd(c) PROVE Idle
  BY <1>19, SMTT(30) DEF OnEnd, Succeed, Fail, Reject, Cleaned, Idle
<1>20. ASSUME NEW c \in Calls, kind = "private", UNCHANGED kind, DownloadTimesOut(c)
       PROVE  Idle
  BY <1>20, SMTT(30) DEF DownloadTimesOut, Fail, Reject, Cleaned, Idle
<1>21. ASSUME NEW c \in Calls, kind = "private", UNCHANGED kind, DownloadAborts(c)
       PROVE  Idle
  BY <1>21, SMTT(30) DEF DownloadAborts, Fail, Reject, Cleaned, Idle
<1>22. ASSUME NEW c \in Calls, kind = "private", UNCHANGED kind, Consume(c) PROVE Idle
  BY <1>22, SMTT(30) DEF Consume, Extract, RejectInput, Idle
<1>23. ASSUME NEW c \in Calls, kind = "private", UNCHANGED kind, ConsumerEnds(c) PROVE Idle
  BY <1>23, SMTT(30) DEF ConsumerEnds, Reject, Cleaned, Idle
<1>24. ASSUME NEW c \in Calls, kind = "private", UNCHANGED kind, BeginRefused(c) PROVE Idle
  BY <1>24, SMTT(30) DEF BeginRefused, Reject, Idle
<1>25. ASSUME NEW c \in Calls, kind = "private", UNCHANGED kind, OnStreamError(c) PROVE Idle
  BY <1>25, SMTT(30) DEF OnStreamError, Fail, Reject, Cleaned, Idle
<1>26. ASSUME NEW c \in Calls, kind = "pdf", UNCHANGED kind, UNCHANGED downloadVars,
              PdfHandleRequest(c)
       PROVE  Refused(c) \/ Taken(c)
  BY <1>26, <1>0, PdfVerdictFacts, SMTT(30) DEF PdfHandleRequest, Refused, Taken
<1>27. ASSUME NEW c \in Calls, kind = "pdf", UNCHANGED kind, UNCHANGED downloadVars,
              PdfBodyRead(c)
       PROVE  Started(c)
  BY <1>27, SMTT(30) DEF PdfBodyRead, Started
<1>28. ASSUME NEW c \in Calls, kind = "pdf", UNCHANGED kind, UNCHANGED downloadVars,
              PdfBodyTooLate(c)
       PROVE  PdfFreed(c)
  BY <1>28, <1>0, SMTT(30) DEF PdfBodyTooLate, PdfAnswer, PdfFreed, ThreadInv, Alive,
       Active, TypeOK, CallsTypeOK
<1>29. ASSUME NEW c \in Calls, kind = "pdf", UNCHANGED kind, UNCHANGED downloadVars,
              PdfThreadAnswers(c)
       PROVE  Finished(c)
  BY <1>29, SMTT(30) DEF PdfThreadAnswers, PdfFinish, Terminating, Finished
<1>30. ASSUME NEW c \in Calls, kind = "pdf", UNCHANGED kind, UNCHANGED downloadVars,
              PdfWorkAborted(c)
       PROVE  Finished(c)
  BY <1>30, SMTT(30) DEF PdfWorkAborted, PdfFinish, Terminating, Finished
<1>31. ASSUME NEW c \in Calls, kind = "pdf", UNCHANGED kind, UNCHANGED downloadVars,
              PdfWorkTooLate(c)
       PROVE  PdfFreed(c)
  BY <1>31, <1>0, SMTT(30) DEF PdfWorkTooLate, PdfAnswer, PdfFreed, ThreadInv, Alive,
       Active, TypeOK, CallsTypeOK
<1>32. ASSUME NEW c \in Calls, kind = "pdf", UNCHANGED kind, UNCHANGED downloadVars,
              PdfSettle(c)
       PROVE  PdfFreed(c)
  BY <1>32, <1>0, SMTT(30) DEF PdfSettle, PdfAnswer, PdfFreed, ThreadInv, Alive, Active,
       TypeOK, CallsTypeOK
<1>33. ASSUME NEW c \in Calls, kind = "pdf", UNCHANGED kind, UNCHANGED downloadVars,
              PdfDeadline(c)
       PROVE  PdfFreed(c)
  BY <1>33, <1>0, SMTT(30) DEF PdfDeadline, PdfAnswer, PdfFreed, ThreadInv, Alive,
       Active, TypeOK, CallsTypeOK
<1>34. ASSUME NEW c \in Calls, kind = "pdf", UNCHANGED kind, UNCHANGED downloadVars,
              PdfExtract(c)
       PROVE  Idle
  BY <1>34, SMTT(30) DEF PdfExtract, Idle
<1>35. ASSUME NEW c \in Calls, kind = "pdf", UNCHANGED kind, UNCHANGED downloadVars,
              PdfReceive(c)
       PROVE  Idle
  BY <1>35, SMTT(30) DEF PdfReceive, Idle
<1>36. ASSUME NEW c \in Calls, kind = "pdf", UNCHANGED kind, UNCHANGED downloadVars,
              PdfGiveUp(c)
       PROVE  Idle
  BY <1>36, SMTT(30) DEF PdfGiveUp, Idle
<1>37. ASSUME NEW c \in Calls, kind = "pdf", UNCHANGED kind, UNCHANGED downloadVars,
              PdfBodyFails(c)
       PROVE  PdfFreed(c)
  BY <1>37, <1>0, SMTT(30) DEF PdfBodyFails, PdfAnswer, PdfFreed, ThreadInv, Alive,
       Active, TypeOK, CallsTypeOK
<1>38. ASSUME NEW c \in Calls, kind = "pdf", UNCHANGED kind, UNCHANGED downloadVars,
              PdfThreadDies(c)
       PROVE  Finished(c)
  BY <1>38, SMTT(30) DEF PdfThreadDies, PdfFinish, Finished
<1>39. ASSUME NEW c \in Calls, UNCHANGED kind, UNCHANGED downloadVars, ThreadStops(c)
       PROVE  Stopped(c)
  BY <1>39, SMTT(30) DEF ThreadStops, Stopped, Alive, Active
<1>40. ASSUME NEW c \in Calls, UNCHANGED kind, UNCHANGED downloadVars, ThreadHangs(c)
       PROVE  Stopped(c)
  BY <1>40, SMTT(30) DEF ThreadHangs, Stopped, Alive, Active
<1>41. ASSUME NEW c \in Calls, UNCHANGED kind, UNCHANGED downloadVars, CallerAborts(c)
       PROVE  Idle
  BY <1>41, SMTT(30) DEF CallerAborts, Idle
<1>42. ASSUME UNCHANGED kind, UNCHANGED downloadVars, Crash PROVE Died
  BY <1>42, <1>0, SMTT(30) DEF Crash, Died, Alive, Active, TypeOK, CallsTypeOK
<1>43. ASSUME UNCHANGED kind, UNCHANGED downloadVars, PoisonedExit PROVE Died
  BY <1>43, <1>0, SMTT(30) DEF PoisonedExit, Died, Alive, Active, ThreadInv, SlotIsHeld,
       TypeOK, CallsTypeOK
<1>44. ASSUME UNCHANGED kind, UNCHANGED downloadVars, Restart PROVE Restart
  BY <1>44
<1>45. ASSUME UNCHANGED vars PROVE Idle
  BY <1>45, SMT DEF vars, downloadVars, Idle
<1> QED
  BY <1>1, <1>2, <1>3, <1>4, <1>5, <1>6, <1>7, <1>8, <1>9, <1>10, <1>11, <1>12, <1>13,
       <1>14, <1>15, <1>16, <1>17, <1>18, <1>19, <1>20, <1>21, <1>22, <1>23, <1>24,
       <1>25, <1>26, <1>27, <1>28, <1>29, <1>30, <1>31, <1>32, <1>33, <1>34, <1>35,
       <1>36, <1>37, <1>38, <1>39, <1>40, <1>41, <1>42, <1>43, <1>44, <1>45 DEF
       CoreMove, Next, Private, PrivateFails, Pdf, PdfFails, Aborts, Process,
       ProcessStep, PrivateStep, PrivateFault, DownloadStep, DownloadFault, PdfStep,
       PdfFault, Quiescent

\* A behaviour stays with its extractor.
LEMMA KindKept == [Next]_vars => kind' = kind
<1> SUFFICES ASSUME [Next]_vars PROVE kind' = kind
  OBVIOUS
<1>1. CASE Next
  BY <1>1 DEF Next, Private, PrivateFails, Pdf, PdfFails, Aborts, Process, Quiescent, vars
<1>2. CASE UNCHANGED vars
  BY <1>2 DEF vars
<1> QED BY <1>1, <1>2

\* The slot is busy exactly while one call is being served: SlotIsHeld with
\* its witness.
LEMMA Held ==
  ASSUME SlotIsHeld, up, NEW c \in Calls, serving[c] \in Active
  PROVE  slot = "busy" /\ \A d \in Calls : serving[d] \in Active => d = c
BY DEF SlotIsHeld

\* The moves keep the slot and the threads in step.
LEMMA SlotStep == IInv /\ [Next]_vars => (ThreadInv /\ SlotGuardsParser)'
<1> SUFFICES ASSUME IInv, [Next]_vars PROVE (ThreadInv /\ SlotGuardsParser)'
  OBVIOUS
<1> DEFINE Goal == ThreadInv' /\ OneParser' /\ SlotIsHeld' /\ PoisonCoversThreads'
<1>0. /\ TypeOK /\ ThreadInv /\ OneParser /\ SlotIsHeld /\ PoisonCoversThreads
      /\ kind' = kind
  BY KindKept DEF IInv, SlotGuardsParser
<1>a. /\ slot \in {"available", "busy", "poisoned"}
      /\ serving \in [Calls -> {"none", "answered", "reading", "working", "finishing"}]
      /\ thread \in [Calls -> {"none", "gone", "running", "stopping", "stuck"}]
  BY <1>0 DEF TypeOK, CallsTypeOK, Active, Alive
<1> USE DEF ThreadInv, OneParser, SlotIsHeld, PoisonCoversThreads, Active, Alive
<1>1. ASSUME Idle PROVE Goal
  <2>1. ThreadInv'
    BY <1>1, <1>0, SMTT(30) DEF Idle
  <2>2. OneParser'
    BY <1>1, <1>0, SMTT(30) DEF Idle
  <2>3. SlotIsHeld'
    BY <1>1, <1>0, SMTT(30) DEF Idle
  <2>4. PoisonCoversThreads'
    BY <1>1, <1>0, SMTT(30) DEF Idle
  <2> QED BY <2>1, <2>2, <2>3, <2>4
<1>2. ASSUME Died PROVE Goal
  <2>1. ThreadInv'
    BY <1>2, <1>0, SMTT(30) DEF Died
  <2>2. OneParser'
    BY <1>2, <1>0, SMTT(30) DEF Died
  <2>3. SlotIsHeld'
    BY <1>2, <1>0, SMTT(30) DEF Died
  <2>4. PoisonCoversThreads'
    BY <1>2, <1>0, SMTT(30) DEF Died
  <2> QED BY <2>1, <2>2, <2>3, <2>4
<1>3. ASSUME Restart PROVE Goal
  <2>1. ThreadInv'
    BY <1>3, <1>0, <1>a, SMTT(30) DEF Restart
  <2>2. OneParser'
    BY <1>3, <1>0, <1>a, SMTT(30) DEF Restart
  <2>3. SlotIsHeld'
    BY <1>3, <1>0, <1>a, SMTT(30) DEF Restart
  <2>4. PoisonCoversThreads'
    BY <1>3, <1>0, <1>a, SMTT(30) DEF Restart
  <2> QED BY <2>1, <2>2, <2>3, <2>4
<1>4. ASSUME NEW c \in Calls, Refused(c) PROVE Goal
  <2>a. /\ serving'[c] = "answered" /\ thread'[c] = thread[c]
        /\ \A d \in Calls : d # c => serving'[d] = serving[d] /\ thread'[d] = thread[d]
    BY <1>4, <1>a, SMTT(30) DEF Refused, Moved
  <2>b. up /\ up' /\ thread[c] \notin Alive
    BY <1>4, <1>0, <1>a DEF Refused, Moved
  <2>1. ThreadInv'
    BY <1>4, <1>0, <1>a, <2>a, <2>b, SMTT(30) DEF Refused
  <2>2. OneParser'
    BY <1>4, <1>0, <1>a, <2>a, <2>b, SMTT(30) DEF Refused
  <2>3. SlotIsHeld'
    <3>1. \A d \in Calls : serving'[d] \in Active <=> serving[d] \in Active
      BY <1>4, <1>a, <2>a DEF Refused, Moved
    <3>2. slot' = slot /\ up
      BY <1>4, <2>b DEF Refused
    <3> QED BY <1>0, <3>1, <3>2, SMT
  <2>4. PoisonCoversThreads'
    BY <1>4, <1>0, <1>a, <2>a, <2>b, SMTT(30) DEF Refused
  <2> QED BY <2>1, <2>2, <2>3, <2>4
<1>5. ASSUME NEW c \in Calls, Taken(c) PROVE Goal
  <2>a. /\ serving'[c] = "reading" /\ thread'[c] = thread[c]
        /\ \A d \in Calls : d # c => serving'[d] = serving[d] /\ thread'[d] = thread[d]
    BY <1>5, <1>a, SMTT(30) DEF Taken, Moved
  <2>b. up /\ up' /\ thread[c] \notin Alive /\ \A d \in Calls : serving[d] \notin Active
    BY <1>5, <1>0, <1>a DEF Taken, Moved
  <2>1. ThreadInv'
    BY <1>5, <1>0, <1>a, <2>a, <2>b, SMTT(30) DEF Taken
  <2>2. OneParser'
    BY <1>5, <1>0, <1>a, <2>a, <2>b, SMTT(30) DEF Taken
  <2>3. SlotIsHeld'
    BY <1>5, <1>0, <1>a, <2>a, <2>b, SMTT(30) DEF Taken
  <2>4. PoisonCoversThreads'
    BY <1>5, <1>0, <1>a, <2>a, <2>b, SMTT(30) DEF Taken
  <2> QED BY <2>1, <2>2, <2>3, <2>4
<1>6. ASSUME NEW c \in Calls, Started(c) PROVE Goal
  <2>a. /\ serving'[c] = "working" /\ thread'[c] = "running"
        /\ \A d \in Calls : d # c => serving'[d] = serving[d] /\ thread'[d] = thread[d]
    BY <1>6, <1>a, SMTT(30) DEF Started, Moved
  <2>b. /\ serving[c] \in Active /\ up /\ slot = "busy"
        /\ \A d \in Calls : serving[d] \in Active => d = c
    BY <1>6, <1>0, <1>a DEF Started, Moved
  <2>c. \A d \in Calls : /\ thread[d] # "running"
                         /\ kind = "private" => thread[d] \notin Alive
    <3> SUFFICES ASSUME NEW d \in Calls, thread[d] \in Alive
                 PROVE  thread[d] # "running" /\ kind # "private"
      BY DEF Alive
    <3>1. serving[d] \in {"working", "finishing", "answered"}
      BY <1>0
    <3>2. d # c
      BY <1>6, <3>1 DEF Started, Moved
    <3>3. serving[d] = "answered"
      BY <2>b, <3>1, <3>2
    <3> QED BY <1>0, <2>b, <3>3, SMT DEF TypeOK
  <2>1. ThreadInv'
    BY <1>6, <1>0, <1>a, <2>a, <2>b, <2>c, SMTT(30) DEF Started
  <2>2. OneParser'
    <3>1. \A d \in Calls : d # c => /\ thread'[d] # "running"
                                    /\ kind = "private" => thread'[d] \notin Alive
      <4> SUFFICES ASSUME NEW d \in Calls, d # c
                   PROVE  /\ thread'[d] # "running"
                          /\ kind = "private" => thread'[d] \notin Alive
        OBVIOUS
      <4>1. thread'[d] = thread[d]
        BY <2>a
      <4> QED BY <2>c, <4>1
    <3> QED BY <1>0, <3>1
  <2>3. SlotIsHeld'
    BY <1>6, <1>0, <1>a, <2>a, <2>b, <2>c, SMTT(30) DEF Started
  <2>4. PoisonCoversThreads'
    BY <1>6, <1>0, <1>a, <2>a, <2>b, <2>c, SMTT(30) DEF Started
  <2> QED BY <2>1, <2>2, <2>3, <2>4
<1>7. ASSUME NEW c \in Calls, Finished(c) PROVE Goal
  <2>a. /\ serving'[c] = "finishing" /\ thread'[c] # "running"
        /\ thread'[c] \in Alive => thread[c] \in Alive
        /\ \A d \in Calls : d # c => serving'[d] = serving[d] /\ thread'[d] = thread[d]
    BY <1>7, <1>a, SMTT(30) DEF Finished, Moved, Terminating
  <2>b. /\ serving[c] \in Active /\ up /\ slot = "busy"
        /\ \A d \in Calls : serving[d] \in Active => d = c
    BY <1>7, <1>0, <1>a DEF Finished, Moved
  <2>1. ThreadInv'
    BY <1>7, <1>0, <1>a, <2>a, <2>b, SMTT(30) DEF Finished
  <2>2. OneParser'
    BY <1>7, <1>0, <1>a, <2>a, <2>b, SMTT(30) DEF Finished
  <2>3. SlotIsHeld'
    BY <1>7, <1>0, <1>a, <2>a, <2>b, SMTT(30) DEF Finished
  <2>4. PoisonCoversThreads'
    BY <1>7, <1>0, <1>a, <2>a, <2>b, SMTT(30) DEF Finished
  <2> QED BY <2>1, <2>2, <2>3, <2>4
<1>9. ASSUME NEW c \in Calls, PrivateFreed(c) PROVE Goal
  <2>a. /\ serving'[c] = "answered" /\ thread'[c] = thread[c]
        /\ \A d \in Calls : d # c => serving'[d] = serving[d] /\ thread'[d] = thread[d]
    BY <1>9, <1>a, SMTT(30) DEF PrivateFreed, Moved
  <2>b. /\ serving[c] \in Active /\ up /\ slot = "busy"
        /\ \A d \in Calls : serving[d] \in Active => d = c
    BY <1>9, <1>0, <1>a DEF PrivateFreed, Moved
  <2>1. ThreadInv'
    BY <1>9, <1>0, <1>a, <2>a, <2>b, SMTT(30) DEF PrivateFreed
  <2>2. OneParser'
    BY <1>9, <1>0, <1>a, <2>a, <2>b, SMTT(30) DEF PrivateFreed
  <2>3. SlotIsHeld'
    BY <1>9, <1>0, <1>a, <2>a, <2>b, SMTT(30) DEF PrivateFreed
  <2>4. PoisonCoversThreads'
    BY <1>9, <1>0, <1>a, <2>a, <2>b, SMTT(30) DEF PrivateFreed
  <2> QED BY <2>1, <2>2, <2>3, <2>4
<1>10. ASSUME NEW c \in Calls, PdfFreed(c) PROVE Goal
  <2>a. /\ serving'[c] = "answered" /\ thread'[c] # "running"
        /\ thread'[c] \in Alive => thread[c] \in Alive
        /\ \A d \in Calls : d # c => serving'[d] = serving[d] /\ thread'[d] = thread[d]
    BY <1>10, <1>a, SMTT(30) DEF PdfFreed, Moved, Terminating
  <2>b. /\ serving[c] \in Active /\ up /\ slot = "busy"
        /\ \A d \in Calls : serving[d] \in Active => d = c
    BY <1>10, <1>0, <1>a DEF PdfFreed, Moved
  <2>1. ThreadInv'
    BY <1>10, <1>0, <1>a, <2>a, <2>b, SMTT(30) DEF PdfFreed
  <2>2. OneParser'
    BY <1>10, <1>0, <1>a, <2>a, <2>b, SMTT(30) DEF PdfFreed
  <2>3. SlotIsHeld'
    BY <1>10, <1>0, <1>a, <2>a, <2>b, SMTT(30) DEF PdfFreed
  <2>4. PoisonCoversThreads'
    BY <1>10, <1>0, <1>a, <2>a, <2>b, SMTT(30) DEF PdfFreed
  <2> QED BY <2>1, <2>2, <2>3, <2>4
<1>11. ASSUME NEW c \in Calls, Poisoned(c) PROVE Goal
  <2>a. /\ serving'[c] = "answered" /\ thread'[c] = thread[c]
        /\ \A d \in Calls : d # c => serving'[d] = serving[d] /\ thread'[d] = thread[d]
    BY <1>11, <1>a, SMTT(30) DEF Poisoned, Moved
  <2>b. /\ serving[c] \in Active /\ up /\ slot = "busy"
        /\ \A d \in Calls : serving[d] \in Active => d = c
    BY <1>11, <1>0, <1>a DEF Poisoned, Moved
  <2>1. ThreadInv'
    BY <1>11, <1>0, <1>a, <2>a, <2>b, SMTT(30) DEF Poisoned
  <2>2. OneParser'
    BY <1>11, <1>0, <1>a, <2>a, <2>b, SMTT(30) DEF Poisoned
  <2>3. SlotIsHeld'
    BY <1>11, <1>0, <1>a, <2>a, <2>b, SMTT(30) DEF Poisoned
  <2>4. PoisonCoversThreads'
    BY <1>11, <1>0, <1>a, <2>a, <2>b, SMTT(30) DEF Poisoned
  <2> QED BY <2>1, <2>2, <2>3, <2>4
<1>8. ASSUME NEW c \in Calls, Stopped(c) PROVE Goal
  <2>a. /\ thread[c] \in Alive /\ thread'[c] # "running"
        /\ \A d \in Calls : d # c => thread'[d] = thread[d]
    BY <1>8, <1>a, SMTT(30) DEF Stopped
  <2>1. ThreadInv'
    BY <1>8, <1>0, <1>a, <2>a, SMTT(30) DEF Stopped
  <2>2. OneParser'
    BY <1>8, <1>0, <1>a, <2>a, SMTT(30) DEF Stopped
  <2>3. SlotIsHeld'
    BY <1>8, <1>0, <1>a, <2>a, SMTT(30) DEF Stopped
  <2>4. PoisonCoversThreads'
    BY <1>8, <1>0, <1>a, <2>a, SMTT(30) DEF Stopped
  <2> QED BY <2>1, <2>2, <2>3, <2>4
<1> QED
  BY <1>1, <1>2, <1>3, <1>4, <1>5, <1>6, <1>7, <1>8, <1>9, <1>10, <1>11, CoreMoves DEF
       CoreMove, SlotGuardsParser

\* A 422 is only ever about a document the parser refuses, and a client that was
\* refused was told so, or has the wrong token.
LEMMA ReplyStep == IInv /\ [Next]_vars => ReplyInv'
<1> SUFFICES ASSUME IInv, [Next]_vars, kind = "private", kind' = "private", NEW x \in Calls
             PROVE  /\ outcome'[x] \in {0, 200, 503, 504}
                                       \cup (IF x \in Unparsable THEN {422} ELSE {})
                    /\ reply'[x] \in {0, 200, 401, 429, 503, 504}
                                     \cup (IF x \in Unparsable THEN {422} ELSE {})
                    /\ reply'[x] # 0 => serving'[x] = "answered"
                    /\ client'[x] = "refused" => x \in Unparsable \/ reply'[x] = 401
  BY KindKept DEF ReplyInv
<1>a. /\ outcome[x] \in {0, 200, 503, 504} \cup (IF x \in Unparsable THEN {422} ELSE {})
      /\ reply[x] \in {0, 200, 401, 429, 503, 504}
                      \cup (IF x \in Unparsable THEN {422} ELSE {})
      /\ reply[x] # 0 => serving[x] = "answered"
      /\ client[x] = "refused" => x \in Unparsable \/ reply[x] = 401
  BY DEF IInv, ReplyInv
<1>b. /\ outcome \in [Calls -> Statuses \cup {0}] /\ reply \in [Calls -> Statuses \cup {0}]
      /\ serving \in [Calls -> {"none", "answered", "reading", "working", "finishing"}]
      /\ client \in [Calls -> {"idle", "waiting"} \cup Settlements]
  BY DEF IInv, TypeOK, CallsTypeOK, Active
<1> DEFINE Goal ==
      /\ outcome'[x] \in {0, 200, 503, 504} \cup (IF x \in Unparsable THEN {422} ELSE {})
      /\ reply'[x] \in {0, 200, 401, 429, 503, 504}
                       \cup (IF x \in Unparsable THEN {422} ELSE {})
      /\ reply'[x] # 0 => serving'[x] = "answered"
      /\ client'[x] = "refused" => x \in Unparsable \/ reply'[x] = 401
<1> USE DEF Active, callVars, processVars, serverVars, clientVars, downloadVars, Fault,
     NoFault
<1>1. ASSUME NEW c \in Calls, kind = "private", UNCHANGED kind, UNCHANGED downloadVars,
             HandleRequest(c)
      PROVE  Goal
  <2>1. TypeOK
    BY DEF IInv
  <2>2. \A r \in Requests : RequestVerdict(r) \in {0, 401, 429, 503}
    BY <2>1, VerdictFacts
  <2> QED BY <1>1, <1>a, <1>b, <2>2, SMTT(30) DEF HandleRequest
<1>2. ASSUME NEW c \in Calls, kind = "private", UNCHANGED kind, UNCHANGED downloadVars,
             BodyRead(c)
      PROVE  Goal
  BY <1>2, <1>a, <1>b, SMTT(30) DEF BodyRead
<1>3. ASSUME NEW c \in Calls, kind = "private", UNCHANGED kind, UNCHANGED downloadVars,
             BodyTooLate(c)
      PROVE  Goal
  BY <1>3, <1>a, <1>b, SMTT(30) DEF BodyTooLate, Answer
<1>4. ASSUME NEW c \in Calls, kind = "private", UNCHANGED kind, UNCHANGED downloadVars,
             StrayRead(c)
      PROVE  Goal
  BY <1>4, <1>a, <1>b, SMTT(30) DEF StrayRead
<1>5. ASSUME NEW c \in Calls, kind = "private", UNCHANGED kind, UNCHANGED downloadVars,
             ThreadAnswers(c)
      PROVE  Goal
  BY <1>5, <1>a, <1>b, SMTT(30) DEF ThreadAnswers, Finish
<1>6. ASSUME NEW c \in Calls, kind = "private", UNCHANGED kind, UNCHANGED downloadVars,
             WorkTooLate(c)
      PROVE  Goal
  BY <1>6, <1>a, <1>b, SMTT(30) DEF WorkTooLate, Finish
<1>7. ASSUME NEW c \in Calls, kind = "private", UNCHANGED kind, UNCHANGED downloadVars,
             Settle(c)
      PROVE  Goal
  BY <1>7, <1>a, <1>b, SMTT(30) DEF Settle, Answer
<1>8. ASSUME NEW c \in Calls, kind = "private", UNCHANGED kind, UNCHANGED downloadVars,
             GracePasses(c)
      PROVE  Goal
  BY <1>8, <1>a, <1>b, SMTT(30) DEF GracePasses, Answer
<1>9. ASSUME NEW c \in Calls, kind = "private", UNCHANGED kind, UNCHANGED downloadVars,
             Receive(c)
      PROVE  Goal
  BY <1>9, <1>a, <1>b, SMTT(30) DEF Receive, RetryableStatus
<1>10. ASSUME NEW c \in Calls, kind = "private", UNCHANGED kind, UNCHANGED downloadVars,
              GiveUp(c)
       PROVE  Goal
  BY <1>10, <1>a, <1>b, SMTT(30) DEF GiveUp, Broken
<1>11. ASSUME NEW c \in Calls, kind = "private", UNCHANGED kind, UNCHANGED downloadVars,
              RequestClosed(c)
       PROVE  Goal
  BY <1>11, <1>a, <1>b, SMTT(30) DEF RequestClosed
<1>12. ASSUME NEW c \in Calls, kind = "private", UNCHANGED kind, UNCHANGED downloadVars,
              BodyFails(c)
       PROVE  Goal
  BY <1>12, <1>a, <1>b, SMTT(30) DEF BodyFails, Answer
<1>13. ASSUME NEW c \in Calls, kind = "private", UNCHANGED kind, UNCHANGED downloadVars,
              ThreadDies(c)
       PROVE  Goal
  BY <1>13, <1>a, <1>b, SMTT(30) DEF ThreadDies, Finish
<1>14. ASSUME NEW c \in Calls, kind = "private", UNCHANGED kind, UNCHANGED downloadVars,
              TerminateThrows(c)
       PROVE  Goal
  BY <1>14, <1>a, <1>b, SMTT(30) DEF TerminateThrows, Answer
<1>15. ASSUME NEW c \in Calls, kind = "private", UNCHANGED kind, UNCHANGED downloadVars,
              TerminateRejects(c)
       PROVE  Goal
  BY <1>15, <1>a, <1>b, SMTT(30) DEF TerminateRejects, Answer
<1>16. ASSUME NEW c \in Calls, kind = "private", UNCHANGED kind, Begin(c) PROVE Goal
  BY <1>16, <1>a, <1>b, SMTT(30) DEF Begin, Reject
<1>17. ASSUME NEW c \in Calls, kind = "private", UNCHANGED kind, OnResponse(c) PROVE Goal
  BY <1>17, <1>a, <1>b, SMTT(30) DEF OnResponse, Fail, Reject, Cleaned
<1>18. ASSUME NEW c \in Calls, kind = "private", UNCHANGED kind, OnData(c) PROVE Goal
  BY <1>18, <1>a, <1>b, SMTT(30) DEF OnData, Fail, Reject, Cleaned
<1>19. ASSUME NEW c \in Calls, kind = "private", UNCHANGED kind, OnEnd(c) PROVE Goal
  BY <1>19, <1>a, <1>b, SMTT(30) DEF OnEnd, Succeed, Fail, Reject, Cleaned
<1>20. ASSUME NEW c \in Calls, kind = "private", UNCHANGED kind, DownloadTimesOut(c)
       PROVE  Goal
  BY <1>20, <1>a, <1>b, SMTT(30) DEF DownloadTimesOut, Fail, Reject, Cleaned
<1>21. ASSUME NEW c \in Calls, kind = "private", UNCHANGED kind, DownloadAborts(c)
       PROVE  Goal
  BY <1>21, <1>a, <1>b, SMTT(30) DEF DownloadAborts, Fail, Reject, Cleaned
<1>22. ASSUME NEW c \in Calls, kind = "private", UNCHANGED kind, Consume(c) PROVE Goal
  BY <1>22, <1>a, <1>b, SMTT(30) DEF Consume, Extract, RejectInput
<1>23. ASSUME NEW c \in Calls, kind = "private", UNCHANGED kind, ConsumerEnds(c) PROVE Goal
  BY <1>23, <1>a, <1>b, SMTT(30) DEF ConsumerEnds, Reject, Cleaned
<1>24. ASSUME NEW c \in Calls, kind = "private", UNCHANGED kind, BeginRefused(c) PROVE Goal
  BY <1>24, <1>a, <1>b, SMTT(30) DEF BeginRefused, Reject
<1>25. ASSUME NEW c \in Calls, kind = "private", UNCHANGED kind, OnStreamError(c) PROVE Goal
  BY <1>25, <1>a, <1>b, SMTT(30) DEF OnStreamError, Fail, Reject, Cleaned
<1>26. ASSUME NEW c \in Calls, UNCHANGED kind, UNCHANGED downloadVars, ThreadStops(c)
       PROVE  Goal
  BY <1>26, <1>a, <1>b, SMTT(30) DEF ThreadStops
<1>27. ASSUME NEW c \in Calls, UNCHANGED kind, UNCHANGED downloadVars, ThreadHangs(c)
       PROVE  Goal
  BY <1>27, <1>a, <1>b, SMTT(30) DEF ThreadHangs
<1>28. ASSUME NEW c \in Calls, UNCHANGED kind, UNCHANGED downloadVars, CallerAborts(c)
       PROVE  Goal
  BY <1>28, <1>a, <1>b, SMTT(30) DEF CallerAborts
<1>29. ASSUME UNCHANGED kind, UNCHANGED downloadVars, Crash PROVE Goal
  BY <1>29, <1>a, <1>b, SMTT(30) DEF Crash
<1>30. ASSUME UNCHANGED kind, UNCHANGED downloadVars, PoisonedExit PROVE Goal
  BY <1>30, <1>a, <1>b, SMTT(30) DEF PoisonedExit
<1>31. ASSUME UNCHANGED kind, UNCHANGED downloadVars, Restart PROVE Goal
  BY <1>31, <1>a, <1>b, SMTT(30) DEF Restart
<1>32. ASSUME UNCHANGED vars PROVE Goal
  BY <1>32, <1>a, SMT DEF vars
<1> QED
  BY <1>1, <1>2, <1>3, <1>4, <1>5, <1>6, <1>7, <1>8, <1>9, <1>10, <1>11, <1>12, <1>13,
       <1>14, <1>15, <1>16, <1>17, <1>18, <1>19, <1>20, <1>21, <1>22, <1>23, <1>24,
       <1>25, <1>26, <1>27, <1>28, <1>29, <1>30, <1>31, <1>32 DEF Next, Private,
       PrivateFails, Pdf, PdfFails, Aborts, Process, ProcessStep, PrivateStep,
       PrivateFault, DownloadStep, DownloadFault, Quiescent

\* A failed download stays as it is, and its buffer wiped.
LEMMA DownloadMoves ==
  IInv /\ [Next]_vars =>
    /\ FailureInv'
    /\ \A x \in Calls : download[x] = "failed" =>
         /\ download'[x] = "failed" /\ failure'[x] = failure[x]
         /\ buffer'[x] = "zero" /\ started'[x] = started[x]
<1> SUFFICES ASSUME IInv, [Next]_vars, NEW x \in Calls
             PROVE  /\ failure'[x] = 499 => signal'[x]
                    /\ download'[x] \in {"idle", "failed"} => buffer'[x] = "zero"
                    /\ download[x] = "failed" =>
                         /\ download'[x] = "failed" /\ failure'[x] = failure[x]
                         /\ buffer'[x] = "zero" /\ started'[x] = started[x]
  BY DEF FailureInv
<1>a. /\ failure[x] = 499 => signal[x]
      /\ download[x] \in {"idle", "failed"} => buffer[x] = "zero"
  BY DEF IInv, FailureInv
<1>b. /\ download \in [Calls -> {"idle", "loading", "consuming", "ok", "failed"}]
      /\ failure \in [Calls -> {0, 400, 404, 408, 499, 502, 503}]
      /\ buffer \in [Calls -> {"zero", "part", "whole"}]
      /\ started \in [Calls -> BOOLEAN] /\ signal \in [Calls -> BOOLEAN]
  BY DEF IInv, TypeOK, CallsTypeOK, DownloadTypeOK
<1> DEFINE Goal ==
      /\ failure'[x] = 499 => signal'[x]
      /\ download'[x] \in {"idle", "failed"} => buffer'[x] = "zero"
      /\ download[x] = "failed" =>
           /\ download'[x] = "failed" /\ failure'[x] = failure[x]
           /\ buffer'[x] = "zero" /\ started'[x] = started[x]
<1> USE DEF Loading, callVars, processVars, serverVars, clientVars, downloadVars, Fault,
     NoFault
<1>1. ASSUME NEW c \in Calls, kind = "private", UNCHANGED kind, UNCHANGED downloadVars,
             HandleRequest(c)
      PROVE  Goal
  BY <1>1, <1>a, <1>b, SMTT(30) DEF HandleRequest
<1>2. ASSUME NEW c \in Calls, kind = "private", UNCHANGED kind, UNCHANGED downloadVars,
             BodyRead(c)
      PROVE  Goal
  BY <1>2, <1>a, <1>b, SMTT(30) DEF BodyRead
<1>3. ASSUME NEW c \in Calls, kind = "private", UNCHANGED kind, UNCHANGED downloadVars,
             BodyTooLate(c)
      PROVE  Goal
  BY <1>3, <1>a, <1>b, SMTT(30) DEF BodyTooLate, Answer
<1>4. ASSUME NEW c \in Calls, kind = "private", UNCHANGED kind, UNCHANGED downloadVars,
             StrayRead(c)
      PROVE  Goal
  BY <1>4, <1>a, <1>b, SMTT(30) DEF StrayRead
<1>5. ASSUME NEW c \in Calls, kind = "private", UNCHANGED kind, UNCHANGED downloadVars,
             ThreadAnswers(c)
      PROVE  Goal
  BY <1>5, <1>a, <1>b, SMTT(30) DEF ThreadAnswers, Finish
<1>6. ASSUME NEW c \in Calls, kind = "private", UNCHANGED kind, UNCHANGED downloadVars,
             WorkTooLate(c)
      PROVE  Goal
  BY <1>6, <1>a, <1>b, SMTT(30) DEF WorkTooLate, Finish
<1>7. ASSUME NEW c \in Calls, kind = "private", UNCHANGED kind, UNCHANGED downloadVars,
             Settle(c)
      PROVE  Goal
  BY <1>7, <1>a, <1>b, SMTT(30) DEF Settle, Answer
<1>8. ASSUME NEW c \in Calls, kind = "private", UNCHANGED kind, UNCHANGED downloadVars,
             GracePasses(c)
      PROVE  Goal
  BY <1>8, <1>a, <1>b, SMTT(30) DEF GracePasses, Answer
<1>9. ASSUME NEW c \in Calls, kind = "private", UNCHANGED kind, UNCHANGED downloadVars,
             Receive(c)
      PROVE  Goal
  BY <1>9, <1>a, <1>b, SMTT(30) DEF Receive
<1>10. ASSUME NEW c \in Calls, kind = "private", UNCHANGED kind, UNCHANGED downloadVars,
              GiveUp(c)
       PROVE  Goal
  BY <1>10, <1>a, <1>b, SMTT(30) DEF GiveUp, Broken
<1>11. ASSUME NEW c \in Calls, kind = "private", UNCHANGED kind, UNCHANGED downloadVars,
              RequestClosed(c)
       PROVE  Goal
  BY <1>11, <1>a, <1>b, SMTT(30) DEF RequestClosed
<1>12. ASSUME NEW c \in Calls, kind = "private", UNCHANGED kind, UNCHANGED downloadVars,
              BodyFails(c)
       PROVE  Goal
  BY <1>12, <1>a, <1>b, SMTT(30) DEF BodyFails, Answer
<1>13. ASSUME NEW c \in Calls, kind = "private", UNCHANGED kind, UNCHANGED downloadVars,
              ThreadDies(c)
       PROVE  Goal
  BY <1>13, <1>a, <1>b, SMTT(30) DEF ThreadDies, Finish
<1>14. ASSUME NEW c \in Calls, kind = "private", UNCHANGED kind, UNCHANGED downloadVars,
              TerminateThrows(c)
       PROVE  Goal
  BY <1>14, <1>a, <1>b, SMTT(30) DEF TerminateThrows, Answer
<1>15. ASSUME NEW c \in Calls, kind = "private", UNCHANGED kind, UNCHANGED downloadVars,
              TerminateRejects(c)
       PROVE  Goal
  BY <1>15, <1>a, <1>b, SMTT(30) DEF TerminateRejects, Answer
<1>16. ASSUME NEW c \in Calls, kind = "private", UNCHANGED kind, Begin(c) PROVE Goal
  BY <1>16, <1>a, <1>b, SMTT(30) DEF Begin, Reject
<1>17. ASSUME NEW c \in Calls, kind = "private", UNCHANGED kind, OnResponse(c) PROVE Goal
  BY <1>17, <1>a, <1>b, SMTT(30) DEF OnResponse, Fail, Reject, Cleaned
<1>18. ASSUME NEW c \in Calls, kind = "private", UNCHANGED kind, OnData(c) PROVE Goal
  BY <1>18, <1>a, <1>b, SMTT(30) DEF OnData, Fail, Reject, Cleaned
<1>19. ASSUME NEW c \in Calls, kind = "private", UNCHANGED kind, OnEnd(c) PROVE Goal
  BY <1>19, <1>a, <1>b, SMTT(30) DEF OnEnd, Succeed, Fail, Reject, Cleaned
<1>20. ASSUME NEW c \in Calls, kind = "private", UNCHANGED kind, DownloadTimesOut(c)
       PROVE  Goal
  BY <1>20, <1>a, <1>b, SMTT(30) DEF DownloadTimesOut, Fail, Reject, Cleaned
<1>21. ASSUME NEW c \in Calls, kind = "private", UNCHANGED kind, DownloadAborts(c)
       PROVE  Goal
  BY <1>21, <1>a, <1>b, SMTT(30) DEF DownloadAborts, Fail, Reject, Cleaned
<1>22. ASSUME NEW c \in Calls, kind = "private", UNCHANGED kind, Consume(c) PROVE Goal
  BY <1>22, <1>a, <1>b, SMTT(30) DEF Consume, Extract, RejectInput
<1>23. ASSUME NEW c \in Calls, kind = "private", UNCHANGED kind, ConsumerEnds(c) PROVE Goal
  BY <1>23, <1>a, <1>b, SMTT(30) DEF ConsumerEnds, Reject, Cleaned
<1>24. ASSUME NEW c \in Calls, kind = "private", UNCHANGED kind, BeginRefused(c) PROVE Goal
  BY <1>24, <1>a, <1>b, SMTT(30) DEF BeginRefused, Reject
<1>25. ASSUME NEW c \in Calls, kind = "private", UNCHANGED kind, OnStreamError(c) PROVE Goal
  BY <1>25, <1>a, <1>b, SMTT(30) DEF OnStreamError, Fail, Reject, Cleaned
<1>26. ASSUME NEW c \in Calls, kind = "pdf", UNCHANGED kind, UNCHANGED downloadVars,
              PdfHandleRequest(c)
       PROVE  Goal
  BY <1>26, <1>a, <1>b, SMTT(30) DEF PdfHandleRequest
<1>27. ASSUME NEW c \in Calls, kind = "pdf", UNCHANGED kind, UNCHANGED downloadVars,
              PdfBodyRead(c)
       PROVE  Goal
  BY <1>27, <1>a, <1>b, SMTT(30) DEF PdfBodyRead
<1>28. ASSUME NEW c \in Calls, kind = "pdf", UNCHANGED kind, UNCHANGED downloadVars,
              PdfBodyTooLate(c)
       PROVE  Goal
  BY <1>28, <1>a, <1>b, SMTT(30) DEF PdfBodyTooLate, PdfAnswer
<1>29. ASSUME NEW c \in Calls, kind = "pdf", UNCHANGED kind, UNCHANGED downloadVars,
              PdfThreadAnswers(c)
       PROVE  Goal
  BY <1>29, <1>a, <1>b, SMTT(30) DEF PdfThreadAnswers, PdfFinish
<1>30. ASSUME NEW c \in Calls, kind = "pdf", UNCHANGED kind, UNCHANGED downloadVars,
              PdfWorkAborted(c)
       PROVE  Goal
  BY <1>30, <1>a, <1>b, SMTT(30) DEF PdfWorkAborted, PdfFinish
<1>31. ASSUME NEW c \in Calls, kind = "pdf", UNCHANGED kind, UNCHANGED downloadVars,
              PdfWorkTooLate(c)
       PROVE  Goal
  BY <1>31, <1>a, <1>b, SMTT(30) DEF PdfWorkTooLate, PdfAnswer
<1>32. ASSUME NEW c \in Calls, kind = "pdf", UNCHANGED kind, UNCHANGED downloadVars,
              PdfSettle(c)
       PROVE  Goal
  BY <1>32, <1>a, <1>b, SMTT(30) DEF PdfSettle, PdfAnswer
<1>33. ASSUME NEW c \in Calls, kind = "pdf", UNCHANGED kind, UNCHANGED downloadVars,
              PdfDeadline(c)
       PROVE  Goal
  BY <1>33, <1>a, <1>b, SMTT(30) DEF PdfDeadline, PdfAnswer
<1>34. ASSUME NEW c \in Calls, kind = "pdf", UNCHANGED kind, UNCHANGED downloadVars,
              PdfExtract(c)
       PROVE  Goal
  BY <1>34, <1>a, <1>b, SMTT(30) DEF PdfExtract
<1>35. ASSUME NEW c \in Calls, kind = "pdf", UNCHANGED kind, UNCHANGED downloadVars,
              PdfReceive(c)
       PROVE  Goal
  BY <1>35, <1>a, <1>b, SMTT(30) DEF PdfReceive
<1>36. ASSUME NEW c \in Calls, kind = "pdf", UNCHANGED kind, UNCHANGED downloadVars,
              PdfGiveUp(c)
       PROVE  Goal
  BY <1>36, <1>a, <1>b, SMTT(30) DEF PdfGiveUp
<1>37. ASSUME NEW c \in Calls, kind = "pdf", UNCHANGED kind, UNCHANGED downloadVars,
              PdfBodyFails(c)
       PROVE  Goal
  BY <1>37, <1>a, <1>b, SMTT(30) DEF PdfBodyFails, PdfAnswer
<1>38. ASSUME NEW c \in Calls, kind = "pdf", UNCHANGED kind, UNCHANGED downloadVars,
              PdfThreadDies(c)
       PROVE  Goal
  BY <1>38, <1>a, <1>b, SMTT(30) DEF PdfThreadDies, PdfFinish
<1>39. ASSUME NEW c \in Calls, UNCHANGED kind, UNCHANGED downloadVars, ThreadStops(c)
       PROVE  Goal
  BY <1>39, <1>a, <1>b, SMTT(30) DEF ThreadStops
<1>40. ASSUME NEW c \in Calls, UNCHANGED kind, UNCHANGED downloadVars, ThreadHangs(c)
       PROVE  Goal
  BY <1>40, <1>a, <1>b, SMTT(30) DEF ThreadHangs
<1>41. ASSUME NEW c \in Calls, UNCHANGED kind, UNCHANGED downloadVars, CallerAborts(c)
       PROVE  Goal
  BY <1>41, <1>a, <1>b, SMTT(30) DEF CallerAborts
<1>42. ASSUME UNCHANGED kind, UNCHANGED downloadVars, Crash PROVE Goal
  BY <1>42, <1>a, <1>b, SMTT(30) DEF Crash
<1>43. ASSUME UNCHANGED kind, UNCHANGED downloadVars, PoisonedExit PROVE Goal
  BY <1>43, <1>a, <1>b, SMTT(30) DEF PoisonedExit
<1>44. ASSUME UNCHANGED kind, UNCHANGED downloadVars, Restart PROVE Goal
  BY <1>44, <1>a, <1>b, SMTT(30) DEF Restart
<1>45. ASSUME UNCHANGED vars PROVE Goal
  BY <1>45, <1>a, SMT DEF vars
<1> QED
  BY <1>1, <1>2, <1>3, <1>4, <1>5, <1>6, <1>7, <1>8, <1>9, <1>10, <1>11, <1>12, <1>13,
       <1>14, <1>15, <1>16, <1>17, <1>18, <1>19, <1>20, <1>21, <1>22, <1>23, <1>24,
       <1>25, <1>26, <1>27, <1>28, <1>29, <1>30, <1>31, <1>32, <1>33, <1>34, <1>35,
       <1>36, <1>37, <1>38, <1>39, <1>40, <1>41, <1>42, <1>43, <1>44, <1>45 DEF Next,
       Private, PrivateFails, Pdf, PdfFails, Aborts, Process, ProcessStep, PrivateStep,
       PrivateFault, DownloadStep, DownloadFault, PdfStep, PdfFault, Quiescent

-----------------------------------------------------------------------------
(* Theorems.                                                               *)

\* The inductive invariant, whatever is sent, hangs, dies or is given up.
THEOREM Invariance == Spec => []IInv
<1>1. IInv /\ [Next]_vars => IInv'
  BY TypeStep, SlotStep, ReplyStep, DownloadMoves DEF IInv
<1> QED BY InitInv, <1>1, PTL DEF Spec

\* Types.
THEOREM TypeCorrect == Spec => []TypeOK
<1>1. IInv => TypeOK
  BY DEF IInv
<1> QED BY <1>1, Invariance, PTL

\* No two parsers, and a slot that is neither lost nor given away twice, for
\* any number of calls, faults and crashes.
THEOREM SlotGuardsParserThm == Spec => []SlotGuardsParser
<1>1. IInv => SlotGuardsParser
  BY DEF IInv
<1> QED BY <1>1, Invariance, PTL

\* Only the document, Telegram's answer, the download's time or the token can
\* make a failure final for the user.
THEOREM TerminalIsDeservedThm == Spec => []TerminalIsDeserved
<1>1. IInv => TerminalIsDeserved
  <2> SUFFICES ASSUME IInv, NEW c \in Calls, kind = "private", download[c] = "failed",
                      ~signal[c], ~Retryable(c)
               PROVE  c \in Unparsable \/ failure[c] \in {400, 404, 408} \/ reply[c] = 401
    BY DEF TerminalIsDeserved
  <2>1. CASE failure[c] = 0
    <3>1. client[c] = "refused"
      BY <2>1 DEF Retryable
    <3> QED BY <3>1 DEF IInv, ReplyInv
  <2>2. CASE failure[c] # 0
    <3>1. failure[c] \in {400, 404, 408, 499, 502, 503}
      BY <2>2 DEF IInv, TypeOK, DownloadTypeOK
    <3>2. failure[c] \in {400, 404, 408, 499}
      BY <2>2, <3>1, SMT DEF Retryable
    <3>3. failure[c] # 499
      BY DEF IInv, FailureInv
    <3> QED BY <3>2, <3>3
  <2> QED BY <2>1, <2>2
<1> QED BY <1>1, Invariance, PTL

\* What comes after a download's failure changes nothing any more.
THEOREM FailedIsFinalThm == Spec => FailedIsFinal
<1>1. IInv /\ [Next]_vars =>
        [\A c \in Calls : download[c] = "failed" =>
           /\ buffer[c] = "zero"
           /\ UNCHANGED <<download[c], failure[c], buffer[c], started[c]>>]_vars
  <2> SUFFICES ASSUME IInv, [Next]_vars, NEW c \in Calls, download[c] = "failed"
               PROVE  /\ buffer[c] = "zero"
                      /\ UNCHANGED <<download[c], failure[c], buffer[c], started[c]>>
    OBVIOUS
  <2>1. buffer[c] = "zero"
    BY DEF IInv, FailureInv
  <2> QED BY <2>1, DownloadMoves
<1> QED BY <1>1, Invariance, PTL DEF Spec, FailedIsFinal
=============================================================================
