---------------------------- MODULE PollingProofs ----------------------------
(***************************************************************************)
(* Proofs about Polling: its safety properties, for any number of          *)
(* updates, any limit and window, and however many faults and restarts.    *)
(*                                                                         *)
(* Everything rests on one place in the stream of updates: while a batch   *)
(* is in hand, the poller is at the first update that neither Telegram nor *)
(* its own offset has left behind, and all before that one is decided.     *)
(***************************************************************************)
EXTENDS Polling, TLAPS

Front == Later(1, Later(confirmed, offset))

AtFront == pc \notin {"down", "poll"} => next = Front

InHand == Working => next \in Updates

\* What the stage says of the update in hand.
StageInv ==
  /\ pc \in {"answer", "send", "sending"} => KindOf[next] = "text"
  /\ pc = "enqueue" => KindOf[next] = "document"
  /\ pc = "settle" => next \in decided

\* The file is never ahead of the memory, and neither is ahead of the work.
PassedInv ==
  /\ file <= offset
  /\ \A u \in Updates : u < offset \/ u < confirmed => u \in decided

\* An update that was answered is passed, or about to be.
SentInv ==
  \A u \in Updates \ unsure : sent[u] > 0 =>
    /\ sent[u] = 1
    /\ pc = "down" \/ u < offset \/ (pc = "settle" /\ u = next)

\* A document that was charged is passed, or the one the poller is at, and
\* then it is in hand or approved; unless the process is about to end.
ChargeInv ==
  \A u \in Updates : KindOf[u] = "document" /\ charged[u] > 0 =>
    /\ charged[u] = 1
    /\ \/ pc = "down" \/ (stopping /\ pc = "poll")
       \/ u < offset
       \/ u = Front /\ (approval = u \/ pc \in {"enqueue", "settle"})

\* The parts of TypeOK.
NumbersOK ==
  /\ arrived \in 0..Last
  /\ confirmed \in 0..(Last + 1)
  /\ file \in 0..(Last + 1)
  /\ offset \in 0..(Last + 1)
  /\ next \in 0..(Last + 1)
  /\ last \in 0..Last
  /\ approval \in 0..Last
  /\ tries \in 0..(SendLimit - 1)
  /\ pc \in Stages
  /\ clock \in 0..MaxClock
  /\ faults \in 0..MaxFaults
  /\ restarts \in 0..MaxRestarts

MapsOK ==
  /\ limiter \in [Chats -> Window \cup {NoWindow}]
  /\ decided \in SUBSET Updates
  /\ sent \in [Updates -> Nat]
  /\ charged \in [Updates -> Nat]
  /\ unsure \in SUBSET Updates

IInv == TypeOK /\ AtFront /\ InHand /\ StageInv /\ PassedInv /\ SentInv /\ ChargeInv

-----------------------------------------------------------------------------
\* The assumptions on the bounds, without the rest.
LEMMA Bounds ==
  /\ Last \in Nat
  /\ SendLimit \in Nat /\ SendLimit > 0 /\ 0 \in 0..(SendLimit - 1)
  /\ MaxClock \in Nat /\ MaxFaults \in Nat /\ MaxRestarts \in Nat
BY UpdateAssumption, LimitAssumption

LEMMA TypeParts == TypeOK <=> NumbersOK /\ stopping \in BOOLEAN /\ MapsOK
BY DEF TypeOK, NumbersOK, MapsOK

LEMMA InitInv == Init => IInv
<1> SUFFICES ASSUME Init PROVE IInv
  OBVIOUS
<1>1. Nothing \in [Updates -> Nat] /\ \A u \in Updates : Nothing[u] = 0
  BY DEF Nothing
<1>2. NumbersOK
  BY Bounds DEF Init, NumbersOK, Stages
<1>3. MapsOK
  BY <1>1, SMTT(30) DEF Init, MapsOK
<1>4. AtFront /\ InHand /\ StageInv
  BY UpdateAssumption DEF Init, AtFront, InHand, Working, StageInv
<1>5. PassedInv /\ SentInv /\ ChargeInv
  BY <1>1, UpdateAssumption DEF Init, PassedInv, SentInv, ChargeInv, Updates
<1>6. stopping \in BOOLEAN
  BY DEF Init
<1>7. QED
  BY <1>2, <1>3, <1>4, <1>5, <1>6, TypeParts DEF IInv

\* A window that had room is a window when it is charged.
LEMMA ChargedType ==
  ASSUME NEW w \in Window \cup {NoWindow}, HasRoom(w), clock \in Nat
  PROVE  Charged(w) \in Window
<1>1. CASE Reopens(w)
  BY <1>1, LimitAssumption DEF Window, Charged
<1>2. CASE ~Reopens(w)
  <2>1. w \in Window /\ w.count < LIMIT
    BY <1>2 DEF HasRoom, Reopens
  <2>2. w.start \in Nat /\ w.count + 1 \in 1..LIMIT
    BY <2>1, LimitAssumption DEF Window
  <2>3. Charged(w) = [start |-> w.start, count |-> w.count + 1]
    BY <1>2, <2>1 DEF Window, Charged
  <2>4. QED
    BY <2>2, <2>3 DEF Window
<1>3. QED
  BY <1>1, <1>2

\* The offsets, the batch and the bounds stay in range.
LEMMA NumbersStep ==
  ASSUME NumbersOK, AtFront, InHand, [Next]_vars
  PROVE  NumbersOK'
<1> USE Bounds DEF NumbersOK, Stages, telegramVars, batchVars, runVars, Updates, Later,
    Has, AtFront, InHand, Working, Front
<1>1. CASE Arrive \/ Tick \/ EndBatch \/ Allow \/ Answer \/ StartSend \/ SendAborted \/
    Sent \/ SendCut \/ Enqueue \/ Exit \/ Stop \/ Crash
  BY <1>1, SMTT(30) DEF Arrive, Tick, EndBatch, Allow, Answer, StartSend, SendAborted,
      Sent, SendCut, Enqueue, Exit, Stop, Crash, Has, Approved, Decide, MaybeSent
<1>2. CASE GetUpdates
  BY <1>2, SMTT(30) DEF GetUpdates
<1>3. CASE Skip
  BY <1>3, SMTT(30) DEF Skip, Has, Decide, Advance, Fault, NoFault
<1>4. CASE RateLimited
  BY <1>4, SMTT(30) DEF RateLimited, Has, Decide, Advance, Fault, NoFault
<1>5. CASE Settle
  BY <1>5, SMTT(30) DEF Settle, Advance, Fault, NoFault
<1>6. CASE Restart
  BY <1>6, SMTT(30) DEF Restart, FreshRun, Nothing
<1>7. CASE GetUpdatesFails
  BY <1>7, SMTT(30) DEF GetUpdatesFails, Fault
<1>8. CASE AnswerFails
  BY <1>8, SMTT(30) DEF AnswerFails, Fault
<1>9. CASE SendFails
  BY <1>9, SMTT(30) DEF SendFails, Fault, MaybeSent, Decide
<1>10. CASE SendRefused
  BY <1>10, SMTT(30) DEF SendRefused, Fault, Decide
<1>11. CASE EnqueueFails
  BY <1>11, SMTT(30) DEF EnqueueFails, Fault, Retained
<1>12. CASE UNCHANGED vars
  BY <1>12, SMTT(30) DEF vars
<1>13. QED BY <1>1, <1>2, <1>3, <1>4, <1>5, <1>6, <1>7, <1>8, <1>9, <1>10, <1>11, <1>12
    DEF Next, Work, FaultStep

\* The limiter, and what is recorded of each update, keep their types.
LEMMA MapsStep ==
  ASSUME NumbersOK, MapsOK, AtFront, InHand, [Next]_vars
  PROVE  MapsOK'
<1> USE DEF MapsOK, runVars, historyVars, Decide
<1>1. CASE Arrive \/ Tick \/ GetUpdates \/ EndBatch \/ Answer \/ StartSend \/
    SendAborted \/ Exit \/ GetUpdatesFails \/ AnswerFails \/ EnqueueFails \/ Stop \/
    Crash
  BY <1>1, SMTT(30) DEF Arrive, Tick, GetUpdates, EndBatch, Answer, StartSend,
      SendAborted, Exit, GetUpdatesFails, AnswerFails, EnqueueFails, Stop, Crash, Fault,
      Retained
<1>2. CASE Skip
  <2>1. next \in Updates
    BY <1>2, Bounds DEF Skip, Has, AtFront, Front, Later, NumbersOK, Updates
  <2>2. QED
    BY <1>2, <2>1 DEF Skip
<1>3. CASE Allow
  <2>1. next \in Updates /\ ChatOf[next] \in Chats
    BY <1>3, UpdateAssumption DEF Allow, Has, AtFront, Front, Later, NumbersOK, Updates
  <2>2. HasRoom(limiter[ChatOf[next]]) => Charged(limiter[ChatOf[next]]) \in Window
    BY <2>1, ChargedType DEF NumbersOK
  <2>3. limiter' \in [Chats -> Window \cup {NoWindow}]
    BY <1>3, <2>1, <2>2 DEF Allow
  <2>4. charged' \in [Updates -> Nat]
    BY <1>3, <2>1 DEF Allow
  <2>5. QED
    BY <1>3, <2>3, <2>4 DEF Allow
<1>4. CASE RateLimited
  <2>1. next \in Updates
    BY <1>4, Bounds DEF RateLimited, Has, AtFront, Front, Later, NumbersOK, Updates
  <2>2. QED
    BY <1>4, <2>1 DEF RateLimited
<1>5. CASE Sent
  BY <1>5, SMTT(30) DEF Sent, InHand, Working
<1>6. CASE SendCut
  <2>1. next \in Updates
    BY <1>6 DEF SendCut, InHand, Working
  <2>2. sent' \in [Updates -> Nat] /\ unsure' \in SUBSET Updates
    BY <1>6, <2>1 DEF SendCut, MaybeSent
  <2>3. QED
    BY <1>6, <2>1, <2>2 DEF SendCut
<1>7. CASE Enqueue
  BY <1>7, SMTT(30) DEF Enqueue, InHand, Working
<1>8. CASE Settle
  BY <1>8, SMTT(30) DEF Settle
<1>9. CASE Restart
  BY <1>9, SMTT(30) DEF Restart, FreshRun, Nothing
<1>10. CASE SendFails
  <2>1. next \in Updates
    BY <1>10 DEF SendFails, InHand, Working
  <2>2. sent' \in [Updates -> Nat] /\ unsure' \in SUBSET Updates
    BY <1>10, <2>1 DEF SendFails, MaybeSent
  <2>3. QED
    BY <1>10, <2>1, <2>2 DEF SendFails
<1>11. CASE SendRefused
  BY <1>11, SMTT(30) DEF SendRefused, InHand, Working
<1>12. CASE UNCHANGED vars
  BY <1>12, SMTT(30) DEF vars
<1>13. QED BY <1>1, <1>2, <1>3, <1>4, <1>5, <1>6, <1>7, <1>8, <1>9, <1>10, <1>11, <1>12
    DEF Next, Work, FaultStep

LEMMA FlagStep ==
  ASSUME stopping \in BOOLEAN, [Next]_vars
  PROVE  stopping' \in BOOLEAN
<1>1. CASE Stop
  BY <1>1, SMTT(30) DEF Stop
<1>2. CASE Restart
  BY <1>2 DEF Restart, FreshRun
<1>3. CASE ~Stop /\ ~Restart
  <2>1. UNCHANGED stopping
    BY <1>3 DEF Next, Work, FaultStep, vars, runVars, Arrive, Tick, GetUpdates, EndBatch, Skip,
       Allow, RateLimited, Answer, StartSend, SendAborted, Sent, SendCut, Enqueue, Settle,
       Exit, GetUpdatesFails, AnswerFails, SendFails, SendRefused, EnqueueFails, Crash
  <2>2. QED
    BY <2>1
<1>4. QED
  BY <1>1, <1>2, <1>3

\* The poller is at the first update that is not behind it.
LEMMA FrontStep ==
  ASSUME NumbersOK, AtFront, [Next]_vars
  PROVE  AtFront'
<1> USE Bounds DEF NumbersOK, Stages, AtFront, Front, telegramVars, batchVars, Later,
    Has
<1>1. CASE Arrive \/ Tick \/ EndBatch \/ Allow \/ Answer \/ StartSend \/ SendAborted \/
    Sent \/ SendCut \/ Enqueue \/ Exit \/ Restart \/ GetUpdatesFails \/ AnswerFails \/
    SendFails \/ SendRefused \/ EnqueueFails \/ Stop \/ Crash
  BY <1>1, SMTT(30) DEF Arrive, Tick, EndBatch, Allow, Answer, StartSend, SendAborted,
      Sent, SendCut, Enqueue, Exit, Restart, GetUpdatesFails, AnswerFails, SendFails,
      SendRefused, EnqueueFails, Stop, Crash, Has, Approved, Decide, MaybeSent,
      FreshRun, Nothing, Fault, Retained
<1>2. CASE GetUpdates
  BY <1>2, SMTT(30) DEF GetUpdates
<1>3. CASE Skip
  BY <1>3, SMTT(30) DEF Skip, Has, Decide, Advance, Fault, NoFault
<1>4. CASE RateLimited
  BY <1>4, SMTT(30) DEF RateLimited, Has, Decide, Advance, Fault, NoFault
<1>5. CASE Settle
  BY <1>5, SMTT(30) DEF Settle, Advance, Fault, NoFault
<1>6. CASE UNCHANGED vars
  BY <1>6, SMTT(30) DEF vars
<1>7. QED BY <1>1, <1>2, <1>3, <1>4, <1>5, <1>6 DEF Next, Work, FaultStep

\* An update in hand is one that arrived in the batch.
LEMMA HandStep ==
  ASSUME NumbersOK, AtFront, InHand, [Next]_vars
  PROVE  InHand'
<1> USE Bounds DEF NumbersOK, InHand, Working, Updates, Front, AtFront, batchVars,
    Later, Has
<1>1. CASE Arrive \/ Tick \/ GetUpdates \/ EndBatch \/ Answer \/ StartSend \/
    SendAborted \/ Sent \/ SendCut \/ Enqueue \/ Exit \/ Restart \/ GetUpdatesFails \/
    AnswerFails \/ SendFails \/ SendRefused \/ EnqueueFails \/ Stop \/ Crash
  BY <1>1, SMTT(30) DEF Arrive, Tick, GetUpdates, EndBatch, Answer, StartSend,
      SendAborted, Sent, SendCut, Enqueue, Exit, Restart, GetUpdatesFails, AnswerFails,
      SendFails, SendRefused, EnqueueFails, Stop, Crash, Decide, MaybeSent, FreshRun,
      Nothing, Fault, Retained
<1>2. CASE Skip
  BY <1>2, SMTT(30) DEF Skip, Has, Decide, Advance, Fault, NoFault
<1>3. CASE Allow
  BY <1>3, SMTT(30) DEF Allow, Has, Approved
<1>4. CASE RateLimited
  BY <1>4, SMTT(30) DEF RateLimited, Has, Decide, Advance, Fault, NoFault
<1>5. CASE Settle
  BY <1>5, SMTT(30) DEF Settle, Advance, Fault, NoFault
<1>6. CASE UNCHANGED vars
  BY <1>6, SMTT(30) DEF vars
<1>7. QED BY <1>1, <1>2, <1>3, <1>4, <1>5, <1>6 DEF Next, Work, FaultStep

\* A stage is entered with the update it is for.
LEMMA StageStep ==
  ASSUME NumbersOK, MapsOK, AtFront, InHand, StageInv, [Next]_vars
  PROVE  StageInv'
<1> USE DEF StageInv, InHand, Working, batchVars, Has, Decide
<1>1. CASE Arrive \/ Tick \/ GetUpdates \/ EndBatch \/ Answer \/ StartSend \/
    SendAborted \/ Exit \/ GetUpdatesFails \/ AnswerFails \/ EnqueueFails \/ Stop \/
    Crash
  BY <1>1, SMTT(30) DEF Arrive, Tick, GetUpdates, EndBatch, Answer, StartSend,
      SendAborted, Exit, GetUpdatesFails, AnswerFails, EnqueueFails, Stop, Crash, Fault,
      Retained
<1>2. CASE Skip
  BY <1>2, SMTT(30) DEF Skip, Has, Decide, Advance, Fault, NoFault
<1>3. CASE Allow
  BY <1>3, SMTT(30) DEF Allow, Has, Approved
<1>4. CASE RateLimited
  BY <1>4, SMTT(30) DEF RateLimited, Has, Decide, Advance, Fault, NoFault
<1>5. CASE Sent
  BY <1>5, SMTT(30) DEF Sent, Decide
<1>6. CASE SendCut
  BY <1>6, SMTT(30) DEF SendCut, MaybeSent
<1>7. CASE Enqueue
  BY <1>7, SMTT(30) DEF Enqueue, Decide
<1>8. CASE Settle
  BY <1>8, SMTT(30) DEF Settle, Advance, Fault, NoFault
<1>9. CASE Restart
  BY <1>9, SMTT(30) DEF Restart, FreshRun, Nothing
<1>10. CASE SendFails
  BY <1>10, SMTT(30) DEF SendFails, Fault, MaybeSent, Decide
<1>11. CASE SendRefused
  BY <1>11, SMTT(30) DEF SendRefused, Fault, Decide
<1>12. CASE UNCHANGED vars
  BY <1>12, SMTT(30) DEF vars
<1>13. QED BY <1>1, <1>2, <1>3, <1>4, <1>5, <1>6, <1>7, <1>8, <1>9, <1>10, <1>11, <1>12
    DEF Next, Work, FaultStep

\* The offset moves past decided updates only, and the file follows.
LEMMA PassedStep ==
  ASSUME NumbersOK, MapsOK, AtFront, InHand, StageInv, PassedInv, [Next]_vars
  PROVE  PassedInv'
<1> USE Bounds DEF NumbersOK, MapsOK, PassedInv, InHand, AtFront, Front, StageInv,
    Working, Updates, telegramVars, Has, Decide, Later
<1>1. CASE Arrive \/ Tick \/ EndBatch \/ Allow \/ Answer \/ StartSend \/ SendAborted \/
    SendCut \/ Exit \/ AnswerFails \/ EnqueueFails \/ Stop \/ Crash
  BY <1>1, SMTT(30) DEF Arrive, Tick, EndBatch, Allow, Answer, StartSend, SendAborted,
      SendCut, Exit, AnswerFails, EnqueueFails, Stop, Crash, Has, Approved, MaybeSent,
      Fault, Retained
<1>2. CASE GetUpdates
  BY <1>2, SMTT(30) DEF GetUpdates
<1>3. CASE Skip
  BY <1>3, SMTT(30) DEF Skip, Has, Decide, Advance, Fault, NoFault
<1>4. CASE RateLimited
  BY <1>4, SMTT(30) DEF RateLimited, Has, Decide, Advance, Fault, NoFault
<1>5. CASE Sent
  BY <1>5, SMTT(30) DEF Sent, Decide
<1>6. CASE Enqueue
  BY <1>6, SMTT(30) DEF Enqueue, Decide
<1>7. CASE Settle
  BY <1>7, SMTT(30) DEF Settle, Advance, Fault, NoFault
<1>8. CASE Restart
  BY <1>8, SMTT(30) DEF Restart, FreshRun, Nothing
<1>9. CASE GetUpdatesFails
  BY <1>9, SMTT(30) DEF GetUpdatesFails, Fault
<1>10. CASE SendFails
  BY <1>10, SMTT(30) DEF SendFails, Fault, MaybeSent, Decide
<1>11. CASE SendRefused
  BY <1>11, SMTT(30) DEF SendRefused, Fault, Decide
<1>12. CASE UNCHANGED vars
  BY <1>12, SMTT(30) DEF vars
<1>13. QED BY <1>1, <1>2, <1>3, <1>4, <1>5, <1>6, <1>7, <1>8, <1>9, <1>10, <1>11, <1>12
    DEF Next, Work, FaultStep

\* A message is sent for the update at the front only, which no message has been sent for.
LEMMA SentStep ==
  ASSUME NumbersOK, MapsOK, AtFront, InHand, StageInv, SentInv, [Next]_vars
  PROVE  SentInv'
<1> USE Bounds DEF NumbersOK, MapsOK, SentInv, InHand, AtFront, Front, Working, Updates,
    batchVars, historyVars, Has, Later
<1>1. CASE Arrive \/ Tick \/ EndBatch \/ Allow \/ Answer \/ StartSend \/ SendAborted \/
    Exit \/ AnswerFails \/ Enqueue \/ SendRefused \/ EnqueueFails \/ Stop \/ Crash
  BY <1>1, SMTT(30) DEF Arrive, Tick, EndBatch, Allow, Answer, StartSend, SendAborted,
      Exit, AnswerFails, Enqueue, SendRefused, EnqueueFails, Stop, Crash, Has, Approved,
      Fault, Decide, Retained
<1>2. CASE GetUpdates
  BY <1>2, SMTT(30) DEF GetUpdates
<1>3. CASE Skip
  BY <1>3, SMTT(30) DEF Skip, Has, Decide, Advance, Fault, NoFault
<1>4. CASE RateLimited
  BY <1>4, SMTT(30) DEF RateLimited, Has, Decide, Advance, Fault, NoFault
<1>5. CASE Sent
  BY <1>5, SMTT(30) DEF Sent, Decide
<1>6. CASE SendCut
  BY <1>6, SMTT(30) DEF SendCut, MaybeSent
<1>7. CASE Settle
  BY <1>7, SMTT(30) DEF Settle, Advance, Fault, NoFault
<1>8. CASE Restart
  BY <1>8, SMTT(30) DEF Restart, FreshRun, Nothing
<1>9. CASE GetUpdatesFails
  BY <1>9, SMTT(30) DEF GetUpdatesFails, Fault
<1>10. CASE SendFails
  BY <1>10, SMTT(30) DEF SendFails, Fault, MaybeSent, Decide
<1>11. CASE UNCHANGED vars
  BY <1>11, SMTT(30) DEF vars
<1>12. QED BY <1>1, <1>2, <1>3, <1>4, <1>5, <1>6, <1>7, <1>8, <1>9, <1>10, <1>11 DEF
    Next, Work, FaultStep

\* A document is charged at the front only, and once.
LEMMA ChargeStep ==
  ASSUME NumbersOK, MapsOK, AtFront, InHand, StageInv, ChargeInv, [Next]_vars
  PROVE  ChargeInv'
<1> DEFINE Held(u) ==
      /\ charged[u] = 1
      /\ \/ pc = "down" \/ (stopping /\ pc = "poll")
         \/ u < offset
         \/ u = Front /\ (approval = u \/ pc \in {"enqueue", "settle"})
<1> SUFFICES ASSUME NEW u \in Updates, KindOf[u] = "document", charged'[u] > 0
             PROVE  Held(u)'
  BY DEF ChargeInv
<1>0. charged[u] > 0 => Held(u)
  BY DEF ChargeInv
<1> USE <1>0, Bounds DEF NumbersOK, MapsOK, InHand, AtFront, Front, StageInv,
    Working, Updates, telegramVars, batchVars, historyVars, runVars, Has, Later
<1>1. CASE Arrive \/ Tick \/ Answer \/ StartSend \/ SendAborted \/ SendCut \/
    AnswerFails
  <2>1. CASE Arrive
    BY <2>1, SMTT(30) DEF Arrive
  <2>2. CASE Tick
    BY <2>2, SMTT(30) DEF Tick
  <2>3. CASE Answer
    BY <2>3, SMTT(30) DEF Answer
  <2>4. CASE StartSend
    BY <2>4, SMTT(30) DEF StartSend
  <2>5. CASE SendAborted
    BY <2>5, SMTT(30) DEF SendAborted, MaybeSent, Fault
  <2>6. CASE SendCut
    BY <2>6, SMTT(30) DEF SendCut, MaybeSent
  <2>7. CASE AnswerFails
    BY <2>7, SMTT(30) DEF AnswerFails, Fault
  <2>8. QED BY <1>1, <2>1, <2>2, <2>3, <2>4, <2>5, <2>6, <2>7
<1>2. CASE GetUpdates
  BY <1>2, SMTT(30) DEF GetUpdates
<1>3. CASE EndBatch
  BY <1>3, SMTT(30) DEF EndBatch
<1>4. CASE Skip
  BY <1>4, SMTT(30) DEF Skip, Has, Decide, Advance, Fault, NoFault
<1>5. CASE Allow
  BY <1>5, SMTT(30) DEF Allow, Has, Approved
<1>6. CASE RateLimited
  BY <1>6, SMTT(30) DEF RateLimited, Has, Decide, Advance, Fault, NoFault
<1>7. CASE Sent
  BY <1>7, SMTT(30) DEF Sent, Decide
<1>8. CASE Enqueue
  BY <1>8, SMTT(30) DEF Enqueue, Decide
<1>9. CASE Settle
  BY <1>9, SMTT(30) DEF Settle, Advance, Fault, NoFault
<1>10. CASE Exit
  BY <1>10, SMTT(30) DEF Exit
<1>11. CASE Restart
  BY <1>11, SMTT(30) DEF Restart, FreshRun, Nothing
<1>12. CASE GetUpdatesFails
  BY <1>12, SMTT(30) DEF GetUpdatesFails, Fault
<1>13. CASE SendFails
  BY <1>13, SMTT(30) DEF SendFails, Fault, MaybeSent, Decide
<1>14. CASE SendRefused
  BY <1>14, SMTT(30) DEF SendRefused, Fault, Decide
<1>15. CASE EnqueueFails
  BY <1>15, SMTT(30) DEF EnqueueFails, Fault, Retained
<1>16. CASE Stop
  BY <1>16, SMTT(30) DEF Stop
<1>17. CASE Crash
  BY <1>17, SMTT(30) DEF Crash
<1>18. CASE UNCHANGED vars
  BY <1>18, SMTT(30) DEF vars
<1>19. QED BY <1>1, <1>2, <1>3, <1>4, <1>5, <1>6, <1>7, <1>8, <1>9, <1>10, <1>11, <1>12,
    <1>13, <1>14, <1>15, <1>16, <1>17, <1>18 DEF Next, Work, FaultStep

LEMMA StepInv == IInv /\ [Next]_vars => IInv'
<1> SUFFICES ASSUME IInv, [Next]_vars PROVE IInv'
  OBVIOUS
<1> USE TypeParts DEF IInv
<1>1. NumbersOK'
  BY NumbersStep
<1>2. stopping' \in BOOLEAN
  BY FlagStep
<1>3. MapsOK'
  BY MapsStep
<1>4. TypeOK'
  BY <1>1, <1>2, <1>3 DEF TypeOK, NumbersOK, MapsOK
<1>5. AtFront' /\ InHand' /\ StageInv'
  BY FrontStep, HandStep, StageStep
<1>6. PassedInv' /\ SentInv' /\ ChargeInv'
  BY PassedStep, SentStep, ChargeStep
<1>7. QED
  BY <1>4, <1>5, <1>6

-----------------------------------------------------------------------------
(* The theorems.                                                           *)

\* The invariant, whatever the updates, the limits and the faults are.
THEOREM Invariance == Spec => []IInv
<1>1. IInv /\ [Next]_vars => IInv'
  BY StepInv
<1>2. QED
  BY InitInv, <1>1, PTL DEF Spec

\* The poller's state keeps its types.
THEOREM TypeCorrect == Spec => []TypeOK
BY Invariance, PTL DEF IInv

\* No failing call, failing write, crash or stop lets the offset overtake
\* the work of deliverMessage and enqueuePrivate.
THEOREM NothingSkippedThm == Spec => []NothingSkipped
<1>1. IInv => NothingSkipped
  BY DEF IInv, TypeOK, PassedInv, NothingSkipped, Updates
<1>2. QED
  BY Invariance, <1>1, PTL

\* In one run deliverMessage sends an answer once, or after a send of unknown outcome.
THEOREM SentOncePerRunThm == Spec => []SentOncePerRun
<1>1. IInv => SentOncePerRun
  BY DEF IInv, TypeOK, SentInv, SentOncePerRun, Updates
<1>2. QED
  BY Invariance, <1>1, PTL

\* In one run a private document takes from the limiter once, and passes it again.
THEOREM DocumentChargedOnceThm == Spec => []DocumentChargedOnce
<1>1. IInv => DocumentChargedOnce
  <2> SUFFICES ASSUME IInv PROVE DocumentChargedOnce
    OBVIOUS
  <2>1. \A u \in Updates : KindOf[u] = "document" => charged[u] <= 1
    BY DEF IInv, TypeOK, ChargeInv, Updates
  <2>2. ASSUME Has({"document"}), charged[next] > 0 PROVE Approved
    <3>1. next = Front /\ next \in Updates
      BY <2>2, Bounds DEF IInv, AtFront, TypeOK, Has, Front, Later, Updates
    <3>2. pc = "next" /\ ~(next < offset)
      BY <2>2, <3>1 DEF IInv, TypeOK, Has, Front, Later
    <3>3. QED
      BY <2>2, <3>1, <3>2 DEF IInv, ChargeInv, Has, Approved
  <2>3. QED
    BY <2>1, <2>2 DEF DocumentChargedOnce
<1>2. QED
  BY Invariance, <1>1, PTL

\* No process works on what the file or Telegram has left behind.
THEOREM NeverBackThm == Spec => []NeverBack
<1>1. IInv => NeverBack
  BY DEF IInv, TypeOK, AtFront, Front, Later, PassedInv, Working, Stages, NeverBack
<1>2. QED
  BY Invariance, <1>1, PTL

\* One run of the poller answers, charges and works on an update once.
THEOREM OncePerRunThm == Spec => []OncePerRun
BY SentOncePerRunThm, DocumentChargedOnceThm, NeverBackThm, PTL DEF OncePerRun

=============================================================================
