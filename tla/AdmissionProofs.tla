--------------------------- MODULE AdmissionProofs ---------------------------
(***************************************************************************)
(* Proofs about Admission: the inductive invariant behind its safety       *)
(* properties, for any number of handlers, updates and subjects.           *)
(***************************************************************************)
EXTENDS Admission, FiniteSetTheorems, TLAPS

HoldsClaim == {"clock", "user", "chat", "admit", "send", "accept", "reject"}
HoldsUser == {"chat", "admit", "send", "accept", "reject"}
HoldsChat == {"admit", "send", "accept", "reject"}

\* What h read of the window of s under its lock is what is committed.
Fresh(h, s) ==
  seen[h][s] = IF windows[s] = NoRow THEN [start |-> now[h], count |-> 0] ELSE windows[s]

\* A handler holds the locks of its stage, and what it read under them is current.
Held(h) ==
  /\ pc[h] \in HoldsClaim => /\ locks[handling[h]] = h
                             /\ updates[handling[h]] = "none"
  /\ pc[h] \in HoldsUser => /\ locks[UserOf[handling[h]]] = h
                            /\ Fresh(h, UserOf[handling[h]])
  /\ pc[h] \in HoldsChat => /\ locks[ChatOf[handling[h]]] = h
                            /\ Fresh(h, ChatOf[handling[h]])

LockInv == \A h \in Handlers : Held(h)

\* A held lock is one that the stage of its holder accounts for.
HolderInv ==
  \A k \in Updates \cup Subjects : \A h \in Handlers : locks[k] = h =>
    \/ k = handling[h] /\ pc[h] \in HoldsClaim
    \/ k = UserOf[handling[h]] /\ pc[h] \in HoldsUser
    \/ k = ChatOf[handling[h]] /\ pc[h] \in HoldsChat

\* The stage of a handler records the decision it took.
DecisionInv ==
  \A h \in Handlers :
    /\ pc[h] \in {"send", "accept"} => Admitted(h)
    /\ pc[h] = "reject" => ~Admitted(h)
    /\ pc[h] = "ok" => updates[handling[h]] # "none"

\* Charges belong to accepted updates, and to the present window of their
\* subject or to one that had expired before it began.
ChargeInv ==
  /\ IsFiniteSet(charges)
  /\ \A c \in charges :
       /\ updates[c.update] = "received"
       /\ windows[c.subject] # NoRow
       /\ \/ c.start = windows[c.subject].start
          \/ windows[c.subject].start - c.start >= WINDOW

DbInv ==
  /\ OneJobPerClaim
  /\ ChargeInv
  /\ CountIsCharges
  /\ LimitPerWindow
  /\ WindowsApart

IInv == TypeOK /\ LockInv /\ HolderInv /\ DecisionInv /\ AckedIsDecided /\ DbInv

-----------------------------------------------------------------------------
(* The window arithmetic.                                                  *)

\* A charged window is a window, as long as the limit let the charge through.
LEMMA NextWindowType ==
  ASSUME NEW w \in Window, NEW t \in Nat, WithinLimit(w, t)
  PROVE  NextWindow(w, t) \in Window
BY LimitAssumption DEF Window, WithinLimit, NextWindow, Expired

\* The subjects of an update are two different ones.
LEMMA SubjectsOfType ==
  ASSUME NEW u \in Updates
  PROVE  /\ UserOf[u] \in Subjects
         /\ ChatOf[u] \in Subjects
         /\ UserOf[u] # ChatOf[u]
         /\ u # UserOf[u] /\ u # ChatOf[u]
         /\ SubjectsOf(u) \subseteq Subjects
BY SubjectAssumption DEF Subjects, SubjectsOf

-----------------------------------------------------------------------------
(* Type correctness.                                                       *)

LEMMA InitType == Init => TypeOK
<1> SUFFICES ASSUME Init PROVE TypeOK
  OBVIOUS
<1>1. NoWindow \in Window
  BY LimitAssumption DEF NoWindow, Window
<1>2. QED
  BY <1>1 DEF Init, TypeOK, Stages, InTransaction, Waiting

\* What an accepted update publishes is well typed: this is where the limit
\* the handler tested is needed.
LEMMA PublishType ==
  ASSUME TypeOK, DecisionInv, NEW h \in Handlers, Publish(h)
  PROVE  /\ updates' \in [Updates -> {"none", "received", "failed"}]
         /\ windows' \in [Subjects -> Window \cup {NoRow}]
         /\ jobs' \in [Updates -> Nat]
         /\ charges' \in SUBSET Charge
<1> DEFINE u == handling[h]
<1>0. u \in Updates /\ now[h] \in Nat /\ seen[h] \in [Subjects -> Window]
  BY DEF TypeOK
<1>1. CASE PublishAccepted(h)
  <2>1. \A s \in SubjectsOf(u) : Charged(h, s) \in Window
    <3> SUFFICES ASSUME NEW s \in SubjectsOf(u)
                 PROVE  Charged(h, s) \in Window
      OBVIOUS
    <3>1. Admitted(h)
      BY <1>1 DEF DecisionInv, PublishAccepted
    <3>2. WithinLimit(seen[h][s], now[h])
      BY <3>1 DEF Admitted
    <3>3. seen[h][s] \in Window
      BY <1>0, SubjectsOfType
    <3>4. QED
      BY <1>0, <3>2, <3>3, NextWindowType DEF Charged
  <2>2. \A s \in SubjectsOf(u) : Charged(h, s).start \in Nat
    BY <2>1 DEF Window
  <2>3. \A s \in SubjectsOf(u) :
          [update |-> u, subject |-> s, start |-> Charged(h, s).start] \in Charge
    BY <1>0, <2>2, SubjectsOfType DEF Charge
  <2>4. charges' \in SUBSET Charge
    BY <1>1, <2>3 DEF PublishAccepted, TypeOK
  <2>5. windows' \in [Subjects -> Window \cup {NoRow}]
    BY <1>1, <2>1 DEF PublishAccepted, TypeOK
  <2>6. updates' \in [Updates -> {"none", "received", "failed"}] /\ jobs' \in [Updates -> Nat]
    BY <1>1 DEF PublishAccepted, TypeOK
  <2>7. QED
    BY <2>4, <2>5, <2>6
<1>2. CASE PublishRejected(h)
  BY <1>0, <1>2 DEF PublishRejected, TypeOK
<1>3. QED
  BY <1>1, <1>2 DEF Publish

LEMMA ReleaseType ==
  ASSUME TypeOK, NEW h \in Handlers, Release(h)
  PROVE  locks' \in [Updates \cup Subjects -> Handlers \cup {Free}]
BY DEF TypeOK, Release

LEMMA StepType ==
  ASSUME TypeOK, DecisionInv, NEW h \in Handlers, Step(h)
  PROVE  TypeOK'
<1> USE DEF TypeOK, Goto, Stages, InTransaction, Waiting
<1>1. CASE Claim(h)
  BY <1>1 DEF Claim
<1>2. CASE Duplicate(h)
  BY <1>2 DEF Duplicate
<1>3. CASE ReadClock(h)
  BY <1>3 DEF ReadClock
<1>4. CASE LockWindow(h)
  <2>1. Wants(h) \in Subjects
    BY <1>4, SubjectsOfType DEF LockWindow, Wants
  <2>2. windows[Wants(h)] # NoRow => windows[Wants(h)] \in Window
    BY <2>1
  <2>3. [start |-> now[h], count |-> 0] \in Window
    BY LimitAssumption DEF Window
  <2>4. seen' \in [Handlers -> [Subjects -> Window]]
    BY <1>4, <2>1, <2>2, <2>3 DEF LockWindow
  <2>5. QED
    BY <1>4, <2>1, <2>4 DEF LockWindow
<1>5. CASE Admit(h)
  BY <1>5 DEF Admit
<1>6. CASE Send(h)
  BY <1>6 DEF Send
<1>7. CASE Commit(h)
  BY <1>7, PublishType, ReleaseType DEF Commit
<1>8. CASE Respond(h)
  BY <1>8 DEF Respond
<1>9. QED
  BY <1>1, <1>2, <1>3, <1>4, <1>5, <1>6, <1>7, <1>8 DEF Step

LEMMA NextType ==
  ASSUME TypeOK, DecisionInv, [Next]_vars
  PROVE  TypeOK'
<1>1. CASE \E h \in Handlers, u \in Updates : Deliver(h, u)
  BY <1>1 DEF Deliver, TypeOK, Goto, Stages, InTransaction, Waiting
<1>2. CASE \E h \in Handlers : Step(h)
  BY <1>2, StepType
<1>3. ASSUME NEW h \in Handlers, Fault(h)
      PROVE  TypeOK'
  <2> USE DEF TypeOK, Goto, Stages, InTransaction, Waiting
  <2>1. CASE Fail(h)
    BY <2>1, ReleaseType DEF Fail
  <2>2. CASE CommitReplyLost(h)
    BY <2>2, ReleaseType, PublishType DEF CommitReplyLost
  <2>3. CASE Crash(h)
    BY <2>3, ReleaseType DEF Crash
  <2>4. QED
    BY <1>3, <2>1, <2>2, <2>3 DEF Fault
<1>4. CASE Tick
  BY <1>4 DEF Tick, TypeOK
<1>5. CASE UNCHANGED vars
  BY <1>5 DEF vars, TypeOK
<1>6. QED
  BY <1>1, <1>2, <1>3, <1>4, <1>5 DEF Next, Quiescent

-----------------------------------------------------------------------------
(* Locks and decisions.                                                    *)

HandlerInv == LockInv /\ HolderInv /\ DecisionInv /\ AckedIsDecided

\* A step of another handler leaves g alone: its locals, its locks and the rows
\* they protect stay, and no fate is undone.
Untouched(g) ==
  /\ pc'[g] = pc[g] /\ handling'[g] = handling[g]
  /\ now'[g] = now[g] /\ seen'[g] = seen[g]
  /\ \A k \in Updates \cup Subjects : locks'[k] = g <=> locks[k] = g
  /\ \A s \in Subjects : locks[s] = g => windows'[s] = windows[s]
  /\ \A v \in Updates : locks[v] = g => updates'[v] = updates[v]
  /\ \A v \in Updates : updates[v] # "none" => updates'[v] # "none"

DecisionOf(h) ==
  /\ pc[h] \in {"send", "accept"} => Admitted(h)
  /\ pc[h] = "reject" => ~Admitted(h)
  /\ pc[h] = "ok" => updates[handling[h]] # "none"

HolderOf(h) ==
  \A k \in Updates \cup Subjects : locks[k] = h =>
    \/ k = handling[h] /\ pc[h] \in HoldsClaim
    \/ k = UserOf[handling[h]] /\ pc[h] \in HoldsUser
    \/ k = ChatOf[handling[h]] /\ pc[h] \in HoldsChat

HandlerOK(h) == Held(h) /\ HolderOf(h) /\ DecisionOf(h)

LEMMA HandlerInvSplit ==
  (LockInv /\ HolderInv /\ DecisionInv) <=> \A h \in Handlers : HandlerOK(h)
BY DEF LockInv, HolderInv, DecisionInv, HandlerOK, HolderOf, DecisionOf

LEMMA UntouchedIsOK ==
  ASSUME TypeOK, NEW g \in Handlers, HandlerOK(g), Untouched(g)
  PROVE  HandlerOK(g)'
<1>0. handling[g] \in Updates
  BY DEF TypeOK
<1>1. Held(g)'
  BY <1>0, SubjectsOfType
  DEF HandlerOK, Untouched, Held, Fresh, HoldsClaim, HoldsUser, HoldsChat
<1>2. HolderOf(g)'
  BY DEF HandlerOK, Untouched, HolderOf
<1>3. DecisionOf(g)'
  BY <1>0 DEF HandlerOK, Untouched, DecisionOf, Admitted
<1>4. QED
  BY <1>1, <1>2, <1>3 DEF HandlerOK

\* It is enough that a step keeps the invariant of the handler that takes it.
LEMMA OneHandlerMoves ==
  ASSUME TypeOK, HandlerInv, NEW h \in Handlers,
         \A g \in Handlers \ {h} : Untouched(g),
         HandlerOK(h)',
         AckedIsDecided'
  PROVE  HandlerInv'
<1>1. \A g \in Handlers : HandlerOK(g)'
  BY UntouchedIsOK, HandlerInvSplit DEF HandlerInv
<1>2. (LockInv /\ HolderInv /\ DecisionInv)'
  BY <1>1 DEF LockInv, HolderInv, DecisionInv, HandlerOK, HolderOf, DecisionOf
<1>3. QED
  BY <1>2 DEF HandlerInv

\* What a COMMIT publishes concerns rows its handler has locked.
LEMMA PublishIsLocal ==
  ASSUME TypeOK, HandlerInv, NEW h \in Handlers, Publish(h)
  PROVE  /\ \A s \in Subjects : locks[s] # h => windows'[s] = windows[s]
         /\ \A v \in Updates : locks[v] # h => updates'[v] = updates[v]
         /\ \A v \in Updates : updates[v] # "none" => updates'[v] # "none"
         /\ updates'[handling[h]] # "none"
<1>0. handling[h] \in Updates /\ pc[h] \in HoldsChat
  BY DEF TypeOK, Publish, PublishAccepted, PublishRejected, HoldsChat
<1>1. /\ locks[handling[h]] = h
      /\ locks[UserOf[handling[h]]] = h
      /\ locks[ChatOf[handling[h]]] = h
  BY <1>0 DEF HandlerInv, LockInv, Held, HoldsChat, HoldsUser, HoldsClaim
<1>2. CASE PublishAccepted(h)
  BY <1>0, <1>1, <1>2 DEF PublishAccepted, SubjectsOf, TypeOK
<1>3. CASE PublishRejected(h)
  BY <1>0, <1>1, <1>3 DEF PublishRejected, SubjectsOf, TypeOK
<1>4. QED
  BY <1>2, <1>3 DEF Publish

LEMMA ReleaseIsLocal ==
  ASSUME TypeOK, NEW h \in Handlers, Release(h)
  PROVE  /\ \A k \in Updates \cup Subjects : locks'[k] # h
         /\ \A g \in Handlers \ {h} : \A k \in Updates \cup Subjects :
              locks'[k] = g <=> locks[k] = g
BY NullAssumption DEF Release, TypeOK

LEMMA DeliverKeeps ==
  ASSUME TypeOK, HandlerInv, NEW h \in Handlers, NEW u \in Updates, Deliver(h, u)
  PROVE  HandlerInv'
<1>1. \A g \in Handlers \ {h} : Untouched(g)
  BY DEF Deliver, Untouched, Goto, TypeOK
<1>2. pc'[h] = "claim" /\ pc[h] = "idle" /\ locks' = locks
  BY DEF Deliver, Goto, TypeOK
<1>3. \A k \in Updates \cup Subjects : locks[k] # h
  BY <1>2 DEF HandlerInv, HolderInv, HoldsClaim, HoldsUser, HoldsChat
<1>4. HandlerOK(h)'
  BY <1>2, <1>3
  DEF HandlerOK, Held, HolderOf, DecisionOf, HoldsClaim, HoldsUser, HoldsChat
<1>5. AckedIsDecided'
  BY DEF Deliver, HandlerInv, AckedIsDecided
<1>6. QED
  BY <1>1, <1>4, <1>5, OneHandlerMoves

LEMMA ClaimKeeps ==
  ASSUME TypeOK, HandlerInv, NEW h \in Handlers, Claim(h)
  PROVE  HandlerInv'
<1>0. /\ handling[h] \in Updates /\ locks[handling[h]] = Free
      /\ locks' = [locks EXCEPT ![handling[h]] = h]
      /\ pc[h] = "claim" /\ pc'[h] = "clock"
  BY DEF Claim, Goto, TypeOK
<1>1. \A g \in Handlers \ {h} : Untouched(g)
  BY <1>0, NullAssumption DEF Claim, Untouched, Goto, TypeOK
<1>2. Held(h)'
  BY <1>0 DEF Claim, Held, TypeOK, HoldsClaim, HoldsUser, HoldsChat
<1>3. HolderOf(h)'
  <2>1. \A k \in Updates \cup Subjects : locks[k] # h
    BY <1>0 DEF HandlerInv, HolderInv, HoldsClaim, HoldsUser, HoldsChat
  <2>2. QED
    BY <1>0, <2>1 DEF Claim, HolderOf, TypeOK, HoldsClaim
<1>4. DecisionOf(h)'
  BY <1>0 DEF DecisionOf
<1>5. AckedIsDecided'
  BY DEF Claim, HandlerInv, AckedIsDecided
<1>6. QED
  BY <1>1, <1>2, <1>3, <1>4, <1>5, OneHandlerMoves DEF HandlerOK

LEMMA DuplicateKeeps ==
  ASSUME TypeOK, HandlerInv, NEW h \in Handlers, Duplicate(h)
  PROVE  HandlerInv'
<1>0. pc[h] = "claim" /\ pc'[h] = "ok" /\ locks' = locks
  BY DEF Duplicate, Goto, TypeOK
<1>1. \A g \in Handlers \ {h} : Untouched(g)
  BY DEF Duplicate, Untouched, Goto, TypeOK
<1>2. Held(h)'
  BY <1>0 DEF Held, HoldsClaim, HoldsUser, HoldsChat
<1>3. HolderOf(h)'
  BY <1>0 DEF HandlerInv, HolderInv, HolderOf, HoldsClaim, HoldsUser, HoldsChat
<1>4. DecisionOf(h)'
  BY <1>0 DEF Duplicate, DecisionOf
<1>5. AckedIsDecided'
  BY DEF Duplicate, HandlerInv, AckedIsDecided
<1>6. QED
  BY <1>1, <1>2, <1>3, <1>4, <1>5, OneHandlerMoves DEF HandlerOK

LEMMA ReadClockKeeps ==
  ASSUME TypeOK, HandlerInv, NEW h \in Handlers, ReadClock(h)
  PROVE  HandlerInv'
<1>0. pc[h] = "clock" /\ pc'[h] = "user" /\ locks' = locks
  BY DEF ReadClock, Goto, TypeOK
<1>1. \A g \in Handlers \ {h} : Untouched(g)
  BY DEF ReadClock, Untouched, Goto, TypeOK
<1>2. Held(h)'
  BY <1>0 DEF ReadClock, HandlerInv, LockInv, Held, HoldsClaim, HoldsUser, HoldsChat
<1>3. HolderOf(h)'
  BY <1>0
  DEF ReadClock, HandlerInv, HolderInv, HolderOf, HoldsClaim, HoldsUser, HoldsChat
<1>4. DecisionOf(h)'
  BY <1>0 DEF DecisionOf
<1>5. AckedIsDecided'
  BY DEF ReadClock, HandlerInv, AckedIsDecided
<1>6. QED
  BY <1>1, <1>2, <1>3, <1>4, <1>5, OneHandlerMoves DEF HandlerOK

\* Locking a window: the row read is the committed one, and the lock makes
\* sure that it stays so; the row locked before, if any, is another row.
LEMMA LockWindowKeeps ==
  ASSUME TypeOK, HandlerInv, NEW h \in Handlers, LockWindow(h)
  PROVE  HandlerInv'
<1>a. PICK u \in Updates : u = handling[h]
  BY DEF TypeOK
<1>b. PICK s \in Subjects : s = Wants(h)
  BY <1>a, SubjectsOfType DEF LockWindow, Wants
<1>0. /\ locks[s] = Free
      /\ locks' = [locks EXCEPT ![s] = h]
      /\ pc[h] \in {"user", "chat"}
      /\ pc[h] = "user" => s = UserOf[u] /\ pc'[h] = "chat"
      /\ pc[h] = "chat" => s = ChatOf[u] /\ pc'[h] = "admit"
  BY <1>a, <1>b DEF LockWindow, Wants, Goto, TypeOK
<1>1. \A g \in Handlers \ {h} : Untouched(g)
  BY <1>0, NullAssumption DEF LockWindow, Untouched, Goto, TypeOK
<1>2. Fresh(h, s)'
  BY <1>0, <1>b DEF LockWindow, Fresh, TypeOK
<1>3. \A t \in Subjects \ {s} : Fresh(h, t) => Fresh(h, t)'
  BY <1>0, <1>b DEF LockWindow, Fresh, TypeOK
<1>4. handling[h] = u /\ handling'[h] = u /\ updates' = updates
  BY <1>a DEF LockWindow
<1>5. Held(h) /\ HolderOf(h)
  BY DEF HandlerInv, LockInv, HolderInv, HolderOf
<1>6. Held(h)'
  <2>1. locks'[u] = h /\ updates[u] = "none"
    BY <1>0, <1>4, <1>5, SubjectsOfType DEF Held, HoldsClaim, TypeOK
  <2>2. CASE pc[h] = "user"
    BY <1>0, <1>2, <1>4, <2>1, <2>2
    DEF Held, HoldsClaim, HoldsUser, HoldsChat, TypeOK
  <2>3. CASE pc[h] = "chat"
    <3>1. locks[UserOf[u]] = h /\ Fresh(h, UserOf[u]) /\ UserOf[u] \in Subjects \ {s}
      BY <1>0, <1>4, <1>5, <2>3, SubjectsOfType DEF Held, HoldsUser
    <3>2. locks'[UserOf[u]] = h /\ Fresh(h, UserOf[u])'
      BY <1>0, <1>3, <3>1 DEF TypeOK
    <3>3. QED
      BY <1>0, <1>2, <1>4, <2>1, <2>3, <3>2
      DEF Held, HoldsClaim, HoldsUser, HoldsChat, TypeOK
  <2>4. QED
    BY <1>0, <2>2, <2>3
<1>7. HolderOf(h)'
  BY <1>0, <1>4, <1>5 DEF HolderOf, TypeOK, HoldsClaim, HoldsUser, HoldsChat
<1>8. DecisionOf(h)'
  BY <1>0 DEF DecisionOf
<1>9. AckedIsDecided'
  BY DEF LockWindow, HandlerInv, AckedIsDecided
<1>10. QED
  BY <1>1, <1>6, <1>7, <1>8, <1>9, OneHandlerMoves DEF HandlerOK

\* The stages from the decision to the COMMIT hold the same locks.
LEMMA DecideKeeps ==
  ASSUME TypeOK, HandlerInv, NEW h \in Handlers, Admit(h) \/ Send(h)
  PROVE  HandlerInv'
<1>0. /\ pc[h] \in HoldsChat /\ pc'[h] \in HoldsChat
      /\ UNCHANGED <<updates, windows, locks, handling, now, seen, acked>>
  BY DEF Admit, Send, Goto, TypeOK, HoldsChat
<1>1. \A g \in Handlers \ {h} : Untouched(g)
  BY <1>0 DEF Admit, Send, Untouched, Goto, TypeOK
<1>2. Held(h)'
  BY <1>0 DEF HandlerInv, LockInv, Held, Fresh, HoldsClaim, HoldsUser, HoldsChat
<1>3. HolderOf(h)'
  BY <1>0 DEF HandlerInv, HolderInv, HolderOf, HoldsClaim, HoldsUser, HoldsChat
<1>4. DecisionOf(h)'
  BY <1>0 DEF Admit, Send, Goto, TypeOK, HandlerInv, DecisionInv, DecisionOf, Admitted
<1>5. AckedIsDecided'
  BY <1>0 DEF HandlerInv, AckedIsDecided
<1>6. QED
  BY <1>1, <1>2, <1>3, <1>4, <1>5, OneHandlerMoves DEF HandlerOK

\* COMMIT, whether or not its reply arrives.
LEMMA PublishKeeps ==
  ASSUME TypeOK, HandlerInv, NEW h \in Handlers, Publish(h), Release(h),
         NEW stage \in {"ok", "error"}, Goto(h, stage),
         UNCHANGED <<handling, now, seen, acked>>
  PROVE  HandlerInv'
<1>0. pc'[h] = stage /\ \A g \in Handlers \ {h} : pc'[g] = pc[g]
  BY DEF Goto, TypeOK
<1>1. \A g \in Handlers \ {h} : Untouched(g)
  BY <1>0, PublishIsLocal, ReleaseIsLocal DEF Untouched
<1>2. Held(h)'
  BY <1>0 DEF Held, HoldsClaim, HoldsUser, HoldsChat
<1>3. HolderOf(h)'
  BY ReleaseIsLocal DEF HolderOf
<1>4. DecisionOf(h)'
  BY <1>0, PublishIsLocal DEF DecisionOf
<1>5. AckedIsDecided'
  BY PublishIsLocal DEF HandlerInv, AckedIsDecided, TypeOK
<1>6. QED
  BY <1>1, <1>2, <1>3, <1>4, <1>5, OneHandlerMoves DEF HandlerOK

\* ROLLBACK or a crash: nothing published, every lock released.
LEMMA RollbackKeeps ==
  ASSUME TypeOK, HandlerInv, NEW h \in Handlers, Release(h),
         NEW stage \in {"error", "idle"}, Goto(h, stage),
         UNCHANGED <<updates, windows, handling, now, seen, acked>>
  PROVE  HandlerInv'
<1>0. pc'[h] = stage /\ \A g \in Handlers \ {h} : pc'[g] = pc[g]
  BY DEF Goto, TypeOK
<1>1. \A g \in Handlers \ {h} : Untouched(g)
  BY <1>0, ReleaseIsLocal DEF Untouched
<1>2. Held(h)'
  BY <1>0 DEF Held, HoldsClaim, HoldsUser, HoldsChat
<1>3. HolderOf(h)'
  BY ReleaseIsLocal DEF HolderOf
<1>4. DecisionOf(h)'
  BY <1>0 DEF DecisionOf
<1>5. AckedIsDecided'
  BY DEF HandlerInv, AckedIsDecided
<1>6. QED
  BY <1>1, <1>2, <1>3, <1>4, <1>5, OneHandlerMoves DEF HandlerOK

LEMMA RespondKeeps ==
  ASSUME TypeOK, HandlerInv, NEW h \in Handlers, Respond(h)
  PROVE  HandlerInv'
<1>0. pc[h] \in {"ok", "error"} /\ pc'[h] = "idle" /\ locks' = locks
  BY DEF Respond, Goto, TypeOK
<1>1. \A g \in Handlers \ {h} : Untouched(g)
  BY DEF Respond, Untouched, Goto, TypeOK
<1>2. Held(h)'
  BY <1>0 DEF Held, HoldsClaim, HoldsUser, HoldsChat
<1>3. HolderOf(h)'
  BY <1>0 DEF HandlerInv, HolderInv, HolderOf, HoldsClaim, HoldsUser, HoldsChat
<1>4. DecisionOf(h)'
  BY <1>0 DEF DecisionOf
<1>5. AckedIsDecided'
  BY DEF Respond, HandlerInv, AckedIsDecided, DecisionInv
<1>6. QED
  BY <1>1, <1>2, <1>3, <1>4, <1>5, OneHandlerMoves DEF HandlerOK

LEMMA NextKeepsHandlers ==
  ASSUME TypeOK, HandlerInv, [Next]_vars
  PROVE  HandlerInv'
<1>1. ASSUME NEW h \in Handlers, NEW u \in Updates, Deliver(h, u)
      PROVE  HandlerInv'
  BY <1>1, DeliverKeeps
<1>2. ASSUME NEW h \in Handlers, Step(h)
      PROVE  HandlerInv'
  <2>1. CASE Commit(h)
    BY <2>1, PublishKeeps DEF Commit
  <2>2. QED
    BY <1>2, <2>1, ClaimKeeps, DuplicateKeeps, ReadClockKeeps, LockWindowKeeps,
       DecideKeeps, RespondKeeps DEF Step
<1>3. ASSUME NEW h \in Handlers, Fault(h)
      PROVE  HandlerInv'
  <2>1. CASE Fail(h)
    BY <2>1, RollbackKeeps DEF Fail
  <2>2. CASE CommitReplyLost(h)
    BY <2>2, PublishKeeps DEF CommitReplyLost
  <2>3. CASE Crash(h)
    BY <2>3, RollbackKeeps DEF Crash
  <2>4. QED
    BY <1>3, <2>1, <2>2, <2>3 DEF Fault
<1>4. CASE Tick \/ UNCHANGED vars
  BY <1>4
  DEF Tick, vars, HandlerInv, LockInv, HolderInv, DecisionInv, AckedIsDecided,
      Held, Fresh, Admitted
<1>5. QED
  BY <1>1, <1>2, <1>3, <1>4 DEF Next, Quiescent

-----------------------------------------------------------------------------
(* Windows and charges.                                                    *)

\* The charge that h adds to the window of s when it commits.
NewCharge(h, s) ==
  [update |-> handling[h], subject |-> s, start |-> Charged(h, s).start]

LEMMA ChargesInFinite ==
  ASSUME IsFiniteSet(charges), NEW s, NEW t
  PROVE  IsFiniteSet(ChargesIn(s, t))
<1>1. ChargesIn(s, t) \subseteq charges
  BY DEF ChargesIn, ChargesTo
<1>2. QED
  BY <1>1, FS_Subset

\* The arithmetic of one charged window: its count is right with the new
\* charge, and it is the latest window of its subject.
LEMMA ChargedWindow ==
  ASSUME TypeOK, HandlerInv, DbInv,
         NEW h \in Handlers, PublishAccepted(h),
         NEW s \in SubjectsOf(handling[h])
  PROVE  /\ Charged(h, s) \in Window
         /\ Charged(h, s).count =
              Cardinality(ChargesIn(s, Charged(h, s).start) \cup {NewCharge(h, s)})
         /\ \A c \in ChargesTo(s) :
              \/ c.start = Charged(h, s).start
              \/ Charged(h, s).start - c.start >= WINDOW
<1> DEFINE w == Charged(h, s)
           n == NewCharge(h, s)
<1>0. /\ handling[h] \in Updates /\ s \in Subjects /\ now[h] \in Nat
      /\ seen[h][s] \in Window
      /\ pc[h] \in HoldsChat /\ pc[h] \in HoldsUser /\ pc[h] \in HoldsClaim
  BY SubjectsOfType DEF TypeOK, PublishAccepted, HoldsChat, HoldsUser, HoldsClaim
<1>1. Fresh(h, s) /\ updates[handling[h]] = "none"
  BY <1>0 DEF HandlerInv, LockInv, Held, SubjectsOf
<1>2. WithinLimit(seen[h][s], now[h])
  BY DEF HandlerInv, DecisionInv, PublishAccepted, Admitted
<1>3. w \in Window
  BY <1>0, <1>2, NextWindowType DEF Charged
<1>4. \A t : n \notin ChargesIn(s, t)
  BY <1>1 DEF DbInv, ChargeInv, ChargesIn, ChargesTo, NewCharge
<1>5. IsFiniteSet(ChargesIn(s, w.start))
  BY ChargesInFinite DEF DbInv, ChargeInv
<1>6. Cardinality(ChargesIn(s, w.start) \cup {n}) = Cardinality(ChargesIn(s, w.start)) + 1
  BY <1>4, <1>5, FS_AddElement
<1>7. \A c \in ChargesTo(s) : c \in Charge /\ c.start \in Nat /\ c \in charges /\ c.subject = s
  BY DEF TypeOK, ChargesTo, Charge
<1>8. CASE windows[s] = NoRow
  <2>1. ChargesTo(s) = {}
    BY <1>0, <1>8 DEF DbInv, CountIsCharges
  <2>2. seen[h][s].start = now[h] /\ seen[h][s].count = 0
    BY <1>1, <1>8 DEF Fresh
  <2>3. w.count = 1
    BY <1>0, <2>2, LimitAssumption DEF Charged, NextWindow, Expired
  <2>4. ChargesIn(s, w.start) = {}
    BY <2>1 DEF ChargesIn
  <2>5. QED
    BY <1>3, <1>6, <2>1, <2>3, <2>4, FS_EmptySet
<1>9. CASE windows[s] # NoRow
  <2>1. seen[h][s] = windows[s]
    BY <1>1, <1>9 DEF Fresh
  <2>2. windows[s].start \in Nat /\ windows[s].count \in Nat
    BY <1>0, <2>1 DEF Window
  <2>3. \A c \in ChargesTo(s) :
          c.start = windows[s].start \/ windows[s].start - c.start >= WINDOW
    BY <1>7 DEF DbInv, ChargeInv
  <2>4. windows[s].count = Cardinality(ChargesIn(s, windows[s].start))
    BY <1>0, <1>9 DEF DbInv, CountIsCharges
  <2>5. CASE Expired(windows[s], now[h])
    <3>1. w.start = now[h] /\ w.count = 1 /\ now[h] - windows[s].start >= WINDOW
      BY <2>1, <2>5 DEF Charged, NextWindow, Expired
    <3>2. \A c \in ChargesTo(s) : now[h] - c.start >= WINDOW
      BY <1>0, <1>7, <2>2, <2>3, <3>1, LimitAssumption
    <3>3. ChargesIn(s, w.start) = {}
      BY <1>0, <1>7, <3>1, <3>2, LimitAssumption DEF ChargesIn
    <3>4. QED
      BY <1>3, <1>6, <3>1, <3>2, <3>3, FS_EmptySet
  <2>6. CASE ~Expired(windows[s], now[h])
    <3>1. w.start = windows[s].start /\ w.count = windows[s].count + 1
      BY <2>1, <2>6 DEF Charged, NextWindow
    <3>2. QED
      BY <1>3, <1>6, <2>3, <2>4, <3>1
  <2>7. QED
    BY <2>5, <2>6
<1>10. QED
  BY <1>8, <1>9

\* The charges of every subject after the COMMIT of an accepted update.
LEMMA ChargesAfterAccept ==
  ASSUME TypeOK, NEW h \in Handlers, PublishAccepted(h), NEW s \in Subjects
  PROVE  /\ s \in SubjectsOf(handling[h]) =>
              /\ windows'[s] = Charged(h, s)
              /\ ChargesTo(s)' = ChargesTo(s) \cup {NewCharge(h, s)}
              /\ \A t : ChargesIn(s, t)' =
                   IF t = Charged(h, s).start THEN ChargesIn(s, t) \cup {NewCharge(h, s)}
                                              ELSE ChargesIn(s, t)
         /\ s \notin SubjectsOf(handling[h]) =>
              /\ windows'[s] = windows[s]
              /\ ChargesTo(s)' = ChargesTo(s)
              /\ \A t : ChargesIn(s, t)' = ChargesIn(s, t)
<1>1. charges' = charges \cup {NewCharge(h, x) : x \in SubjectsOf(handling[h])}
  BY DEF PublishAccepted, NewCharge
<1>2. \A x : NewCharge(h, x).subject = x /\ NewCharge(h, x).start = Charged(h, x).start
  BY DEF NewCharge
<1>3. /\ s \in SubjectsOf(handling[h]) => windows'[s] = Charged(h, s)
      /\ s \notin SubjectsOf(handling[h]) => windows'[s] = windows[s]
  BY DEF PublishAccepted
<1>4. ChargesTo(s)' = {c \in charges' : c.subject = s}
  BY DEF ChargesTo
<1>5. /\ s \in SubjectsOf(handling[h]) => ChargesTo(s)' = ChargesTo(s) \cup {NewCharge(h, s)}
      /\ s \notin SubjectsOf(handling[h]) => ChargesTo(s)' = ChargesTo(s)
  BY <1>1, <1>2, <1>4 DEF ChargesTo
<1>6. \A t : ChargesIn(s, t)' = {c \in ChargesTo(s)' : c.start = t}
  BY DEF ChargesIn
<1>7. QED
  BY <1>2, <1>3, <1>5, <1>6 DEF ChargesIn

LEMMA AcceptKeepsDb ==
  ASSUME TypeOK, HandlerInv, DbInv, NEW h \in Handlers, PublishAccepted(h)
  PROVE  DbInv'
<1>a. PICK u \in Updates : u = handling[h]
  BY DEF TypeOK
<1>b. \A s \in SubjectsOf(u) : s \in Subjects
  BY SubjectsOfType
<1>0. /\ updates[u] = "none"
      /\ updates' = [updates EXCEPT ![u] = "received"]
      /\ jobs' = [jobs EXCEPT ![u] = @ + 1]
      /\ charges' = charges \cup {NewCharge(h, s) : s \in SubjectsOf(u)}
      /\ \A s \in SubjectsOf(u) : NewCharge(h, s) = [update |-> u, subject |-> s, start |-> Charged(h, s).start]
  BY <1>a
  DEF PublishAccepted, NewCharge, HandlerInv, LockInv, Held, HoldsClaim
<1>1. OneJobPerClaim'
  BY <1>0 DEF DbInv, OneJobPerClaim, TypeOK
<1>2. ChargeInv'
  <2>1. charges' = charges \cup {NewCharge(h, UserOf[u])} \cup {NewCharge(h, ChatOf[u])}
    BY <1>0 DEF SubjectsOf
  <2>2. IsFiniteSet(charges)'
    BY <2>1, FS_AddElement DEF DbInv, ChargeInv
  <2>3. ASSUME NEW c \in charges'
        PROVE  /\ updates'[c.update] = "received"
               /\ windows'[c.subject] # NoRow
               /\ \/ c.start = windows'[c.subject].start
                  \/ windows'[c.subject].start - c.start >= WINDOW
    <3>1. CASE c \in charges
      <4>1. /\ updates[c.update] = "received" /\ c.update \in Updates /\ c.subject \in Subjects
            /\ windows[c.subject] # NoRow
            /\ \/ c.start = windows[c.subject].start
               \/ windows[c.subject].start - c.start >= WINDOW
        BY <3>1 DEF DbInv, ChargeInv, TypeOK, Charge
      <4>2. updates'[c.update] = "received"
        BY <1>0, <4>1 DEF TypeOK
      <4>3. CASE c.subject \in SubjectsOf(u)
        <5>1. c \in ChargesTo(c.subject)
          BY <3>1 DEF ChargesTo
        <5>2. windows'[c.subject] = Charged(h, c.subject) /\ Charged(h, c.subject) \in Window
          BY <1>a, <4>1, <4>3, ChargesAfterAccept, ChargedWindow
        <5>3. \/ c.start = Charged(h, c.subject).start
              \/ Charged(h, c.subject).start - c.start >= WINDOW
          BY <1>a, <4>3, <5>1, ChargedWindow
        <5>4. QED
          BY <4>2, <5>2, <5>3, NullAssumption
      <4>4. CASE c.subject \notin SubjectsOf(u)
        BY <1>a, <4>1, <4>2, <4>4, ChargesAfterAccept
      <4>5. QED
        BY <4>3, <4>4
    <3>2. CASE \E s \in SubjectsOf(u) : c = NewCharge(h, s)
      <4>1. PICK s \in SubjectsOf(u) : c = NewCharge(h, s)
        BY <3>2
      <4>2. c.update = u /\ c.subject = s /\ c.start = Charged(h, s).start
        BY <1>0, <4>1
      <4>3. windows'[s] = Charged(h, s) /\ Charged(h, s) \in Window
        BY <1>a, <1>b, ChargesAfterAccept, ChargedWindow
      <4>4. QED
        BY <1>0, <4>2, <4>3, NullAssumption DEF TypeOK
    <3>3. QED
      BY <1>0, <2>3, <3>1, <3>2
  <2>4. QED
    BY <2>2, <2>3 DEF ChargeInv
<1>3. CountIsCharges'
  <2> SUFFICES ASSUME NEW s \in Subjects
               PROVE  IF windows'[s] = NoRow
                      THEN ChargesTo(s)' = {}
                      ELSE windows'[s].count = Cardinality(ChargesIn(s, windows[s].start)')
    BY DEF CountIsCharges
  <2>1. CASE s \in SubjectsOf(u)
    <3>1. windows'[s] = Charged(h, s) /\ windows'[s] # NoRow
      BY <1>a, <2>1, ChargesAfterAccept, ChargedWindow, NullAssumption
    <3>2. ChargesIn(s, windows[s].start)' = {c \in ChargesTo(s)' : c.start = Charged(h, s).start}
      BY <3>1 DEF ChargesIn
    <3>3. ChargesIn(s, windows[s].start)' = ChargesIn(s, Charged(h, s).start) \cup {NewCharge(h, s)}
      BY <1>a, <2>1, <3>2, ChargesAfterAccept DEF ChargesIn, NewCharge
    <3>4. QED
      BY <1>a, <2>1, <3>1, <3>3, ChargedWindow
  <2>2. CASE s \notin SubjectsOf(u)
    <3>1. windows'[s] = windows[s] /\ ChargesTo(s)' = ChargesTo(s)
      BY <1>a, <2>2, ChargesAfterAccept
    <3>2. ChargesIn(s, windows[s].start)' = ChargesIn(s, windows[s].start)
      BY <3>1 DEF ChargesIn
    <3>3. QED
      BY <3>1, <3>2 DEF DbInv, CountIsCharges
  <2>3. QED
    BY <2>1, <2>2
<1>4. LimitPerWindow'
  <2> SUFFICES ASSUME NEW s \in Subjects, NEW c \in ChargesTo(s)'
               PROVE  Cardinality(ChargesIn(s, c.start)') <= LIMIT
    BY DEF LimitPerWindow
  <2>1. CASE s \in SubjectsOf(u)
    <3>1. CASE c.start = Charged(h, s).start
      <4>1. ChargesIn(s, c.start)' = ChargesIn(s, Charged(h, s).start) \cup {NewCharge(h, s)}
        BY <1>a, <2>1, <3>1, ChargesAfterAccept
      <4>2. Charged(h, s).count \in 0..LIMIT
        BY <1>a, <2>1, ChargedWindow DEF Window
      <4>3. Charged(h, s).count = Cardinality(ChargesIn(s, c.start)')
        BY <1>a, <2>1, <4>1, ChargedWindow
      <4>4. QED
        BY <4>2, <4>3, LimitAssumption
    <3>2. CASE c.start # Charged(h, s).start
      <4>1. c \in ChargesTo(s)
        BY <1>a, <2>1, <3>2, ChargesAfterAccept DEF NewCharge
      <4>2. ChargesIn(s, c.start)' = ChargesIn(s, c.start)
        BY <1>a, <2>1, <3>2, ChargesAfterAccept
      <4>3. QED
        BY <4>1, <4>2 DEF DbInv, LimitPerWindow
    <3>3. QED
      BY <3>1, <3>2
  <2>2. CASE s \notin SubjectsOf(u)
    BY <1>a, <2>2, ChargesAfterAccept DEF DbInv, LimitPerWindow
  <2>3. QED
    BY <2>1, <2>2
<1>5. WindowsApart'
  <2> SUFFICES ASSUME NEW s \in Subjects, NEW c \in ChargesTo(s)', NEW d \in ChargesTo(s)',
                      c.start < d.start
               PROVE  d.start - c.start >= WINDOW
    BY DEF WindowsApart
  <2>1. CASE c \in ChargesTo(s) /\ d \in ChargesTo(s)
    BY <2>1 DEF DbInv, WindowsApart
  <2>2. CASE s \in SubjectsOf(u) /\ ~(c \in ChargesTo(s) /\ d \in ChargesTo(s))
    <3>1. Charged(h, s).start \in Nat
      BY <1>a, <2>2, ChargedWindow DEF Window
    <3>2. \A e \in ChargesTo(s)' : e \in ChargesTo(s) \/ e.start = Charged(h, s).start
      BY <1>a, <2>2, ChargesAfterAccept DEF NewCharge
    <3>3. \A e \in ChargesTo(s) :
            /\ e.start \in Nat
            /\ e.start = Charged(h, s).start \/ Charged(h, s).start - e.start >= WINDOW
      BY <1>a, <2>2, ChargedWindow DEF TypeOK, ChargesTo, Charge
    <3>4. QED
      BY <2>2, <3>1, <3>2, <3>3, LimitAssumption
  <2>3. QED
    BY <1>a, <2>1, <2>2, ChargesAfterAccept
<1>6. QED
  BY <1>1, <1>2, <1>3, <1>4, <1>5 DEF DbInv

\* A rejection leaves the ledger alone; the empty rows it leaves count nothing.
LEMMA RejectKeepsDb ==
  ASSUME TypeOK, HandlerInv, DbInv, NEW h \in Handlers, PublishRejected(h)
  PROVE  DbInv'
<1>a. PICK u \in Updates : u = handling[h]
  BY DEF TypeOK
<1>0. /\ updates[u] = "none"
      /\ updates' = [updates EXCEPT ![u] = "failed"]
      /\ jobs' = jobs /\ charges' = charges
      /\ \A s \in SubjectsOf(u) : s \in Subjects /\ Fresh(h, s)
  BY <1>a, SubjectsOfType
  DEF PublishRejected, HandlerInv, LockInv, Held, HoldsClaim, HoldsUser, HoldsChat, SubjectsOf
<1>1. \A s \in Subjects :
        /\ windows[s] # NoRow => windows'[s] = windows[s]
        /\ windows[s] = NoRow /\ windows'[s] # NoRow => windows'[s].count = 0
  BY <1>a, <1>0 DEF PublishRejected, Fresh
<1>2. /\ \A s : ChargesTo(s)' = ChargesTo(s)
      /\ \A s, t : ChargesIn(s, t)' = ChargesIn(s, t)
  BY <1>0 DEF ChargesTo, ChargesIn
<1>3. OneJobPerClaim'
  BY <1>0 DEF DbInv, OneJobPerClaim, TypeOK
<1>4. ChargeInv'
  <2>1. \A c \in charges : c.update \in Updates /\ c.subject \in Subjects
    BY DEF TypeOK, Charge
  <2>2. QED
    BY <1>0, <1>1, <2>1 DEF DbInv, ChargeInv, TypeOK
<1>5. CountIsCharges'
  <2> SUFFICES ASSUME NEW s \in Subjects
               PROVE  IF windows'[s] = NoRow
                      THEN ChargesTo(s)' = {}
                      ELSE windows'[s].count = Cardinality(ChargesIn(s, windows[s].start)')
    BY DEF CountIsCharges
  <2>1. CASE windows[s] # NoRow
    BY <1>0, <1>1, <1>2, <2>1 DEF DbInv, CountIsCharges, ChargesIn, ChargesTo
  <2>2. CASE windows[s] = NoRow
    <3>1. ChargesTo(s) = {}
      BY <2>2 DEF DbInv, CountIsCharges
    <3>2. ChargesTo(s)' = {} /\ ChargesIn(s, windows[s].start)' = {}
      BY <1>0, <3>1 DEF ChargesIn, ChargesTo
    <3>3. QED
      BY <1>1, <2>2, <3>2, FS_EmptySet
  <2>3. QED
    BY <2>1, <2>2
<1>6. LimitPerWindow' /\ WindowsApart'
  BY <1>2 DEF DbInv, LimitPerWindow, WindowsApart
<1>7. QED
  BY <1>3, <1>4, <1>5, <1>6 DEF DbInv

LEMMA UnchangedKeepsDb ==
  ASSUME DbInv, UNCHANGED dbVars
  PROVE  DbInv'
BY DEF DbInv, dbVars, OneJobPerClaim, ChargeInv, CountIsCharges, LimitPerWindow,
       WindowsApart, ChargesIn, ChargesTo

LEMMA NextKeepsDb ==
  ASSUME TypeOK, HandlerInv, DbInv, [Next]_vars
  PROVE  DbInv'
<1>1. ASSUME NEW h \in Handlers, Publish(h)
      PROVE  DbInv'
  BY <1>1, AcceptKeepsDb, RejectKeepsDb DEF Publish
<1>2. ASSUME NEW h \in Handlers, Step(h)
      PROVE  DbInv'
  <2>1. CASE Commit(h)
    BY <1>1, <2>1 DEF Commit
  <2>2. CASE ~Commit(h)
    <3>1. UNCHANGED dbVars
      BY <1>2, <2>2
      DEF Step, Claim, Duplicate, ReadClock, LockWindow, Admit, Send, Respond, dbVars
    <3>2. QED
      BY <3>1, UnchangedKeepsDb
  <2>3. QED
    BY <2>1, <2>2
<1>3. ASSUME NEW h \in Handlers, Fault(h)
      PROVE  DbInv'
  <2>1. CASE CommitReplyLost(h)
    BY <1>1, <2>1 DEF CommitReplyLost
  <2>2. CASE ~CommitReplyLost(h)
    <3>1. UNCHANGED dbVars
      BY <1>3, <2>2 DEF Fault, Fail, Crash, dbVars
    <3>2. QED
      BY <3>1, UnchangedKeepsDb
  <2>3. QED
    BY <2>1, <2>2
<1>4. CASE \/ \E h \in Handlers, u \in Updates : Deliver(h, u)
           \/ Tick
           \/ UNCHANGED vars
  <2>1. UNCHANGED dbVars
    BY <1>4 DEF Deliver, Tick, vars, dbVars
  <2>2. QED
    BY <2>1, UnchangedKeepsDb
<1>5. QED
  BY <1>2, <1>3, <1>4 DEF Next, Quiescent

-----------------------------------------------------------------------------
(* The inductive invariant and what follows from it.                       *)

LEMMA InitInvariant == Init => IInv
<1> SUFFICES ASSUME Init PROVE IInv
  OBVIOUS
<1>1. TypeOK
  BY InitType
<1>2. LockInv /\ HolderInv /\ DecisionInv /\ AckedIsDecided
  BY NullAssumption
  DEF Init, LockInv, Held, HolderInv, DecisionInv, AckedIsDecided,
      HoldsClaim, HoldsUser, HoldsChat
<1>3. OneJobPerClaim
  BY DEF Init, OneJobPerClaim
<1>4. charges = {} /\ \A s \in Subjects : windows[s] = NoRow
  BY DEF Init
<1>5. ChargeInv
  BY <1>4, FS_EmptySet DEF ChargeInv
<1>6. CountIsCharges /\ LimitPerWindow /\ WindowsApart
  BY <1>4 DEF CountIsCharges, LimitPerWindow, WindowsApart, ChargesTo
<1>7. QED
  BY <1>1, <1>2, <1>3, <1>5, <1>6 DEF IInv, DbInv

LEMMA NextInvariant == IInv /\ [Next]_vars => IInv'
BY NextType, NextKeepsHandlers, NextKeepsDb DEF IInv, HandlerInv

THEOREM Invariance == Spec => []IInv
<1>1. Init => IInv
  BY InitInvariant
<1>2. IInv /\ [Next]_vars => IInv'
  BY NextInvariant
<1>3. QED
  BY <1>1, <1>2, PTL DEF Spec

\* Every reachable state is well typed; in particular no window row ever
\* breaks the CHECK constraint 0 <= accepted_count <= 10 of its table.
THEOREM TypeCorrect == Spec => []TypeOK
BY Invariance, PTL DEF IInv

\* A duplicate, a redelivery or a retry after a lost reply never queues
\* a second job, and a rejected or rolled back update queues none.
THEOREM AtMostOneJob == Spec => []OneJobPerClaim
BY Invariance, PTL DEF IInv, DbInv

\* No interleaving and no fault makes Telegram forget an undecided update.
THEOREM NothingLost == Spec => []AckedIsDecided
BY Invariance, PTL DEF IInv

\* Duplicates, redeliveries and lost replies: one decision for an update, and
\* no 202 before it (handleTelegramWebhook, enqueuePgBossJob).
THEOREM DecidedOnceThm == Spec => []DecidedOnce
BY AtMostOneJob, NothingLost, PTL DEF DecidedOnce

\* Concurrent transactions neither lose nor invent a charge.
THEOREM ChargesCounted == Spec => []CountIsCharges
BY Invariance, PTL DEF IInv, DbInv

\* The rate limit: at most LIMIT admissions are charged to one window of
\* a subject, and two windows of a subject are WINDOW apart.
THEOREM RateLimited == Spec => [](LimitPerWindow /\ WindowsApart)
BY Invariance, PTL DEF IInv, DbInv

LEMMA RejectionJustified == IInv => RejectedOnlyWhenFull
<1> SUFFICES ASSUME IInv, NEW h \in Handlers, pc[h] = "reject"
             PROVE  \E s \in SubjectsOf(handling[h]) :
                      /\ windows[s] # NoRow
                      /\ windows[s].count = LIMIT
                      /\ ~Expired(windows[s], now[h])
  BY DEF RejectedOnlyWhenFull
<1>1. handling[h] \in Updates /\ now[h] \in Nat
  BY DEF IInv, TypeOK
<1>2. PICK s \in SubjectsOf(handling[h]) : ~WithinLimit(seen[h][s], now[h])
  BY DEF IInv, DecisionInv, Admitted
<1>3. s \in Subjects /\ Fresh(h, s)
  BY <1>1, SubjectsOfType
  DEF IInv, LockInv, Held, SubjectsOf, HoldsUser, HoldsChat
<1>4. windows[s] # NoRow
  BY <1>2, <1>3, LimitAssumption DEF Fresh, WithinLimit
<1>5. windows[s] \in Window /\ seen[h][s] = windows[s]
  BY <1>3, <1>4 DEF IInv, TypeOK, Fresh
<1>6. QED
  BY <1>2, <1>4, <1>5, LimitAssumption DEF WithinLimit, Window

\* A rejection is correct at the moment it is committed.
THEOREM RejectionsJustified == Spec => []RejectedOnlyWhenFull
BY Invariance, RejectionJustified, PTL

\* The limiter as a whole (admitPgBossJob and its windows).
THEOREM RateKeptThm == Spec => []RateKept
BY ChargesCounted, RateLimited, RejectionsJustified, PTL DEF RateKept

\* In a waiting group the holder of a chat row waits for nothing, so the
\* holder of a user row waits for nothing either, nor does that of a claim.
LEMMA LocksOrdered == IInv => NoWaitCycle
<1> SUFFICES ASSUME IInv,
                    NEW S \in SUBSET Handlers, S # {},
                    \A g \in S : \E h \in S : WaitsFor(g, h)
             PROVE  FALSE
  BY DEF NoWaitCycle
<1>1. \A g \in S : /\ handling[g] \in Updates /\ pc[g] \in Waiting
                   /\ \E h \in S : h # g /\ locks[Wants(g)] = h
  BY DEF IInv, TypeOK, WaitsFor
<1>2. \A k \in Updates \cup Subjects : \A h \in S : locks[k] = h =>
        \/ k = handling[h] /\ pc[h] \in HoldsClaim
        \/ k = UserOf[handling[h]] /\ pc[h] \in HoldsUser
        \/ k = ChatOf[handling[h]] /\ pc[h] \in HoldsChat
  BY DEF IInv, HolderInv
<1>3. \A g \in S : pc[g] # "chat"
  <2> SUFFICES ASSUME NEW g \in S, pc[g] = "chat" PROVE FALSE
    OBVIOUS
  <2>1. Wants(g) = ChatOf[handling[g]]
    BY DEF Wants
  <2>2. PICK h \in S : locks[ChatOf[handling[g]]] = h
    BY <1>1, <2>1
  <2>3. /\ ChatOf[handling[g]] \in Chats
        /\ handling[h] \in Updates
        /\ UserOf[handling[h]] \in Users /\ ChatOf[handling[h]] \in Chats
    BY <1>1, SubjectAssumption
  <2>4. \/ ChatOf[handling[g]] = handling[h]
        \/ ChatOf[handling[g]] = UserOf[handling[h]] /\ pc[h] \in HoldsUser
        \/ ChatOf[handling[g]] = ChatOf[handling[h]] /\ pc[h] \in HoldsChat
    BY <1>2, <2>2, <2>3 DEF Subjects
  <2>5. pc[h] \in HoldsChat
    BY <2>3, <2>4, SubjectAssumption DEF Subjects, HoldsChat, HoldsUser
  <2>6. QED
    BY <1>1, <2>5 DEF HoldsChat, Waiting
<1>4. \A g \in S : pc[g] # "user"
  <2> SUFFICES ASSUME NEW g \in S, pc[g] = "user" PROVE FALSE
    OBVIOUS
  <2>1. Wants(g) = UserOf[handling[g]]
    BY DEF Wants
  <2>2. PICK h \in S : locks[UserOf[handling[g]]] = h
    BY <1>1, <2>1
  <2>3. /\ UserOf[handling[g]] \in Users
        /\ handling[h] \in Updates
        /\ UserOf[handling[h]] \in Users /\ ChatOf[handling[h]] \in Chats
    BY <1>1, SubjectAssumption
  <2>4. \/ UserOf[handling[g]] = handling[h]
        \/ UserOf[handling[g]] = UserOf[handling[h]] /\ pc[h] \in HoldsUser
        \/ UserOf[handling[g]] = ChatOf[handling[h]] /\ pc[h] \in HoldsChat
    BY <1>2, <2>2, <2>3 DEF Subjects
  <2>5. pc[h] \in HoldsUser
    BY <2>3, <2>4, SubjectAssumption DEF Subjects, HoldsChat, HoldsUser
  <2>6. QED
    BY <1>1, <1>3, <2>5 DEF HoldsUser, Waiting
<1>5. ASSUME NEW g \in S, pc[g] = "claim"
      PROVE  FALSE
  <2>1. Wants(g) = handling[g]
    BY <1>5 DEF Wants
  <2>2. PICK h \in S : locks[handling[g]] = h
    BY <1>1, <2>1
  <2>3. pc[h] \in HoldsClaim
    BY <1>1, <1>2, <2>2, SubjectAssumption DEF Subjects, HoldsClaim, HoldsUser, HoldsChat
  <2>4. QED
    BY <1>1, <1>3, <1>4, <2>3 DEF HoldsClaim, Waiting
<1>6. QED
  BY <1>1, <1>3, <1>4, <1>5 DEF Waiting

\* The transactions never deadlock on their locks, whatever they contend for.
THEOREM DeadlockFree == Spec => []NoWaitCycle
BY Invariance, LocksOrdered, PTL

-----------------------------------------------------------------------------
(* Refinement.                                                             *)

LEMMA PromiseInit == Init => Promise!Init
BY DEF Init, Promise!Init

LEMMA PromiseStep == IInv /\ [Next]_vars => [Promise!Next]_<<updates, jobs, acked>>
<1> SUFFICES ASSUME IInv, [Next]_vars
             PROVE  [Promise!Next]_<<updates, jobs, acked>>
  OBVIOUS
<1> USE DEF Promise!Next, Promise!Accept, Promise!Reject, Promise!Acknowledge
<1>1. ASSUME NEW h \in Handlers, Publish(h), UNCHANGED acked
      PROVE  Promise!Next
  <2>1. handling[h] \in Updates /\ updates[handling[h]] = "none"
    BY <1>1
    DEF Publish, PublishAccepted, PublishRejected, IInv, TypeOK, LockInv, Held, HoldsClaim
  <2>2. CASE PublishAccepted(h)
    <3>1. jobs[handling[h]] = 0
      BY <2>1 DEF IInv, DbInv, OneJobPerClaim
    <3>2. Promise!Accept(handling[h])
      BY <1>1, <2>1, <2>2, <3>1 DEF PublishAccepted, IInv, TypeOK
    <3>3. QED
      BY <2>1, <3>2
  <2>3. CASE PublishRejected(h)
    <3>1. Promise!Reject(handling[h])
      BY <1>1, <2>1, <2>3 DEF PublishRejected
    <3>2. QED
      BY <2>1, <3>1
  <2>4. QED
    BY <1>1, <2>2, <2>3 DEF Publish
<1>2. ASSUME NEW h \in Handlers, Respond(h)
      PROVE  [Promise!Next]_<<updates, jobs, acked>>
  <2>1. handling[h] \in Updates /\ (pc[h] = "ok" => updates[handling[h]] # "none")
    BY DEF IInv, TypeOK, DecisionInv
  <2>2. CASE pc[h] = "ok"
    <3>1. Promise!Acknowledge(handling[h])
      BY <1>2, <2>1, <2>2 DEF Respond
    <3>2. QED
      BY <2>1, <3>1
  <2>3. CASE pc[h] # "ok"
    BY <1>2, <2>3 DEF Respond
  <2>4. QED
    BY <2>2, <2>3
<1>3. ASSUME NEW h \in Handlers, Step(h)
      PROVE  [Promise!Next]_<<updates, jobs, acked>>
  <2>1. CASE Commit(h)
    BY <1>1, <2>1 DEF Commit
  <2>2. CASE Respond(h)
    BY <1>2, <2>2
  <2>3. CASE ~Commit(h) /\ ~Respond(h)
    BY <1>3, <2>3 DEF Step, Claim, Duplicate, ReadClock, LockWindow, Admit, Send
  <2>4. QED
    BY <2>1, <2>2, <2>3
<1>4. ASSUME NEW h \in Handlers, Fault(h)
      PROVE  [Promise!Next]_<<updates, jobs, acked>>
  <2>1. CASE CommitReplyLost(h)
    BY <1>1, <2>1 DEF CommitReplyLost
  <2>2. CASE ~CommitReplyLost(h)
    BY <1>4, <2>2 DEF Fault, Fail, Crash
  <2>3. QED
    BY <2>1, <2>2
<1>5. CASE \/ \E h \in Handlers, u \in Updates : Deliver(h, u)
           \/ Tick
           \/ UNCHANGED vars
  BY <1>5 DEF Deliver, Tick, vars
<1>6. QED
  BY <1>3, <1>4, <1>5 DEF Next, Quiescent

\* The concurrent, faulty transaction implements the atomic promise.
THEOREM Refinement == Spec => ImplementsPromise
<1>1. Init => Promise!Init
  BY PromiseInit
<1>2. IInv /\ [Next]_vars => [Promise!Next]_<<updates, jobs, acked>>
  BY PromiseStep
<1>3. QED
  BY <1>1, <1>2, Invariance, PTL
  DEF Spec, ImplementsPromise, Promise!Spec, Promise!promiseVars

=============================================================================
