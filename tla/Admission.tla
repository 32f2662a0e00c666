------------------------------ MODULE Admission ------------------------------
(***************************************************************************)
(* The durable admission transaction of the Telegram ingress:              *)
(* enqueuePgBossJob of privateComparisonQueue.ts, used by the webhook for  *)
(* both queues and by polling for private documents, inside the webhook    *)
(* handler that answers Telegram.                                          *)
(*                                                                         *)
(* Several handlers run at once, each on a database connection of its own. *)
(* Telegram redelivers an update until it has an answer 202 for it.  A     *)
(* handler claims the update (a unique key), reads the clock, locks the    *)
(* window of the user and then that of the chat, and commits either        *)
(* a charge to both windows together with one queue job, or a rejection.   *)
(* What a transaction writes is visible to others at its commit only; what *)
(* it locks is visible at once.                                            *)
(***************************************************************************)
EXTENDS Integers, FiniteSets

CONSTANTS
  Handlers,          \* request handlers: one database connection each
  Updates,           \* Telegram updates
  Users, Chats,      \* subjects of the two kinds of admission window
  UserOf, ChatOf,    \* sender and chat of an update
  LIMIT,             \* ADMISSION_LIMIT
  WINDOW,            \* ADMISSION_WINDOW_MS, in clock ticks
  MaxClock,          \* bound on the database clock
  MaxFaults,         \* bound on failing queries, lost replies and crashes
  NoRow,             \* no row in telegram_admission_windows
  Free               \* nobody holds the key or row

Subjects == Users \cup Chats
SubjectsOf(u) == {UserOf[u], ChatOf[u]}

Window == [start : Nat, count : 0..LIMIT]
Charge == [update : Updates, subject : Subjects, start : Nat]

ASSUME SubjectAssumption ==
  /\ UserOf \in [Updates -> Users]
  /\ ChatOf \in [Updates -> Chats]
  /\ Users \cap Chats = {}          \* subject_type is part of the row's key
  /\ Updates \cap Subjects = {}

ASSUME LimitAssumption ==
  /\ LIMIT \in Nat \ {0}
  /\ WINDOW \in Nat \ {0}
  /\ MaxClock \in Nat
  /\ MaxFaults \in Nat

ASSUME NullAssumption ==
  /\ NoRow \notin Window
  /\ Free \notin Handlers

VARIABLES
  updates,    \* telegram_updates.status as admission commits it
  windows,    \* telegram_admission_windows
  jobs,       \* queue jobs committed for each update
  locks,      \* uncommitted keys and locked rows: holder or Free
  pc,         \* where each handler is
  handling,   \* the update a handler works on
  now,        \* the clock value its transaction read
  seen,       \* the window rows it read under its locks
  acked,      \* updates Telegram has an answer 202 for
  clock,      \* the database clock
  faults,     \* faults that have happened
  charges     \* history: every charge committed, against which window start

dbVars == <<updates, windows, jobs, charges>>
envVars == <<clock, faults>>
vars == <<updates, windows, jobs, locks, pc, handling, now, seen, acked,
          clock, faults, charges>>

Waiting == {"claim", "user", "chat"}                  \* may block on a lock
InTransaction == Waiting \cup {"clock", "admit", "send", "accept", "reject"}
Stages == InTransaction \cup {"idle", "ok", "error"}

TypeOK ==
  /\ updates \in [Updates -> {"none", "received", "failed"}]
  /\ windows \in [Subjects -> Window \cup {NoRow}]
  /\ jobs \in [Updates -> Nat]
  /\ locks \in [Updates \cup Subjects -> Handlers \cup {Free}]
  /\ pc \in [Handlers -> Stages]
  /\ handling \in [Handlers -> Updates]
  /\ now \in [Handlers -> Nat]
  /\ seen \in [Handlers -> [Subjects -> Window]]
  /\ acked \in SUBSET Updates
  /\ clock \in Nat
  /\ faults \in Nat
  /\ charges \in SUBSET Charge

NoWindow == [start |-> 0, count |-> 0]

Init ==
  /\ updates = [u \in Updates |-> "none"]
  /\ windows = [s \in Subjects |-> NoRow]
  /\ jobs = [u \in Updates |-> 0]
  /\ locks = [k \in Updates \cup Subjects |-> Free]
  /\ pc = [h \in Handlers |-> "idle"]
  /\ handling \in [Handlers -> Updates]
  /\ now = [h \in Handlers |-> 0]
  /\ seen = [h \in Handlers |-> [s \in Subjects |-> NoWindow]]
  /\ acked = {}
  /\ clock = 0
  /\ faults = 0
  /\ charges = {}

-----------------------------------------------------------------------------
(* withinAdmissionLimit and nextAdmissionState.                            *)

Expired(w, t) == t - w.start >= WINDOW

WithinLimit(w, t) == Expired(w, t) \/ w.count < LIMIT

NextWindow(w, t) ==
  IF Expired(w, t) THEN [start |-> t, count |-> 1]
                   ELSE [start |-> w.start, count |-> w.count + 1]

-----------------------------------------------------------------------------
\* Broken: the row that exists already is locked first, whichever it is.
Wants_ExistingRowFirst(h) ==
  LET u == handling[h]
      chatFirst == windows[UserOf[u]] = NoRow /\ windows[ChatOf[u]] # NoRow
  IN CASE pc[h] = "claim" -> u
       [] pc[h] = "user"  -> IF chatFirst THEN ChatOf[u] ELSE UserOf[u]
       [] pc[h] = "chat"  -> IF locks[ChatOf[u]] = h THEN UserOf[u] ELSE ChatOf[u]

\* The key or row a handler asks for next.
Wants(h) ==
  CASE pc[h] = "claim" -> handling[h]
    [] pc[h] = "user"  -> UserOf[handling[h]]
    [] pc[h] = "chat"  -> ChatOf[handling[h]]

Goto(h, stage) == pc' = [pc EXCEPT ![h] = stage]

\* COMMIT, ROLLBACK or a lost connection: every lock of h is released.
Release(h) == locks' = [k \in DOMAIN locks |-> IF locks[k] = h THEN Free ELSE locks[k]]

\* Telegram sends an update it has no 202 for; it may be in flight already.
Deliver(h, u) ==
  /\ pc[h] = "idle"
  /\ u \notin acked
  /\ handling' = [handling EXCEPT ![h] = u]
  /\ Goto(h, "claim")
  /\ UNCHANGED <<updates, windows, jobs, locks, now, seen, acked, clock, faults, charges>>

\* Broken: a committed claim does not stop a second one.
Claim_IgnoresCommitted(h) ==
  /\ pc[h] = "claim"
  /\ locks[handling[h]] = Free
  /\ locks' = [locks EXCEPT ![handling[h]] = h]
  /\ Goto(h, "clock")
  /\ UNCHANGED <<updates, windows, jobs, handling, now, seen, acked, clock, faults, charges>>

\* INSERT ... ON CONFLICT DO NOTHING: waits for another uncommitted claim.
Claim(h) ==
  /\ pc[h] = "claim"
  /\ locks[handling[h]] = Free
  /\ updates[handling[h]] = "none"
  /\ locks' = [locks EXCEPT ![handling[h]] = h]
  /\ Goto(h, "clock")
  /\ UNCHANGED <<updates, windows, jobs, handling, now, seen, acked, clock, faults, charges>>

\* Broken: a duplicate is answered 500.
Duplicate_Fails(h) ==
  /\ pc[h] = "claim"
  /\ locks[handling[h]] = Free
  /\ updates[handling[h]] # "none"
  /\ Goto(h, "error")
  /\ UNCHANGED <<updates, windows, jobs, locks, handling, now, seen, acked, clock, faults, charges>>

\* The row was committed by another delivery: ROLLBACK, answered as success.
Duplicate(h) ==
  /\ pc[h] = "claim"
  /\ locks[handling[h]] = Free
  /\ updates[handling[h]] # "none"
  /\ Goto(h, "ok")
  /\ UNCHANGED <<updates, windows, jobs, locks, handling, now, seen, acked, clock, faults, charges>>

\* SELECT clock_timestamp(), before any window is locked.
ReadClock(h) ==
  /\ pc[h] = "clock"
  /\ now' = [now EXCEPT ![h] = clock]
  /\ Goto(h, "user")
  /\ UNCHANGED <<updates, windows, jobs, locks, handling, seen, acked, clock, faults, charges>>

\* Broken: SELECT without FOR UPDATE.
LockWindow_NoLock(h) ==
  /\ pc[h] \in {"user", "chat"}
  /\ seen' = [seen EXCEPT ![h][Wants(h)] =
                IF windows[Wants(h)] = NoRow THEN [start |-> now[h], count |-> 0]
                                             ELSE windows[Wants(h)]]
  /\ Goto(h, IF pc[h] = "user" THEN "chat" ELSE "admit")
  /\ UNCHANGED <<updates, windows, jobs, locks, handling, now, acked, clock, faults, charges>>

\* lockAdmissionState: insert the row if it is missing, then SELECT FOR UPDATE.
LockWindow(h) ==
  /\ pc[h] \in {"user", "chat"}
  /\ locks[Wants(h)] = Free
  /\ locks' = [locks EXCEPT ![Wants(h)] = h]
  /\ seen' = [seen EXCEPT ![h][Wants(h)] =
                IF windows[Wants(h)] = NoRow THEN [start |-> now[h], count |-> 0]
                                             ELSE windows[Wants(h)]]
  /\ Goto(h, IF pc[h] = "user" THEN "chat" ELSE "admit")
  /\ UNCHANGED <<updates, windows, jobs, handling, now, acked, clock, faults, charges>>

Admitted(h) == \A s \in SubjectsOf(handling[h]) : WithinLimit(seen[h][s], now[h])

\* admitUpdate's decision; the windows it saves stay private until COMMIT.
Admit(h) ==
  /\ pc[h] = "admit"
  /\ Goto(h, IF Admitted(h) THEN "send" ELSE "reject")
  /\ UNCHANGED <<updates, windows, jobs, locks, handling, now, seen, acked, clock, faults, charges>>

\* boss.send on the same transaction.
Send(h) ==
  /\ pc[h] = "send"
  /\ Goto(h, "accept")
  /\ UNCHANGED <<updates, windows, jobs, locks, handling, now, seen, acked, clock, faults, charges>>

\* nextAdmissionState of a window the handler has locked.
Charged(h, s) == NextWindow(seen[h][s], now[h])

\* What the COMMIT of an accepted update publishes.
PublishAccepted(h) ==
  LET u == handling[h]
  IN /\ pc[h] = "accept"
     /\ updates' = [updates EXCEPT ![u] = "received"]
     /\ jobs' = [jobs EXCEPT ![u] = @ + 1]
     /\ windows' = [s \in Subjects |-> IF s \in SubjectsOf(u) THEN Charged(h, s) ELSE windows[s]]
     /\ charges' = charges \cup
          {[update |-> u, subject |-> s, start |-> Charged(h, s).start] : s \in SubjectsOf(u)}

\* What the COMMIT of a rejected update publishes: rows it had to insert stay.
PublishRejected(h) ==
  LET u == handling[h]
  IN /\ pc[h] = "reject"
     /\ updates' = [updates EXCEPT ![u] = "failed"]
     /\ windows' = [s \in Subjects |-> IF s \in SubjectsOf(u) THEN seen[h][s] ELSE windows[s]]
     /\ UNCHANGED <<jobs, charges>>

Publish(h) == PublishAccepted(h) \/ PublishRejected(h)

Commit(h) ==
  /\ Publish(h)
  /\ Release(h)
  /\ Goto(h, "ok")
  /\ UNCHANGED <<handling, now, seen, acked, clock, faults>>

-----------------------------------------------------------------------------
(* Faults.  A query, the queue insertion (also when it returns null) or    *)
(* the COMMIT fails: ROLLBACK, and the webhook answers 500.                *)

\* Broken: the job is sent on a connection of its own, so ROLLBACK leaves it.
Fail_KeepsJob(h) ==
  /\ faults < MaxFaults
  /\ pc[h] \in InTransaction
  /\ Release(h)
  /\ Goto(h, "error")
  /\ faults' = faults + 1
  /\ jobs' = IF pc[h] = "accept" THEN [jobs EXCEPT ![handling[h]] = @ + 1] ELSE jobs
  /\ UNCHANGED <<updates, windows, handling, now, seen, acked, clock, charges>>

Fail(h) ==
  /\ faults < MaxFaults
  /\ pc[h] \in InTransaction
  /\ Release(h)
  /\ Goto(h, "error")
  /\ faults' = faults + 1
  /\ UNCHANGED <<updates, windows, jobs, handling, now, seen, acked, clock, charges>>

\* COMMIT takes effect but its reply is lost: the handler sees a failure.
CommitReplyLost(h) ==
  /\ faults < MaxFaults
  /\ Publish(h)
  /\ Release(h)
  /\ Goto(h, "error")
  /\ faults' = faults + 1
  /\ UNCHANGED <<handling, now, seen, acked, clock>>

\* The process dies, or the answer never reaches Telegram.
Crash(h) ==
  /\ faults < MaxFaults
  /\ pc[h] # "idle"
  /\ Release(h)
  /\ Goto(h, "idle")
  /\ faults' = faults + 1
  /\ UNCHANGED <<updates, windows, jobs, handling, now, seen, acked, clock, charges>>

-----------------------------------------------------------------------------
\* 202 whenever enqueue returned, 500 when it threw.
Respond(h) ==
  /\ pc[h] \in {"ok", "error"}
  /\ acked' = IF pc[h] = "ok" THEN acked \cup {handling[h]} ELSE acked
  /\ Goto(h, "idle")
  /\ UNCHANGED <<updates, windows, jobs, locks, handling, now, seen, clock, faults, charges>>

Tick ==
  /\ clock < MaxClock
  /\ clock' = clock + 1
  /\ UNCHANGED <<updates, windows, jobs, locks, pc, handling, now, seen, acked, faults, charges>>

\* Nothing left to deliver: the only state in which the ingress rests.
Quiescent ==
  /\ acked = Updates
  /\ \A h \in Handlers : pc[h] = "idle"
  /\ UNCHANGED vars

Step(h) ==
  \/ Claim(h) \/ Duplicate(h) \/ ReadClock(h) \/ LockWindow(h) \/ Admit(h)
  \/ Send(h) \/ Commit(h) \/ Respond(h)

Fault(h) == Fail(h) \/ CommitReplyLost(h) \/ Crash(h)

Next ==
  \/ \E h \in Handlers :
       \/ \E u \in Updates : Deliver(h, u)
       \/ Step(h)
       \/ Fault(h)
  \/ Tick
  \/ Quiescent

Spec == Init /\ [][Next]_vars

\* Queries return, the process is scheduled, Telegram retries what got no 202.
Fairness ==
  /\ \A h \in Handlers : WF_vars(Step(h))
  /\ \A u \in Updates : WF_vars(\E h \in Handlers : Deliver(h, u))

FairSpec == Spec /\ Fairness

-----------------------------------------------------------------------------
(* Safety.                                                                 *)

\* An update has at most one job, and exactly the updates whose claim was
\* committed as 'received' have one: duplicates, redeliveries after a lost
\* reply and rejected updates never queue anything.
OneJobPerClaim ==
  \A u \in Updates : jobs[u] = (IF updates[u] = "received" THEN 1 ELSE 0)

\* Telegram is told 202 only for an update whose fate is committed: a crash
\* or a rollback of any handler cannot lose an update that will not be resent.
AckedIsDecided == \A u \in acked : updates[u] # "none"

\* Whatever is delivered twice, crashes or loses its reply, an update is decided
\* once, and Telegram hears of the decision only when it is committed.
DecidedOnce == OneJobPerClaim /\ AckedIsDecided

ChargesTo(s) == {c \in charges : c.subject = s}
ChargesIn(s, t) == {c \in ChargesTo(s) : c.start = t}

\* The count stored in a window is the number of updates really admitted
\* against it: no charge is lost between concurrent transactions, and none
\* is left behind by one that was rolled back or by a replay.
CountIsCharges ==
  \A s \in Subjects :
    IF windows[s] = NoRow
    THEN ChargesTo(s) = {}
    ELSE windows[s].count = Cardinality(ChargesIn(s, windows[s].start))

\* However handlers interleave and however late they use the clock they read,
\* no window of a subject is charged more than LIMIT times, over all time.
LimitPerWindow ==
  \A s \in Subjects : \A c \in ChargesTo(s) :
    Cardinality(ChargesIn(s, c.start)) <= LIMIT

\* Two windows of a subject are at least WINDOW apart, so LimitPerWindow is a
\* limit on a rate and not on a label.
WindowsApart ==
  \A s \in Subjects : \A c, d \in ChargesTo(s) :
    c.start < d.start => d.start - c.start >= WINDOW

\* No group of handlers in which each waits for a lock of another one: the
\* order update, user, chat keeps the three locks free of deadlock.
WaitsFor(g, h) == pc[g] \in Waiting /\ g # h /\ locks[Wants(g)] = h

NoWaitCycle ==
  \A S \in SUBSET Handlers : S # {} =>
    \E g \in S : \A h \in S : ~WaitsFor(g, h)

\* A handler about to commit a rejection is right at that moment: one of the
\* windows of its update, as committed, is full and has not expired by the
\* clock it read.  A stale read, or charging one window only, would drop
\* a message for nothing.
RejectedOnlyWhenFull ==
  \A h \in Handlers : pc[h] = "reject" =>
    \E s \in SubjectsOf(handling[h]) :
      /\ windows[s] # NoRow
      /\ windows[s].count = LIMIT
      /\ ~Expired(windows[s], now[h])

\* The limiter as a whole: no charge is lost or invented, no window is charged
\* beyond the limit nor restarted early, and nothing is rejected for less.
RateKept == CountIsCharges /\ LimitPerWindow /\ WindowsApart /\ RejectedOnlyWhenFull

\* The transaction, with its interleavings and faults, looks to Telegram and to
\* the worker like one atomic decision per update, acknowledged afterwards.
Promise == INSTANCE IngressPromise WITH fate <- updates, queued <- jobs
ImplementsPromise == Promise!Spec

\* With faults bounded, every update is decided and acknowledged.
EventuallyAcked == \A u \in Updates : <>(u \in acked)

=============================================================================
