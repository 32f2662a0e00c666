------------------------------- MODULE JobQueue -------------------------------
(***************************************************************************)
(* The queue as the worker uses it (pg-boss, external), and the handlers   *)
(* it runs.  A job goes to one handler at a time and is tried again when   *)
(* the handler throws, dies, or outlives the job's expiry.  In the last    *)
(* case the queue only aborts the handler's signal and forgets it: the old *)
(* handler keeps running next to the new one, and how it ends no longer    *)
(* matters to the job.                                                     *)
(***************************************************************************)
EXTENDS Naturals

CONSTANTS
  Handlers,      \* handlers that can be running at once, aborted ones included
  Updates,       \* updates with a job
  RetryLimit,    \* retryLimit of the job
  MaxFaults      \* bound on failures, lost replies, expiries and crashes

ASSUME QueueAssumption == RetryLimit \in Nat /\ MaxFaults \in Nat

VARIABLES
  job,        \* state of the job
  retries,    \* attempts after the first one
  pc,         \* where each handler is
  on,         \* the update it works on
  attempt,    \* which attempt it is
  aborted,    \* its job.signal
  faults,     \* faults that have happened
  expired     \* history: updates one of whose attempts outlived the job

handlerVars == <<on, attempt, aborted>>
queueVars == <<job, retries, pc, on, attempt, aborted, faults, expired>>

\* What a handler leaves alone while it works, and while a call of it fails.
JobUntouched == UNCHANGED <<job, retries, on, attempt, aborted, expired>>

QueueTypeOK ==
  /\ job \in [Updates -> {"created", "active", "retry", "completed", "failed", "dropped"}]
  /\ retries \in [Updates -> 0..RetryLimit]
  /\ on \in [Handlers -> Updates]
  /\ attempt \in [Handlers -> 0..RetryLimit]
  /\ aborted \in [Handlers -> BOOLEAN]
  /\ faults \in 0..MaxFaults
  /\ expired \in SUBSET Updates

\* No handler runs, nothing has been tried.
HandlersInit ==
  /\ retries = [u \in Updates |-> 0]
  /\ pc = [h \in Handlers |-> "idle"]
  /\ on \in [Handlers -> Updates]
  /\ attempt = [h \in Handlers |-> 0]
  /\ aborted = [h \in Handlers |-> FALSE]
  /\ faults = 0
  /\ expired = {}

QueueInit ==
  /\ job = [u \in Updates |-> "created"]
  /\ HandlersInit

Goto(h, stage) == pc' = [pc EXCEPT ![h] = stage]
Fault == faults < MaxFaults /\ faults' = faults + 1
NoFault == UNCHANGED faults

\* An attempt failed: the job waits for the next one, or is given up.
Requeue(u) ==
  IF retries[u] < RetryLimit
  THEN /\ job' = [job EXCEPT ![u] = "retry"]
       /\ retries' = [retries EXCEPT ![u] = @ + 1]
  ELSE /\ job' = [job EXCEPT ![u] = "failed"]
       /\ UNCHANGED retries

Waiting(u) == job[u] \in {"created", "retry"}
Settled(u) == job[u] \in {"completed", "failed", "dropped"}

Take(h, u, stage) ==
  /\ pc[h] = "idle" /\ Waiting(u)
  /\ job' = [job EXCEPT ![u] = "active"]
  /\ Goto(h, stage)
  /\ on' = [on EXCEPT ![h] = u]
  /\ attempt' = [attempt EXCEPT ![h] = retries[u]]
  /\ aborted' = [aborted EXCEPT ![h] = FALSE]
  /\ UNCHANGED <<retries, faults, expired>>

\* The job outlives its expiry: the handler's signal is aborted, no more.
Outlive(h) ==
  /\ Fault
  /\ pc[h] # "idle" /\ ~aborted[h]
  /\ aborted' = [aborted EXCEPT ![h] = TRUE]
  /\ expired' = expired \cup {on[h]}
  /\ Requeue(on[h])
  /\ UNCHANGED <<pc, on, attempt>>

\* The worker process dies; the job stays active until the queue expires it.
Die(h) ==
  /\ Fault
  /\ pc[h] # "idle"
  /\ Goto(h, "idle")
  /\ JobUntouched

Abandoned(u) == \A h \in Handlers : on[h] = u => pc[h] = "idle" \/ aborted[h]

Recover(u) ==
  /\ job[u] = "active" /\ Abandoned(u)
  /\ Requeue(u)
  /\ UNCHANGED <<pc, handlerVars, faults, expired>>

\* The handler throws.
Throw(h) ==
  /\ Goto(h, "idle")
  /\ IF aborted[h] THEN UNCHANGED <<job, retries>> ELSE Requeue(on[h])
  /\ UNCHANGED <<handlerVars, expired>>

\* The handler returns.
Return(h) ==
  /\ Goto(h, "idle")
  /\ job' = IF aborted[h] THEN job ELSE [job EXCEPT ![on[h]] = "completed"]
  /\ UNCHANGED <<retries, handlerVars, faults, expired>>

\* A job nobody has taken when its retention ends is deleted.
Drop(u) ==
  /\ Fault
  /\ Waiting(u)
  /\ job' = [job EXCEPT ![u] = "dropped"]
  /\ UNCHANGED <<retries, pc, handlerVars, expired>>

\* Every job has ended, and so has every handler.
AtRest ==
  /\ \A u \in Updates : Settled(u)
  /\ \A h \in Handlers : pc[h] = "idle"
=============================================================================
