------------------------------ MODULE SourceJobs ------------------------------
(***************************************************************************)
(* The crawl jobs of one source (knowledgeWorker.ts).  The queue is        *)
(* exclusive: a source has at most one job that waits or runs.  Jobs come  *)
(* from the schedule and from an operator, who wants the id of the job     *)
(* that serves the request, also when the queue has deduplicated it.  Jobs *)
(* are the numbers of Updates, in the order of their createdOn.            *)
(***************************************************************************)
EXTENDS JobQueue

ASSUME JobsAssumption == Updates \subseteq Nat \ {0} /\ 1 \in Updates

VARIABLES
  registered,  \* the source is in the registry file, and not monitor-only
  scheduled,   \* its row among the queue's schedules
  asked,       \* where the operator's enqueueKnowledgeSource is
  answer,      \* the id it returned, 0 for none
  blocker      \* history: the job for whose sake its send was deduplicated

sourceVars == <<registered, scheduled, asked, answer, blocker>>

JobsTypeOK ==
  /\ job \in [Updates -> {"unsent", "created", "active", "retry", "completed", "failed", "dropped"}]
  /\ retries \in [Updates -> 0..RetryLimit]
  /\ on \in [Handlers -> Updates]
  /\ attempt \in [Handlers -> 0..RetryLimit] /\ aborted \in [Handlers -> BOOLEAN]
  /\ faults \in 0..MaxFaults /\ expired \in SUBSET Updates
  /\ registered \in BOOLEAN /\ scheduled \in BOOLEAN
  /\ asked \in {"not", "find", "returned", "threw"}
  /\ answer \in Updates \cup {0} /\ blocker \in Updates \cup {0}

JobsInit ==
  /\ registered = TRUE /\ scheduled = TRUE
  /\ asked = "not" /\ answer = 0 /\ blocker = 0

Live == {u \in Updates : job[u] \in {"created", "active", "retry"}}
Rows == {u \in Updates : job[u] \notin {"unsent", "dropped"}}

\* boss.send with the source as singletonKey: a new job, or null.
Send(u) ==
  /\ Live = {} /\ job[u] = "unsent"
  /\ \A v \in Updates : v < u => job[v] # "unsent"
  /\ job' = [job EXCEPT ![u] = "created"]

ScheduleFires ==
  /\ scheduled
  /\ \E u \in Updates : Send(u)
  /\ UNCHANGED <<retries, pc, handlerVars, faults, expired, sourceVars>>

\* An operator asks for a source that the registry still has.
Enqueue ==
  /\ asked = "not" /\ registered
  /\ \/ \E u \in Updates : Send(u) /\ answer' = u /\ asked' = "returned" /\ UNCHANGED blocker
     \/ /\ Live # {}
        /\ asked' = "find" /\ blocker' \in Live
        /\ UNCHANGED <<job, answer>>
  /\ UNCHANGED <<retries, pc, handlerVars, faults, expired, registered, scheduled>>

NewestRow_First(u) == u \in Rows /\ \A v \in Rows : u <= v  \* Broken: sorted the other way
\* The newest of the source's rows.
NewestRow(u) == u \in Rows /\ \A v \in Rows : v <= u

\* By now the job that was in the way may have ended, another may have been
\* sent, and old rows may be gone.
EnqueueFinds ==
  /\ asked = "find"
  /\ \/ \E u \in Rows : NewestRow(u) /\ answer' = u /\ asked' = "returned"
     \/ Rows = {} /\ asked' = "threw" /\ UNCHANGED answer
  /\ UNCHANGED <<queueVars, registered, scheduled, blocker>>

\* The operator takes the source out of the registry.  Workers read the file
\* again for every job; its schedule goes when a worker starts.
Unregister ==
  /\ registered
  /\ registered' = FALSE
  /\ UNCHANGED <<queueVars, scheduled, asked, answer, blocker>>

\* reconcileKnowledgeSchedules and scheduleKnowledgeSources, of a starting worker.
Reconcile ==
  /\ scheduled # registered
  /\ scheduled' = registered
  /\ UNCHANGED <<queueVars, registered, asked, answer, blocker>>

\* Retention deletes rows, the oldest first.
Oldest(u) == u \in Rows /\ \A v \in Rows : u <= v

Forget(u) ==
  /\ job[u] \in {"completed", "failed"} /\ Oldest(u)
  /\ job' = [job EXCEPT ![u] = "dropped"]
  /\ UNCHANGED <<retries, pc, handlerVars, faults, expired, sourceVars>>

\* A worker takes the job, reads the registry, and crawls (see SourceSync for
\* what that is) or refuses.
StartJob(h, u) ==
  /\ Take(h, u, "start")
  /\ UNCHANGED sourceVars

ReadRegistry(h) ==
  /\ pc[h] = "start"
  /\ IF registered /\ ~aborted[h] THEN Goto(h, "sync") /\ JobUntouched ELSE Throw(h)
  /\ UNCHANGED <<faults, sourceVars>>

Synced(h) ==
  /\ pc[h] = "sync"
  /\ Return(h) \/ (Fault /\ Throw(h))
  /\ UNCHANGED sourceVars

JobsWork(h) ==
  \/ \E u \in Updates : StartJob(h, u)
  \/ ReadRegistry(h) \/ Synced(h)

JobsWorld ==
  \/ \E h \in Handlers : (Outlive(h) \/ Die(h)) /\ UNCHANGED sourceVars
  \/ ScheduleFires \/ Enqueue \/ EnqueueFinds \/ Unregister \/ Reconcile
  \/ \E u \in Updates : Forget(u) \/ (Oldest(u) /\ Drop(u) /\ UNCHANGED sourceVars)

\* What the operator is told is the job whose presence the queue deduplicated
\* the request for, or a later one: never a crawl that was over before.
EnqueuedIsFresh == asked = "returned" => answer >= blocker
=============================================================================
