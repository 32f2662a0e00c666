----------------------------- MODULE Processes ------------------------------
(***************************************************************************)
(* The life of one process of the bot (main.ts): the steps a mode starts   *)
(* with, each of which may fail, the wait for a signal while the queue's   *)
(* jobs and the server's requests run, and the release of what was opened. *)
(* The server is closed when its connections are, which is not to wait for *)
(* its handlers: one whose client hung up runs on unawaited, and so do a   *)
(* job that has expired and the pruning that a promotion starts.  A signal *)
(* that meets no handler, and an error event nobody listens to (of the     *)
(* pool or the queue), end the process at once.                            *)
(***************************************************************************)
EXTENDS Integers, Sequences

CONSTANTS
  Connections,  \* to the server; a handler goes by the name of its connection
  Jobs,         \* a handler of a job goes by the name of the job
  MaxSignals    \* signals sent to the process

ASSUME ProcessAssumption ==
  Connections \cap Jobs = {} /\ "prune" \notin Connections \cup Jobs

VARIABLES
  mode,     \* knowledge, sync, poll, worker, webhook or once
  spc,      \* the step of startup, then "close", "drain", "stop", "end", "exited"
  handler,  \* a handler of the signals is installed
  told,     \* a handler ran
  server,   \* none, listening, draining, closed
  boss,     \* off, working, stopping, stopped
  db,       \* open, ended
  connected, \* connections that are open
  work,     \* handlers that run, of connections and jobs, and "prune"
  late,     \* of them, those that a timer gave up waiting for
  left,     \* of them, those whose connection closed before they were done
  failed,   \* a step of the startup threw
  exit,     \* none, ok, error, killed
  signals   \* signals sent so far

workVars == <<connected, work, late, left>>
processVars == <<mode, spc, handler, told, server, boss, db, workVars, failed, exit, signals>>

Modes == {"knowledge", "sync", "poll", "worker", "webhook", "once"}

\* What a mode does between opening the pool and its finally block.
Startup(m) ==
  CASE m = "knowledge" -> <<"start", "prune", "listen", "register", "signal">>
    [] m = "sync"      -> <<"start", "enqueue">>
    [] m = "poll"      -> <<"partitions", "start", "poll">>
    [] m = "worker"    -> <<"partitions", "start", "register", "signal">>
    [] m = "webhook"   -> <<"partitions", "start", "listen", "signal">>
    [] m = "once"      -> <<"partitions", "answer">>

AfterStep(m, step) ==
  LET s == Startup(m)
      i == CHOOSE k \in DOMAIN s : s[k] = step
  IN  IF i < Len(s) THEN s[i + 1] ELSE "close"

HasServer(m) == m \in {"knowledge", "webhook"}

\* Polling installs its handlers before it starts anything.
ProcessInit ==
  /\ mode \in Modes
  /\ spc = Startup(mode)[1]
  /\ handler = (mode = "poll")
  /\ told = FALSE
  /\ server = "none" /\ boss = "off" /\ db = "open"
  /\ connected = {} /\ work = {} /\ late = {} /\ left = {}
  /\ failed = FALSE /\ exit = "none" /\ signals = 0

Waiting(step) == spc = step /\ step \in {"signal", "poll"}

\* A step of the startup ends.  The waits end when a handler has run.
StepDone(step) ==
  /\ exit = "none" /\ spc = step
  /\ Waiting(step) => told
  /\ spc' = AfterStep(mode, step)
  /\ boss' = (IF step = "start" THEN "working" ELSE boss)
  /\ server' = (IF step = "listen" THEN "listening" ELSE server)
  /\ handler' = (IF AfterStep(mode, step) = "signal" THEN TRUE ELSE handler)
  /\ UNCHANGED <<mode, told, db, workVars, failed, exit, signals>>

\* It throws; only the pruning of the audit is allowed to fail.  The finally
\* block runs with whatever was opened, and the error goes on after it.
StepThrows(step) ==
  /\ exit = "none" /\ spc = step /\ step \notin {"signal", "prune"}
  /\ spc' = "close"
  /\ failed' = TRUE
  /\ UNCHANGED <<mode, handler, told, server, boss, db, workVars, exit, signals>>

\* Each of polling's two handlers serves once, the others remove each other;
\* a second signal of the same kind ends the process.
Signal ==
  /\ exit = "none" /\ spc # "exited" /\ signals < MaxSignals
  /\ signals' = signals + 1
  /\ IF handler
     THEN /\ told' = TRUE
          /\ handler' \in (IF mode = "poll" /\ ~told THEN BOOLEAN ELSE {FALSE})
          /\ UNCHANGED exit
     ELSE exit' = "killed" /\ UNCHANGED <<told, handler>>
  /\ UNCHANGED <<mode, spc, server, boss, db, workVars, failed>>

\* An idle connection breaks, or the queue's maintenance fails.
ErrorUnheard ==
  /\ exit = "none" /\ spc # "exited" /\ db = "open"
  /\ exit' = "killed"
  /\ UNCHANGED <<mode, spc, handler, told, server, boss, db, workVars, failed, signals>>

-----------------------------------------------------------------------------
\* Clients connect while the server listens.  A request is the next on its
\* connection, and a connection that is kept alive may bring one while the
\* server drains.
ClientConnects(c) ==
  /\ exit = "none" /\ server = "listening" /\ c \notin connected \cup work
  /\ connected' = connected \cup {c}
  /\ UNCHANGED <<mode, spc, handler, told, server, boss, db, work, late, left, failed, exit, signals>>

Begins(w) ==
  /\ exit = "none" /\ w \notin work
  /\ work' = work \cup {w}
  /\ UNCHANGED <<mode, spc, handler, told, server, boss, db, connected, late, left, failed, exit, signals>>

RequestBegins(c) == c \in connected /\ Begins(c)

\* Jobs come once their handlers are registered and until the queue is told
\* to stop.
JobBegins(j) ==
  /\ boss = "working" /\ mode \in {"knowledge", "worker"}
  /\ spc \in {"register", "signal", "close", "drain", "stop"}
  /\ Begins(j)

\* A promotion prunes the audit, once in an hour, and does not wait for it.
PruneBegins ==
  /\ mode = "knowledge" /\ work \cap Connections # {}
  /\ Begins("prune")

WorkEnds(w) ==
  /\ exit = "none" /\ w \in work
  /\ work' = work \ {w} /\ late' = late \ {w} /\ left' = left \ {w}
  /\ UNCHANGED <<mode, spc, handler, told, server, boss, db, connected, failed, exit, signals>>

\* The client hangs up, or the socket has been idle for too long.  That aborts
\* the signal of the handler, which goes on until it looks.
ConnectionCloses(c) ==
  /\ exit = "none" /\ c \in connected
  /\ connected' = connected \ {c}
  /\ left' = (IF c \in work THEN left \cup {c} ELSE left)
  /\ UNCHANGED <<mode, spc, handler, told, server, boss, db, work, late, failed, exit, signals>>

\* The queue waits no longer for a job that has expired.
JobExpires(j) ==
  /\ exit = "none" /\ boss \in {"working", "stopping"} /\ j \in work
  /\ late' = late \cup {j}
  /\ UNCHANGED <<mode, spc, handler, told, server, boss, db, connected, work, left, failed, exit, signals>>

-----------------------------------------------------------------------------
\* closeServer: a server that never listened is skipped.  Connections without
\* a request are closed, as far as they are known to be idle.
CloseServer ==
  /\ exit = "none" /\ spc = "close"
  /\ handler' = FALSE
  /\ IF server = "listening"
     THEN /\ server' = "draining" /\ spc' = "drain"
          /\ \E idle \in SUBSET (connected \ work) : connected' = connected \ idle
     ELSE spc' = "stop" /\ UNCHANGED <<server, connected>>
  /\ UNCHANGED <<mode, told, boss, db, work, late, left, failed, exit, signals>>

\* Broken: goes on without the callback of server.close.
Drained_AtOnce ==
  /\ exit = "none" /\ spc = "drain"
  /\ server' = "closed" /\ spc' = "stop"
  /\ UNCHANGED <<mode, handler, told, boss, db, workVars, failed, exit, signals>>

\* The last connection has closed, whoever still works on its request.
Drained ==
  /\ exit = "none" /\ spc = "drain" /\ connected = {}
  /\ server' = "closed" /\ spc' = "stop"
  /\ UNCHANGED <<mode, handler, told, boss, db, workVars, failed, exit, signals>>

DrainTimeout_Never == FALSE  \* Broken: waits for every connection

\* After 15 seconds the connections are closed under their requests.
DrainTimeout ==
  /\ exit = "none" /\ spc = "drain" /\ connected # {}
  /\ server' = "closed" /\ spc' = "stop"
  /\ connected' = {}
  /\ late' = late \cup (work \cap connected)
  /\ UNCHANGED <<mode, handler, told, boss, db, work, left, failed, exit, signals>>

\* boss.stop: no job is taken any more; it waits for those that
\* run and have not expired.
StopBoss ==
  /\ exit = "none" /\ spc = "stop" /\ boss \in {"off", "working"}
  /\ boss' = (IF boss = "working" THEN "stopping" ELSE "stopped")
  /\ UNCHANGED <<mode, spc, handler, told, server, db, workVars, failed, exit, signals>>

BossStopped ==
  /\ exit = "none" /\ spc = "stop" /\ boss \in {"stopping", "stopped"}
  /\ work \cap Jobs \subseteq late
  /\ boss' = "stopped" /\ spc' = "end"
  /\ UNCHANGED <<mode, handler, told, server, db, workVars, failed, exit, signals>>

\* The queue waits no longer than its own timeout; its failure is ignored.
StopTimeout ==
  /\ exit = "none" /\ spc = "stop" /\ boss = "stopping" /\ ~(work \cap Jobs \subseteq late)
  /\ boss' = "stopped" /\ spc' = "end"
  /\ late' = late \cup (work \cap Jobs)
  /\ UNCHANGED <<mode, handler, told, server, db, connected, work, left, failed, exit, signals>>

\* Modes sync, poll and once do not catch a failure of db.end.
EndDatabase(fails) ==
  /\ exit = "none" /\ spc = "end"
  /\ db' = "ended" /\ spc' = "exited"
  /\ exit' = (IF failed \/ (fails /\ mode \in {"sync", "poll", "once"})
              THEN "error" ELSE "ok")
  /\ UNCHANGED <<mode, handler, told, server, boss, workVars, failed, signals>>

ProcessStep ==
  \/ \E step \in {"partitions", "start", "prune", "listen", "register", "enqueue", "answer",
                  "signal", "poll"} : StepDone(step)
  \/ CloseServer \/ Drained \/ DrainTimeout
  \/ StopBoss \/ BossStopped \/ StopTimeout
  \/ \E fails \in BOOLEAN : EndDatabase(fails)

ProcessWorld ==
  \/ \E step \in {"partitions", "start", "listen", "register", "enqueue", "answer", "poll"} :
       StepThrows(step)
  \/ Signal \/ ErrorUnheard
  \/ \E c \in Connections : ClientConnects(c) \/ RequestBegins(c) \/ ConnectionCloses(c)
  \/ \E j \in Jobs : JobBegins(j) \/ JobExpires(j)
  \/ PruneBegins
  \/ \E w \in Connections \cup Jobs \cup {"prune"} : WorkEnds(w)

ProcessEnded == exit # "none"
ProcessWaits == exit = "none" /\ spc \in {"signal", "poll"} /\ ~told

ProcessTypeOK ==
  /\ mode \in Modes /\ handler \in BOOLEAN /\ told \in BOOLEAN
  /\ server \in {"none", "listening", "draining", "closed"}
  /\ boss \in {"off", "working", "stopping", "stopped"}
  /\ db \in {"open", "ended"}
  /\ connected \subseteq Connections
  /\ work \subseteq Connections \cup Jobs \cup {"prune"}
  /\ late \subseteq work /\ left \subseteq work
  /\ exit \in {"none", "ok", "error", "killed"}

\* The pool outlives those who wait for it: the server and the queue are
\* closed before it ends, no client is then still connected, and what runs on
\* is a job or request that a timer gave up waiting for, the handler of a
\* client that hung up (server.close waits for connections only), or the
\* pruning of the audit, for which nobody ever waits.
ClosedInOrder ==
  db = "ended" =>
    /\ server \in {"none", "closed"} /\ connected = {}
    /\ boss = "stopped"
    /\ work \subseteq late \cup left \cup {"prune"}
=============================================================================
