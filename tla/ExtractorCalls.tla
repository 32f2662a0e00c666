--------------------------- MODULE ExtractorCalls ---------------------------
(***************************************************************************)
(* What the two document extractors have in common: one HTTP process, one  *)
(* parser thread per admitted request, and a client in another process     *)
(* that gives up by itself.  PrivateExtractor and PdfExtractor add their   *)
(* handlers; a behaviour belongs to one of them.                           *)
(***************************************************************************)
EXTENDS Naturals, FiniteSets, FiniteSetsExt

CONSTANTS
  Calls,      \* calls of extract(), each one HTTP request
  Requests,   \* what a request can look like to the server
  MaxFaults   \* bound: faults of a behaviour

ASSUME CallsAssumption == IsFiniteSet(Calls) /\ MaxFaults \in Nat

\* Both clients send what the servers want; only the token is configuration.
ASSUME ClientAssumption ==
  \A r \in Requests :
    r.token \in BOOLEAN /\ r.endpoint /\ r.octets /\ ~r.chunked /\ r.metadata /\ r.length

VARIABLES
  up,        \* the extractor's process runs
  closing,   \* it was poisoned: it exits when its connections are gone
  slot,      \* its one slot: "available", "busy" or "poisoned"
  wire,      \* a call's connection: "none", "open" or "shut"
  serving,   \* where handleRequest is
  outcome,   \* what its worker promise will settle with: a status
  thread,    \* the parser thread: "stuck" no longer heeds terminate()
  input,     \* the server's copy of the document
  reply,     \* the status on the wire, 0 before there is one
  client,    \* where extract() is, or what it settled with
  body,      \* the client's copy of the document
  signal,    \* the caller's AbortSignal fired
  faults     \* faults so far

serverVars == <<slot, serving, outcome, thread, input, reply>>
processVars == <<up, closing>>
clientVars == <<client, body, signal>>
callVars == <<processVars, serverVars, wire, clientVars, faults>>

Statuses == {200, 401, 404, 408, 413, 415, 422, 429, 499, 502, 503, 504}
Settlements == {"ok", "refused", "retry", "aborted", "failed", "threw"}
Active == {"reading", "working", "finishing"}
Alive == {"running", "stopping", "stuck"}

CallsTypeOK ==
  /\ up \in BOOLEAN /\ closing \in BOOLEAN
  /\ slot \in {"available", "busy", "poisoned"}
  /\ wire \in [Calls -> {"none", "open", "shut"}]
  /\ serving \in [Calls -> {"none", "answered"} \cup Active]
  /\ outcome \in [Calls -> Statuses \cup {0}]
  /\ thread \in [Calls -> {"none", "gone"} \cup Alive]
  /\ input \in [Calls -> {"none", "held", "wiped"}]
  /\ reply \in [Calls -> Statuses \cup {0}]
  /\ client \in [Calls -> {"idle", "waiting"} \cup Settlements]
  /\ body \in [Calls -> {"none", "held", "wiped"}]
  /\ signal \in [Calls -> BOOLEAN]
  /\ faults \in 0..MaxFaults

CallsInit ==
  /\ up = TRUE /\ closing = FALSE
  /\ slot = "available"
  /\ wire = [c \in Calls |-> "none"]
  /\ serving = [c \in Calls |-> "none"]
  /\ outcome = [c \in Calls |-> 0]
  /\ thread = [c \in Calls |-> "none"]
  /\ input = [c \in Calls |-> "none"]
  /\ reply = [c \in Calls |-> 0]
  /\ client = [c \in Calls |-> "idle"]
  /\ body = [c \in Calls |-> "none"]
  /\ signal = [c \in Calls |-> FALSE]
  /\ faults = 0

Fault == faults < MaxFaults /\ faults' = faults + 1
NoFault == UNCHANGED faults

\* The status of the first check that fails, 0 when all hold: a handler's
\* early returns, in their order.
FirstFailing(checks) ==
  LET failing == {i \in DOMAIN checks : ~checks[i].holds}
  IN IF failing = {} THEN 0 ELSE checks[Min(failing)].status

Check(holds, status) == [holds |-> holds, status |-> status]

-----------------------------------------------------------------------------
(* The network and the process.                                            *)

\* The caller's signal fires: a lost job, a shutdown, a promotion timeout.
CallerAborts(c) ==
  /\ client[c] \in {"idle", "waiting"} /\ ~signal[c]
  /\ signal' = [signal EXCEPT ![c] = TRUE]
  /\ UNCHANGED <<processVars, serverVars, wire, client, body, faults>>

\* The process dies under its requests: their connections break.
Crash ==
  /\ up /\ Fault
  /\ up' = FALSE
  /\ wire' = [c \in Calls |-> IF wire[c] = "open" THEN "shut" ELSE wire[c]]
  /\ serving' = [c \in Calls |-> IF serving[c] = "none" THEN "none" ELSE "answered"]
  /\ thread' = [c \in Calls |-> IF thread[c] = "none" THEN "none" ELSE "gone"]
  /\ input' = [c \in Calls |-> IF input[c] = "none" THEN "none" ELSE "wiped"]
  /\ UNCHANGED <<closing, slot, outcome, reply, clientVars>>

\* poison() of main: server.close() waits for the open connections, then the
\* process exits, and its threads with it.
PoisonedExit ==
  /\ up /\ closing
  /\ \A c \in Calls : serving[c] # "none" => wire[c] # "open"
  /\ up' = FALSE
  /\ wire' = [c \in Calls |-> IF wire[c] = "open" THEN "shut" ELSE wire[c]]
  /\ thread' = [c \in Calls |-> IF thread[c] = "none" THEN "none" ELSE "gone"]
  /\ UNCHANGED <<closing, slot, serving, outcome, input, reply, clientVars, faults>>

\* restart: unless-stopped.
Restart ==
  /\ ~up
  /\ up' = TRUE /\ closing' = FALSE /\ slot' = "available"
  /\ UNCHANGED <<serving, outcome, thread, input, reply, wire, clientVars, faults>>

-----------------------------------------------------------------------------
(* The parser threads, as their request sees them.                         *)

\* A thread that no longer reacts, to messages or to terminate().
ThreadHangs(c) ==
  /\ thread[c] \in {"running", "stopping"} /\ Fault
  /\ thread' = [thread EXCEPT ![c] = "stuck"]
  /\ UNCHANGED <<processVars, slot, serving, outcome, input, reply, wire, clientVars>>

\* A thread that was told to terminate is gone.
ThreadStops(c) ==
  /\ thread[c] = "stopping"
  /\ thread' = [thread EXCEPT ![c] = "gone"]
  /\ UNCHANGED <<processVars, slot, serving, outcome, input, reply, wire, clientVars, faults>>

\* After terminate() a running thread stops; a stuck one stays.
Terminating(c) ==
  thread' = [thread EXCEPT ![c] = IF @ = "running" THEN "stopping" ELSE @]

ProcessStep == Crash \/ PoisonedExit \/ Restart
=============================================================================
