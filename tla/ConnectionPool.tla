---------------------------- MODULE ConnectionPool ----------------------------
(***************************************************************************)
(* The connections of the knowledge database.  An operation of             *)
(* KnowledgeRepository takes one for its transaction.  Some wait for it    *)
(* only until their deadline or signal (acquireBoundedClient): the pool    *)
(* cannot be told, and gives them a connection nobody waits for any more.  *)
(***************************************************************************)
EXTENDS Integers, FiniteSets

CONSTANTS
  Operations,
  BoundedOperations,  \* those with options; the others call pool.connect() and wait
  PoolSize            \* connections of the pool

ASSUME PoolAssumption == BoundedOperations \subseteq Operations /\ PoolSize \in Nat \ {0}

VARIABLES
  operation,   \* where an operation is
  cancelled,   \* its signal is aborted or its deadline over
  late,        \* connections asked for by operations that gave up
  leaked       \* connections nobody will give back

poolVars == <<operation, cancelled, late, leaked>>

PoolTypeOK ==
  /\ operation \in [Operations -> {"waits", "begin", "query", "ended"}]
  /\ cancelled \in SUBSET Operations
  /\ late \in Nat /\ leaked \in Nat

PoolInit ==
  /\ operation = [o \in Operations |-> "waits"]
  /\ cancelled = {} /\ late = 0 /\ leaked = 0

Holding == {o \in Operations : operation[o] \in {"begin", "query"}}
Free == PoolSize - leaked - Cardinality(Holding)

Becomes(o, stage) == operation' = [operation EXCEPT ![o] = stage]

\* The promise of a connection resolves.
Connects(o) ==
  /\ operation[o] = "waits" /\ Free > 0
  /\ Becomes(o, "begin")
  /\ UNCHANGED <<cancelled, late, leaked>>

\* The connection cannot be made.
ConnectFails(o) ==
  /\ operation[o] = "waits"
  /\ Becomes(o, "ended")
  /\ UNCHANGED <<cancelled, late, leaked>>

Cancels(o) ==
  /\ operation[o] # "ended" /\ o \notin cancelled
  /\ cancelled' = cancelled \cup {o}
  /\ UNCHANGED <<operation, late, leaked>>

\* The race is lost by the connection, which is released when it comes.
GivesUp(o) ==
  /\ operation[o] = "waits" /\ o \in cancelled \cap BoundedOperations
  /\ Becomes(o, "ended")
  /\ late' = late + 1
  /\ UNCHANGED <<cancelled, leaked>>

LateArrives_Kept == \* Broken: nobody waits for it, and nobody releases it
  /\ late > 0 /\ Free > 0
  /\ late' = late - 1 /\ leaked' = leaked + 1
  /\ UNCHANGED <<operation, cancelled>>

LateArrives ==
  /\ late > 0 /\ Free > 0
  /\ late' = late - 1
  /\ UNCHANGED <<operation, cancelled, leaked>>

LateFails ==
  /\ late > 0
  /\ late' = late - 1
  /\ UNCHANGED <<operation, cancelled, leaked>>

\* The checks before BEGIN.
Begins(o) ==
  /\ operation[o] = "begin"
  /\ Becomes(o, IF o \in cancelled THEN "ended" ELSE "query")
  /\ UNCHANGED <<cancelled, late, leaked>>

\* COMMIT, or ROLLBACK after an error; the connection goes back, and is thrown
\* away when even the ROLLBACK failed.
Ends(o) ==
  /\ operation[o] = "query"
  /\ Becomes(o, "ended")
  /\ UNCHANGED <<cancelled, late, leaked>>

PoolStep ==
  \/ \E o \in Operations : Connects(o) \/ GivesUp(o) \/ Begins(o) \/ Ends(o)
  \/ LateArrives

PoolWorld ==
  \/ \E o \in Operations : ConnectFails(o) \/ Cancels(o)
  \/ LateFails

PoolAtRest ==
  /\ \A o \in Operations : operation[o] = "ended"
  /\ late = 0 /\ Free = PoolSize
=============================================================================
