--------------------------- MODULE IngressPromise ---------------------------
(***************************************************************************)
(* What the ingress promises Telegram and the worker, with no database, no *)
(* handlers and no faults: an update is decided once, in one step that     *)
(* also puts its single job on the queue or drops it for good, and only a  *)
(* decided update is ever acknowledged.                                    *)
(***************************************************************************)
EXTENDS Naturals

CONSTANT Updates

VARIABLES
  fate,     \* "none", "received" (a job exists) or "failed" (dropped)
  queued,   \* how many jobs an update has
  acked     \* updates that are not sent again

promiseVars == <<fate, queued, acked>>

Init ==
  /\ fate = [u \in Updates |-> "none"]
  /\ queued = [u \in Updates |-> 0]
  /\ acked = {}

Accept(u) ==
  /\ fate[u] = "none"
  /\ fate' = [fate EXCEPT ![u] = "received"]
  /\ queued' = [queued EXCEPT ![u] = 1]
  /\ UNCHANGED acked

Reject(u) ==
  /\ fate[u] = "none"
  /\ fate' = [fate EXCEPT ![u] = "failed"]
  /\ UNCHANGED <<queued, acked>>

Acknowledge(u) ==
  /\ fate[u] # "none"
  /\ acked' = acked \cup {u}
  /\ UNCHANGED <<fate, queued>>

Next == \E u \in Updates : Accept(u) \/ Reject(u) \/ Acknowledge(u)

Spec == Init /\ [][Next]_promiseVars
=============================================================================
