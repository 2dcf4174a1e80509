------------------------------ MODULE CallGate ------------------------------
(* What the circuit breaker promises the callers of vertex.Client, without   *)
(* its counters and its clock: a call is admitted unless the gate is open;   *)
(* an open gate is reopened to traffic only by an admission, which makes it  *)
(* half-open; every other change of the gate is made by a call that was      *)
(* admitted and now reports its result; and no result ever takes an open     *)
(* gate out of the open state.  VertexClient implements it.                  *)
CONSTANT Callers

VARIABLES
    gate,           \* "closed", "open" or "half-open"
    inFlight        \* the callers whose call was admitted and has not returned

gateVars == <<gate, inFlight>>

GateInit == gate = "closed" /\ inFlight = {}

(* A call passes, leaving the gate closed or half-open. *)
Pass(c) ==
    /\ c \notin inFlight
    /\ inFlight' = inFlight \union {c}
    /\ gate' = IF gate = "open" THEN "half-open" ELSE gate

(* A call returns.  Its result may open the gate, or close a half-open one;  *)
(* it never takes the gate out of the open state.                            *)
Return(c) ==
    /\ c \in inFlight
    /\ inFlight' = inFlight \ {c}
    /\ \/ gate' = gate
       \/ gate' = "open"
       \/ gate = "half-open" /\ gate' = "closed"

GateNext == \E c \in Callers : Pass(c) \/ Return(c)

GateSpec == GateInit /\ [][GateNext]_gateVars
=============================================================================
