------------------------- MODULE VertexClientProofs -------------------------
(* VertexClient's safety for any set of callers, threshold and timeout.      *)
EXTENDS VertexClient, TLAPS

(* The inductive invariant.  The type invariant alone is not inductive: from *)
(* half-open with a leftover success count, RecordSuccess would overrun      *)
(* halfOpenMax; HalfOpenAdmits excludes that state.                          *)
BreakerInv ==
    /\ BreakerTypeOK
    /\ HalfOpenAdmits
    /\ ClosedBelowThreshold

BreakerStep ==
    \/ Allow \/ Reject \/ RecordSuccess \/ RecordFailure \/ Tick
    \/ UNCHANGED breakerVars

(* Every method, and the clock, preserves the breaker's invariant. *)
LEMMA BreakerStepPreserves ==
    ASSUME BreakerInv, BreakerStep PROVE BreakerInv'
<1>. USE BreakerAssumption
     DEF BreakerInv, BreakerTypeOK, State, Elapsed, halfOpenMax,
         HalfOpenAdmits, ClosedBelowThreshold
<1>1. CASE Allow
  BY <1>1 DEF Allow, breakerVars
<1>2. CASE Reject
  BY <1>2 DEF Reject, breakerVars
<1>3. CASE RecordSuccess
  BY <1>3 DEF RecordSuccess, breakerVars
<1>4. CASE RecordFailure
  BY <1>4 DEF RecordFailure
<1>5. CASE Tick
  BY <1>5 DEF Tick
<1>6. CASE UNCHANGED breakerVars
  BY <1>6 DEF breakerVars
<1>. QED BY <1>1, <1>2, <1>3, <1>4, <1>5, <1>6 DEF BreakerStep

(* Every step of the system takes one step of the breaker, or none. *)
LEMMA StepOfBreaker ==
    ASSUME [Next]_vars PROVE BreakerStep
<1>. USE DEF BreakerStep, breakerVars
<1>1. ASSUME NEW c \in Callers, Begin(c) \/ Refuse(c) PROVE BreakerStep
  BY <1>1 DEF Begin, Refuse
<1>2. ASSUME NEW c \in Callers, NEW o \in Outcomes, End(c, o) PROVE BreakerStep
  BY <1>2 DEF End, Record
<1>3. CASE Pass
  BY <1>3 DEF Pass
<1>4. CASE UNCHANGED vars
  BY <1>4 DEF vars
<1>. QED BY <1>1, <1>2, <1>3, <1>4 DEF Next

LEMMA BreakerInvariant == Safety => []BreakerInv
<1>1. Init => BreakerInv
  BY BreakerAssumption
  DEF Init, NewBreaker, BreakerInv, BreakerTypeOK, State, Elapsed, halfOpenMax,
      HalfOpenAdmits, ClosedBelowThreshold
<1>2. BreakerInv /\ [Next]_vars => BreakerInv'
  BY StepOfBreaker, BreakerStepPreserves
<1>. QED BY <1>1, <1>2, PTL DEF Safety

(* The type invariant: the breaker's fields and the callers' states stay in  *)
(* their ranges whatever interleaving of calls runs (circuitbreaker.go:32-42, *)
(* client.go:122-259).                                                       *)
THEOREM TypeCorrect == Spec => []TypeOK
<1>. DEFINE CallsOK == call \in [Callers -> {"idle", "calling", "refused"} \union Outcomes]
<1>1. Init => CallsOK
  BY DEF Init
<1>2. CallsOK /\ [Next]_vars => CallsOK'
  BY DEF Next, vars, Begin, Refuse, End, Pass
<1>3. BreakerInv /\ CallsOK => TypeOK
  BY DEF BreakerInv, TypeOK
<1>. QED BY <1>1, <1>2, <1>3, BreakerInvariant, PTL DEF Spec, Safety

(* The circuit is closed exactly while the count is below the threshold      *)
(* (circuitbreaker.go:79-110).                                               *)
THEOREM ThresholdHolds == Spec => []ClosedBelowThreshold
  BY BreakerInvariant, PTL DEF Spec, BreakerInv

(* A half-open circuit always admits: Allow cannot lock the breaker half-open *)
(* (circuitbreaker.go:61-73).                                                *)
THEOREM HalfOpenNeverRefuses == Spec => []HalfOpenAdmits
  BY BreakerInvariant, PTL DEF Spec, BreakerInv

-----------------------------------------------------------------------------
(* VertexClient implements CallGate: each admission is a Pass, each recorded *)
(* result a Return, and every other step leaves the gate as it is            *)
(* (client.go:122-259 over circuitbreaker.go:54-110).                        *)
THEOREM ImplementsCallGate == Spec => IsCallGate
<1>1. Init => Gate!GateInit
  BY DEF Init, NewBreaker, Gate!GateInit, Calling
<1>2. TypeOK /\ [Next]_vars => [Gate!GateNext]_<<state, Calling>>
  <2>. SUFFICES ASSUME TypeOK, [Next]_vars
                PROVE  [Gate!GateNext]_<<state, Calling>>
    OBVIOUS
  <2>. USE DEF TypeOK, BreakerTypeOK, State, Calling, Gate!GateNext
  <2>1. ASSUME NEW c \in Callers, Begin(c)
        PROVE  Gate!Pass(c)
    BY <2>1 DEF Begin, Allow, breakerVars, Gate!Pass
  <2>2. ASSUME NEW c \in Callers, Refuse(c)
        PROVE  UNCHANGED <<state, Calling>>
    BY <2>2 DEF Refuse, Reject, breakerVars
  <2>3. ASSUME NEW c \in Callers, NEW o \in Outcomes, End(c, o)
        PROVE  Gate!Return(c)
    <3>1. c \in Calling /\ Calling' = Calling \ {c}
      BY <2>3 DEF End, Outcomes
    <3>2. state' = state \/ state' = "open" \/ (state = "half-open" /\ state' = "closed")
      BY <2>3 DEF End, Record, RecordSuccess, RecordFailure, breakerVars
    <3>. QED BY <3>1, <3>2 DEF Gate!Return
  <2>4. CASE Pass
    BY <2>4 DEF Pass, Tick
  <2>5. CASE UNCHANGED vars
    BY <2>5 DEF vars
  <2>. QED BY <2>1, <2>2, <2>3, <2>4, <2>5 DEF Next
<1>. QED
  BY <1>1, <1>2, TypeCorrect, PTL DEF IsCallGate, Gate!GateSpec, Gate!gateVars, Spec, Safety
=============================================================================
