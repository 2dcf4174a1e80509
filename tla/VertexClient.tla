---------------------------- MODULE VertexClient ----------------------------
(* vertex.Client: request goroutines that call Vertex AI through one shared  *)
(* circuit breaker.  CallJSON, CallJSONForModel, CallStream and CallStreamRaw*)
(* have the same three steps - Allow, the HTTP round-trip, Record - and      *)
(* differ only in what they return, so one action each stands for all four.  *)
(* Between Allow and Record nothing is locked: other callers' steps and the  *)
(* clock interleave freely.                                                  *)
EXTENDS CircuitBreaker

CONSTANT Callers    \* the request goroutines

VARIABLE
    call            \* call[c]: the call c is in, or how its last one ended

vars == <<state, failures, successes, sinceFailure, call>>

(* How a round-trip ends.  "server" is every error that is not a VertexError *)
(* below 500: a 5xx, a transport error, a client that hung up.               *)
Outcomes == {"ok", "client", "server"}

Calling == {c \in Callers : call[c] = "calling"}

Init ==
    /\ NewBreaker
    /\ call = [c \in Callers |-> "idle"]

-----------------------------------------------------------------------------
(* The request is sent: breaker.Allow() returned nil. *)
Begin(c) ==
    /\ call[c] # "calling"
    /\ Allow
    /\ call' = [call EXCEPT ![c] = "calling"]

(* breaker.Allow() returned an error, which the caller returns. *)
Refuse(c) ==
    /\ call[c] # "calling"
    /\ Reject
    /\ call' = [call EXCEPT ![c] = "refused"]

(* shouldTripBreaker: client errors count neither as failure nor as success. *)
Record(outcome) ==
    \/ outcome = "ok" /\ RecordSuccess
    \/ outcome = "server" /\ RecordFailure
    \/ outcome = "client" /\ UNCHANGED breakerVars

(* The round-trip ends and its result is recorded. *)
End(c, outcome) ==
    /\ call[c] = "calling"
    /\ Record(outcome)
    /\ call' = [call EXCEPT ![c] = outcome]

Pass == Tick /\ UNCHANGED call

Next ==
    \/ \E c \in Callers : Begin(c) \/ Refuse(c)
    \/ \E c \in Callers, o \in Outcomes : End(c, o)
    \/ Pass

(* Time passes, requests keep arriving, and every round-trip ends (the HTTP  *)
(* client and the request context bound it), one way or another.             *)
Fairness ==
    /\ WF_vars(Pass)
    /\ \A c \in Callers :
        /\ WF_vars(Begin(c))
        /\ WF_vars(\E o \in Outcomes : End(c, o))

Safety == Init /\ [][Next]_vars

Spec == Safety /\ Fairness

-----------------------------------------------------------------------------
TypeOK ==
    /\ BreakerTypeOK
    /\ call \in [Callers -> {"idle", "calling", "refused"} \union Outcomes]

(* The circuit is closed exactly while fewer failures than the threshold are *)
(* on the count, however the results of concurrent calls interleave:         *)
(* RecordFailure opens at the threshold, nothing but the closing success     *)
(* clears the count, and a late failure after the opening cannot be lost     *)
(* (circuitbreaker.go:54-110).                                               *)
ClosedBelowThreshold == state = "closed" <=> failures < MaxFailures

(* A half-open circuit is always waiting for a verdict, so Allow's half-open *)
(* error branch is never taken and the breaker cannot lock itself out: the   *)
(* success count left over from an earlier recovery is gone by the time the  *)
(* next probe is admitted (circuitbreaker.go:62-73).                         *)
HalfOpenAdmits == state = "half-open" => successes < halfOpenMax

(* The breaker implements the gate its callers rely on: while it is open, no *)
(* call is added to those in flight, and the results of calls admitted       *)
(* before it opened cannot reopen traffic (client.go:122-259).               *)
Gate == INSTANCE CallGate WITH gate <- state, inFlight <- Calling
IsCallGate == Gate!GateSpec

(* An open circuit is probed again: failures reported late by calls admitted *)
(* before it opened push lastFailure forward, but only so many are in flight *)
(* (circuitbreaker.go:61-68, 97-98).                                         *)
OpenIsProbed == state = "open" ~> state = "half-open"

(* Once calls fail no more, and of the calls made not all are answered with  *)
(* a client error, the circuit closes and stays closed: neither a late       *)
(* result nor a leftover success count leaves it stuck half-open or open     *)
(* (circuitbreaker.go:79-110).                                               *)
Ended(outcome) == \E c \in Calling : call'[c] = outcome

Healthy ==
    /\ <>[][~Ended("server")]_vars
    /\ []<>(Calling # {}) => []<><<Ended("ok")>>_vars

Recovers == Healthy => <>[](state = "closed")
=============================================================================
