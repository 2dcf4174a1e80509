--------------------------- MODULE CircuitBreaker ---------------------------
(* The breaker of internal/circuitbreaker: its fields, and one operator per  *)
(* method.  Every method runs under Breaker.mu, so each operator is one      *)
(* atomic step of whoever calls it; VertexClient supplies the callers.       *)
EXTENDS Integers

CONSTANTS
    MaxFailures,    \* Breaker.maxFailures: failures that open the circuit
    ResetTimeout,   \* Breaker.resetTimeout, in ticks
    FailureCap      \* bound: failures counts exactly up to here

(* NewClient replaces a configured threshold of 0 or less by 5, so the       *)
(* breaker it builds always has a positive one.                              *)
ASSUME BreakerAssumption ==
    /\ MaxFailures \in Nat \ {0}
    /\ ResetTimeout \in Nat
    /\ FailureCap \in Nat /\ FailureCap >= MaxFailures

VARIABLES
    state,          \* Breaker.state
    failures,       \* Breaker.failures
    successes,      \* Breaker.successes
    sinceFailure    \* ticks since Breaker.lastFailure

breakerVars == <<state, failures, successes, sinceFailure>>

State == {"closed", "open", "half-open"}

halfOpenMax == 1

(* The code only asks whether more than resetTimeout has passed, so the age  *)
(* of the last failure need not be told apart beyond that.                   *)
Elapsed == ResetTimeout + 1

BreakerTypeOK ==
    /\ state \in State
    /\ failures \in 0..FailureCap
    /\ successes \in 0..halfOpenMax
    /\ sinceFailure \in 0..Elapsed

(* lastFailure starts as the zero time: long ago. *)
NewBreaker ==
    /\ state = "closed"
    /\ failures = 0
    /\ successes = 0
    /\ sinceFailure = Elapsed

-----------------------------------------------------------------------------
TimedOut == sinceFailure > ResetTimeout

(* Mutant: the half-opening keeps the last recovery's success count. *)
AllowKeepingSuccesses ==
    \/ /\ \/ state = "closed"
          \/ state = "half-open" /\ successes < halfOpenMax
       /\ UNCHANGED breakerVars
    \/ /\ state = "open" /\ TimedOut
       /\ state' = "half-open"
       /\ UNCHANGED <<failures, successes, sinceFailure>>

(* Allow() returning nil: an open breaker whose timeout has passed becomes   *)
(* half-open on the way.                                                     *)
Allow ==
    \/ /\ \/ state = "closed"
          \/ state = "half-open" /\ successes < halfOpenMax
       /\ UNCHANGED breakerVars
    \/ /\ state = "open" /\ TimedOut
       /\ state' = "half-open"
       /\ successes' = 0
       /\ UNCHANGED <<failures, sinceFailure>>

(* Mutant: a refused call counts as activity and restarts the timeout. *)
RejectRestartingTimeout ==
    /\ state = "open" /\ ~TimedOut
    /\ sinceFailure' = 0
    /\ UNCHANGED <<state, failures, successes>>

(* Allow() returning an error: nothing changes. *)
Reject ==
    /\ \/ state = "open" /\ ~TimedOut
       \/ state = "half-open" /\ successes >= halfOpenMax
    /\ UNCHANGED breakerVars

(* Mutant: > for >= in the test that closes the circuit. *)
RecordSuccessAboveMax ==
    \/ /\ state = "half-open"
       /\ successes' = successes + 1
       /\ IF successes' > halfOpenMax
          THEN state' = "closed" /\ failures' = 0
          ELSE UNCHANGED <<state, failures>>
       /\ UNCHANGED sinceFailure
    \/ state # "half-open" /\ UNCHANGED breakerVars

(* Mutant: any success closes the circuit, a late one included. *)
RecordSuccessAnyState ==
    /\ state' = "closed" /\ failures' = 0
    /\ UNCHANGED <<successes, sinceFailure>>

(* Only a half-open breaker looks at a success. *)
RecordSuccess ==
    \/ /\ state = "half-open"
       /\ successes' = successes + 1
       /\ IF successes' >= halfOpenMax
          THEN state' = "closed" /\ failures' = 0
          ELSE UNCHANGED <<state, failures>>
       /\ UNCHANGED sinceFailure
    \/ state # "half-open" /\ UNCHANGED breakerVars

(* Mutant: > for >= in the test of the threshold. *)
RecordFailureAboveMax ==
    /\ failures' = IF failures < FailureCap THEN failures + 1 ELSE failures
    /\ sinceFailure' = 0
    /\ state' = IF state = "half-open" \/ failures' > MaxFailures
                THEN "open" ELSE state
    /\ UNCHANGED successes

RecordFailure ==
    /\ failures' = IF failures < FailureCap THEN failures + 1 ELSE failures
    /\ sinceFailure' = 0
    /\ state' = IF state = "half-open" \/ failures' >= MaxFailures
                THEN "open" ELSE state
    /\ UNCHANGED successes

(* The wall clock, which Allow reads through time.Since(lastFailure). *)
Tick ==
    /\ sinceFailure < Elapsed
    /\ sinceFailure' = sinceFailure + 1
    /\ UNCHANGED <<state, failures, successes>>
=============================================================================
