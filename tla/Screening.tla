----------------------------- MODULE Screening -----------------------------
(* What a screening promises the handlers: every inspector is heard, and the *)
(* answer is a block exactly when one of them blocked.  InspectorChain       *)
(* implements it with goroutines and a channel.                              *)
EXTENDS FiniteSets

CONSTANTS Inspectors, None

VARIABLES
    phase,          \* "idle", "screening", "answered" or "crashed"
    heard,          \* heard[i]: inspector i's verdict, None until it has one
    answer          \* the inspector whose block is reported, or None

screeningVars == <<phase, heard, answer>>

Verdict == {"pass", "block", "error"}

ScreeningInit ==
    /\ phase = "idle"
    /\ heard = [i \in Inspectors |-> None]
    /\ answer = None

Ask ==
    /\ phase \in {"idle", "answered"}
    /\ phase' = "screening"
    /\ heard' = [i \in Inspectors |-> None]
    /\ answer' = None

Hear(i) ==
    /\ phase = "screening"
    /\ heard[i] = None
    /\ \E v \in Verdict : heard' = [heard EXCEPT ![i] = v]
    /\ UNCHANGED <<phase, answer>>

Blockers == {i \in Inspectors : heard[i] = "block"}

(* An error counts as a pass: screening fails open. *)
Answer ==
    /\ phase = "screening"
    /\ \A i \in Inspectors : heard[i] # None
    /\ phase' = "answered"
    /\ \/ Blockers = {} /\ answer' = None
       \/ answer' \in Blockers
    /\ UNCHANGED heard

(* A panic in an inspector takes the process with it. *)
Crash ==
    /\ phase = "screening"
    /\ phase' = "crashed"
    /\ UNCHANGED <<heard, answer>>

ScreeningNext ==
    \/ Ask \/ Answer \/ Crash
    \/ \E i \in Inspectors : Hear(i)

ScreeningSpec == ScreeningInit /\ [][ScreeningNext]_screeningVars
=============================================================================
