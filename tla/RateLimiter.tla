---------------------------- MODULE RateLimiter ----------------------------
(* ratelimit.Limiter and the cleanup goroutine main starts for it: one fixed *)
(* window per key, opened by the first request that finds none or an expired *)
(* one.  Allow and Cleanup run under Limiter.mu, so each is one step; which  *)
(* comes first when a window expires is up to the scheduler and the clock.   *)
EXTENDS Integers, FiniteSets

CONSTANTS
    Keys,       \* the emails requests are counted under
    Limit,      \* Limiter.limit
    Window,     \* Limiter.window, in ticks
    None        \* no entry

(* main builds a limiter only for a positive RATE_LIMIT, and time.NewTicker  *)
(* panics unless the window is positive.                                     *)
ASSUME LimiterAssumption ==
    /\ Limit \in Nat \ {0}
    /\ Window \in Nat \ {0}

VARIABLES
    windows,    \* windows[k]: the entry for k, with the age of its windowStart
    nextTick,   \* ticks until the cleanup ticker fires
    due,        \* whether a tick waits in the ticker's channel
    admitted    \* history: admitted[k]: the requests of k let through lately

vars == <<windows, nextTick, due, admitted>>

(* Ages matter up to the first one past the window, counts up to the first   *)
(* one past the limit: the code only compares them with window and limit.    *)
Expired == Window + 1
OverLimit == Limit + 1

Entry == [age : 0..Expired, count : 1..OverLimit]

ASSUME NoneAssumption == None \notin Entry

(* The nth request of its key let through in one tick, and its age. *)
Admission == [age : 0..Window, nth : 1..Limit]

Init ==
    /\ windows = [k \in Keys |-> None]
    /\ nextTick = Window
    /\ due = FALSE
    /\ admitted = [k \in Keys |-> {}]

-----------------------------------------------------------------------------
HasWindow(k) == windows[k] # None /\ windows[k].age <= Window

(* The answer Allow would give k now. *)
WouldAllow(k) == ~HasWindow(k) \/ windows[k].count < Limit

(* The requests of k let through in the last age ticks. *)
Within(k, age) == {a \in admitted[k] : a.age <= age}

Since(k, age) == Cardinality(Within(k, age))

Admit(k) ==
    admitted' = [admitted EXCEPT ![k] = @ \union {[age |-> 0, nth |-> Since(k, 0) + 1]}]

(* Mutant: the request that opens the window is not counted. *)
AllowFirstUncounted(k) ==
    /\ ~HasWindow(k)
    /\ windows' = [windows EXCEPT ![k] = [age |-> 0, count |-> 0]]
    /\ Admit(k)
    /\ UNCHANGED <<nextTick, due>>

(* Allow without a current window: open one and let the request through. *)
AllowFirst(k) ==
    /\ ~HasWindow(k)
    /\ windows' = [windows EXCEPT ![k] = [age |-> 0, count |-> 1]]
    /\ Admit(k)
    /\ UNCHANGED <<nextTick, due>>

(* Mutant: the limit is compared with the count before this request. *)
AllowCountedLate(k) ==
    /\ HasWindow(k)
    /\ LET count == windows[k].count IN
        /\ windows' = [windows EXCEPT ![k].count = IF count < OverLimit THEN count + 1 ELSE OverLimit]
        /\ IF count <= Limit THEN Admit(k) ELSE UNCHANGED admitted
    /\ UNCHANGED <<nextTick, due>>

(* Mutant: a sliding window, which every refused request restarts. *)
AllowCountedSliding(k) ==
    /\ HasWindow(k)
    /\ LET count == windows[k].count + 1 IN
        IF count <= Limit
        THEN windows' = [windows EXCEPT ![k].count = count] /\ Admit(k)
        ELSE windows' = [windows EXCEPT ![k] = [age |-> 0, count |-> OverLimit]] /\ UNCHANGED admitted
    /\ UNCHANGED <<nextTick, due>>

(* Allow within a window: count the request, and let it through up to the    *)
(* limit.  A refused request is counted too, but does not move the window.   *)
AllowCounted(k) ==
    /\ HasWindow(k)
    /\ LET count == windows[k].count + 1 IN
        /\ windows' = [windows EXCEPT ![k].count = IF count < OverLimit THEN count ELSE OverLimit]
        /\ IF count <= Limit THEN Admit(k) ELSE UNCHANGED admitted
    /\ UNCHANGED <<nextTick, due>>

Allow(k) == AllowFirst(k) \/ AllowCounted(k)

(* Mutant: the tick clears the whole map. *)
CleanupOfAll ==
    /\ due
    /\ due' = FALSE
    /\ windows' = [k \in Keys |-> None]
    /\ UNCHANGED <<nextTick, admitted>>

(* Mutant: an entry is deleted at the window's age already. *)
CleanupAtWindow ==
    /\ due
    /\ due' = FALSE
    /\ windows' = [k \in Keys |-> IF HasWindow(k) /\ windows[k].age < Window
                                 THEN windows[k] ELSE None]
    /\ UNCHANGED <<nextTick, admitted>>

(* Mutant: entries over the limit are kept. *)
CleanupOfServed ==
    /\ due
    /\ due' = FALSE
    /\ windows' = [k \in Keys |->
                     IF HasWindow(k) \/ (windows[k] # None /\ windows[k].count > Limit)
                     THEN windows[k] ELSE None]
    /\ UNCHANGED <<nextTick, admitted>>

(* The cleanup goroutine receives a tick and deletes the expired entries. *)
Cleanup ==
    /\ due
    /\ due' = FALSE
    /\ windows' = [k \in Keys |-> IF HasWindow(k) THEN windows[k] ELSE None]
    /\ UNCHANGED <<nextTick, admitted>>

(* The clock: entries age, and the ticker fires every Window ticks. *)
Older(entry) ==
    [entry EXCEPT !.age = IF entry.age < Expired THEN entry.age + 1 ELSE Expired]

(* The admissions a tick later; what is past the window is forgotten. *)
Aged(a) == [a EXCEPT !.age = @ + 1]

Later(S) == {Aged(a) : a \in {b \in S : b.age < Window}}

Tick ==
    /\ windows' = [k \in Keys |-> IF windows[k] = None THEN None ELSE Older(windows[k])]
    /\ nextTick' = IF nextTick = 1 THEN Window ELSE nextTick - 1
    /\ due' = (due \/ nextTick = 1)
    /\ admitted' = [k \in Keys |-> Later(admitted[k])]

Next ==
    \/ \E k \in Keys : Allow(k)
    \/ Cleanup
    \/ Tick

Spec == Init /\ [][Next]_vars /\ WF_vars(Tick) /\ WF_vars(Cleanup)

-----------------------------------------------------------------------------
TypeOK ==
    /\ windows \in [Keys -> Entry \union {None}]
    /\ nextTick \in 1..Window
    /\ due \in BOOLEAN
    /\ admitted \in [Keys -> SUBSET Admission]

(* No more than the limit is let through in one window: the requests         *)
(* admitted since the window opened are those its count shows, up to the     *)
(* limit, whenever cleanup ran (ratelimit.go:29-41).                         *)
WindowLimit ==
    \A k \in Keys : HasWindow(k) =>
        Since(k, windows[k].age) =
            IF windows[k].count <= Limit THEN windows[k].count ELSE Limit

(* docs/adr/011-rate-limiting.md: a burst at a window boundary is at most    *)
(* twice the limit, in any span of one window's length (ratelimit.go:29-41). *)
BurstLimit == \A k \in Keys : Since(k, Window) <= 2 * Limit

(* Cleanup is invisible to the callers: it never changes what Allow would    *)
(* answer, however late or early it comes (ratelimit.go:43-52).              *)
CleanupInvisible == [][Cleanup => \A k \in Keys : WouldAllow(k)' = WouldAllow(k)]_vars

(* A client that keeps sending while it is refused is let through again: its *)
(* refused requests do not keep the window open (ratelimit.go:36-40).        *)
RefusedIsReadmitted == \A k \in Keys : []<>WouldAllow(k)

(* The map does not keep an expired entry for ever: it is deleted or         *)
(* replaced (ratelimit.go:43-52, main.go:97-103).                            *)
ExpiredIsRemoved ==
    \A k \in Keys : (windows[k] # None /\ ~HasWindow(k)) ~> (windows[k] = None \/ HasWindow(k))
=============================================================================
