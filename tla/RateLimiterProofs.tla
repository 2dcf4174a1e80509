------------------------- MODULE RateLimiterProofs --------------------------
(* Proofs about RateLimiter, for any keys, limit and window: what one window *)
(* and one span of a window's length let through, and that cleanup is        *)
(* invisible.                                                                *)
EXTENDS RateLimiter, FiniteSetTheorems, TLAPS

(* Requests let through in this tick are numbered in order. *)
NumberedNow(k) == \A a \in admitted[k] : a.age = 0 => a.nth <= Since(k, 0)

(* What the window's count says was let through since it was opened. *)
CountedWindow(k) ==
    HasWindow(k) =>
        Since(k, windows[k].age) = IF windows[k].count <= Limit THEN windows[k].count ELSE Limit

(* What came before the current window came within an earlier one. *)
Before(k) == admitted[k] \ Within(k, windows[k].age)

BoundedBefore(k) == HasWindow(k) => Cardinality(Before(k)) <= Limit

(* Without a current window, what is left came within the last one, and none *)
(* of it in this tick.                                                       *)
BoundedRest(k) ==
    ~HasWindow(k) => /\ Cardinality(admitted[k]) <= Limit
                     /\ \A a \in admitted[k] : a.age # 0

(* The inductive invariant. *)
KeyInv(k) ==
    /\ NumberedNow(k)
    /\ CountedWindow(k)
    /\ BoundedBefore(k)
    /\ BoundedRest(k)

IInv == TypeOK /\ \A k \in Keys : KeyInv(k)

-----------------------------------------------------------------------------
LEMMA AdmissionFinite == IsFiniteSet(Admission)
<1>. USE LimiterAssumption
<1>. DEFINE pairs == (0..Window) \X (1..Limit)
            f == [p \in pairs |-> [age |-> p[1], nth |-> p[2]]]
<1>1. IsFiniteSet(pairs)
  <2>1. IsFiniteSet(0..Window) /\ IsFiniteSet(1..Limit)
    BY FS_Interval
  <2>. QED BY <2>1, FS_Product
<1>2. f \in Surjection(pairs, Admission)
  <2>1. f \in [pairs -> Admission]
    BY DEF Admission
  <2>2. ASSUME NEW a \in Admission PROVE \E p \in pairs : f[p] = a
    <3>1. <<a.age, a.nth>> \in pairs /\ a = [age |-> a.age, nth |-> a.nth]
      BY DEF Admission
    <3>. QED BY <3>1
  <2>. QED BY <2>1, <2>2 DEF Surjection
<1>. QED BY <1>1, <1>2, FS_Surjection

LEMMA FiniteCounts ==
    ASSUME NEW S \in SUBSET Admission
    PROVE  IsFiniteSet(S) /\ Cardinality(S) \in Nat
BY AdmissionFinite, FS_Subset, FS_CardinalityType

LEMMA SmallerCounts ==
    ASSUME NEW S \in SUBSET Admission, NEW T \in SUBSET S
    PROVE  Cardinality(T) <= Cardinality(S)
BY FiniteCounts, FS_Subset

(* A tick changes no count of what is still remembered. *)
LEMMA LaterCounts ==
    ASSUME NEW S \in SUBSET Admission
    PROVE  /\ Later(S) \in SUBSET Admission
           /\ Cardinality(Later(S)) <= Cardinality(S)
           /\ (\A a \in S : a.age < Window) => Cardinality(Later(S)) = Cardinality(S)
<1>. USE LimiterAssumption
<1>. DEFINE R == {b \in S : b.age < Window}
            f == [b \in R |-> Aged(b)]
<1>1. \A b \in R : Aged(b) = [age |-> b.age + 1, nth |-> b.nth] /\ b = [age |-> b.age, nth |-> b.nth]
  BY DEF Aged, Admission
<1>2. \A b \in R : Aged(b) \in Admission /\ Aged(b).age = b.age + 1 /\ Aged(b).nth = b.nth
  BY <1>1 DEF Admission
<1>3. f \in Bijection(R, Later(S))
  <2>1. f \in [R -> Later(S)] /\ \A t \in Later(S) : \E b \in R : f[b] = t
    BY DEF Later
  <2>2. ASSUME NEW b \in R, NEW c \in R, f[b] = f[c] PROVE b = c
    <3>1. b.age + 1 = c.age + 1 /\ b.nth = c.nth
      BY <1>2, <2>2
    <3>2. b.age \in Int /\ c.age \in Int
      BY DEF Admission
    <3>3. b.age = c.age
      BY <3>1, <3>2
    <3>. QED BY <1>1, <3>1, <3>3
  <2>. QED BY <2>1, <2>2 DEF Bijection, Injection, Surjection, IsInjective
<1>4. IsFiniteSet(R) /\ Cardinality(R) <= Cardinality(S)
  BY FiniteCounts, SmallerCounts
<1>5. Cardinality(Later(S)) = Cardinality(R)
  BY <1>3, <1>4, FS_Bijection DEF ExistsBijection
<1>6. Later(S) \in SUBSET Admission
  BY <1>2 DEF Later
<1>7. (\A a \in S : a.age < Window) => R = S
  OBVIOUS
<1>. QED BY <1>4, <1>5, <1>6, <1>7

(* The part of what is remembered a tick later that a bound on the age picks.*)
LEMMA LaterSplits ==
    ASSUME NEW S \in SUBSET Admission, NEW age \in Int
    PROVE  /\ {a \in Later(S) : a.age <= age + 1} = Later({a \in S : a.age <= age})
           /\ Later(S) \ {a \in Later(S) : a.age <= age + 1} = Later(S \ {a \in S : a.age <= age})
           /\ \A a \in Later(S) : a.age # 0
<1>1. \A b \in S : Aged(b).age = b.age + 1 /\ b.age \in Nat
  BY DEF Aged, Admission
<1>2. \A b \in S : Aged(b).age <= age + 1 <=> b.age <= age
  BY <1>1
<1>. QED BY <1>1, <1>2 DEF Later

-----------------------------------------------------------------------------
LEMMA InitiallyIInv == Init => IInv
<1>. SUFFICES ASSUME Init PROVE IInv
  OBVIOUS
<1>1. TypeOK
  <2>1. windows \in [Keys -> Entry \union {None}]
    BY DEF Init
  <2>2. nextTick \in 1..Window
    BY LimiterAssumption DEF Init
  <2>3. due \in BOOLEAN /\ admitted \in [Keys -> SUBSET Admission]
    BY DEF Init
  <2>. QED BY <2>1, <2>2, <2>3 DEF TypeOK
<1>2. ASSUME NEW k \in Keys PROVE KeyInv(k)
  <2>1. ~HasWindow(k) /\ admitted[k] = {}
    BY DEF Init, HasWindow
  <2>. QED
    BY <2>1, FS_EmptySet, LimiterAssumption
    DEF KeyInv, NumberedNow, CountedWindow, BoundedBefore, BoundedRest
<1>. QED BY <1>1, <1>2 DEF IInv

LEMMA KeyKept ==
    ASSUME NEW k \in Keys, KeyInv(k), windows'[k] = windows[k], admitted'[k] = admitted[k]
    PROVE  KeyInv(k)'
BY DEF KeyInv, NumberedNow, CountedWindow, BoundedBefore, BoundedRest, Before, HasWindow,
       Since, Within

(* One more request of k is let through. *)
LEMMA AdmitCounts ==
    ASSUME TypeOK, NEW k \in Keys, NumberedNow(k), Admit(k), Since(k, 0) < Limit
    PROVE  /\ admitted' \in [Keys -> SUBSET Admission]
           /\ \A j \in Keys : j # k => admitted'[j] = admitted[j]
           /\ \A age \in Nat :
                /\ Since(k, age)' = Since(k, age) + 1
                /\ admitted'[k] \ {a \in admitted'[k] : a.age <= age} =
                     admitted[k] \ {a \in admitted[k] : a.age <= age}
           /\ NumberedNow(k)'
<1>. USE LimiterAssumption
<1>. DEFINE new == [age |-> 0, nth |-> Since(k, 0) + 1]
<1>1. admitted[k] \in SUBSET Admission /\ Since(k, 0) \in Nat
  BY FiniteCounts DEF TypeOK, Since, Within
<1>2. new \in Admission /\ new.age = 0 /\ new.nth = Since(k, 0) + 1
  BY <1>1 DEF Admission
<1>3. admitted'[k] = admitted[k] \union {new}
      /\ \A j \in Keys : j # k => admitted'[j] = admitted[j]
  BY DEF Admit, TypeOK
<1>4. admitted' \in [Keys -> SUBSET Admission]
  BY <1>1, <1>2 DEF Admit, TypeOK
<1>5. new \notin admitted[k]
  BY <1>1, <1>2 DEF NumberedNow
<1>6. ASSUME NEW age \in Nat
      PROVE  /\ Since(k, age)' = Since(k, age) + 1
             /\ admitted'[k] \ {a \in admitted'[k] : a.age <= age} =
                  admitted[k] \ {a \in admitted[k] : a.age <= age}
  <2>1. {a \in admitted'[k] : a.age <= age} = Within(k, age) \union {new}
    BY <1>2, <1>3 DEF Within
  <2>2. Within(k, age) \in SUBSET Admission /\ new \notin Within(k, age)
    BY <1>1, <1>5 DEF Within
  <2>3. Cardinality(Within(k, age) \union {new}) = Cardinality(Within(k, age)) + 1
    BY <2>2, FiniteCounts, FS_AddElement
  <2>4. Since(k, age)' = Since(k, age) + 1
    BY <2>1, <2>3 DEF Since, Within
  <2>. QED BY <1>2, <1>3, <2>4
<1>7. NumberedNow(k)'
  <2>1. Since(k, 0)' = Since(k, 0) + 1
    BY <1>6
  <2>2. ASSUME NEW a \in admitted'[k], a.age = 0 PROVE a.nth <= Since(k, 0) + 1
    <3>1. a \in Admission
      BY <1>1, <1>2, <1>3
    <3>2. CASE a = new
      BY <1>1, <1>2, <3>2
    <3>3. CASE a \in admitted[k]
      BY <1>1, <2>2, <3>1, <3>3 DEF NumberedNow, Admission
    <3>. QED BY <1>3, <3>2, <3>3
  <2>. QED BY <2>1, <2>2 DEF NumberedNow
<1>. QED BY <1>3, <1>4, <1>6, <1>7

LEMMA EntryType ==
    ASSUME TypeOK, NEW k \in Keys, HasWindow(k)
    PROVE  /\ windows[k] \in Entry
           /\ windows[k].age \in 0..Window
           /\ windows[k].count \in 1..OverLimit
BY LimiterAssumption DEF TypeOK, HasWindow, Entry, Expired

LEMMA FirstKeepsIInv ==
    ASSUME IInv, NEW k \in Keys, AllowFirst(k) PROVE IInv'
<1>. USE LimiterAssumption
<1>. DEFINE entry == [age |-> 0, count |-> 1]
<1>1. /\ ~HasWindow(k) /\ Admit(k) /\ TypeOK /\ KeyInv(k)
      /\ windows' = [windows EXCEPT ![k] = entry]
      /\ UNCHANGED <<nextTick, due>>
  BY DEF AllowFirst, IInv
<1>2. Since(k, 0) = 0
  <2>1. \A a \in admitted[k] : a \in Admission /\ a.age # 0
    BY <1>1 DEF TypeOK, KeyInv, BoundedRest
  <2>2. Within(k, 0) = {}
    BY <2>1 DEF Within, Admission
  <2>. QED BY <2>2, FS_EmptySet DEF Since
<1>3. /\ admitted' \in [Keys -> SUBSET Admission]
      /\ \A j \in Keys : j # k => admitted'[j] = admitted[j]
      /\ Since(k, 0)' = 1
      /\ admitted'[k] \ {a \in admitted'[k] : a.age <= 0} =
           admitted[k] \ {a \in admitted[k] : a.age <= 0}
      /\ NumberedNow(k)'
  BY <1>1, <1>2, AdmitCounts DEF KeyInv
<1>4. entry \in Entry /\ entry # None /\ entry.age = 0 /\ entry.count = 1
  BY NoneAssumption DEF Entry, Expired, OverLimit
<1>5. windows' \in [Keys -> Entry \union {None}] /\ windows'[k] = entry
      /\ \A j \in Keys : j # k => windows'[j] = windows[j]
  BY <1>1, <1>4 DEF TypeOK
<1>6. TypeOK'
  BY <1>1, <1>3, <1>5 DEF TypeOK
<1>7. CountedWindow(k)'
  BY <1>3, <1>4, <1>5 DEF CountedWindow
<1>8. BoundedBefore(k)'
  <2>1. Cardinality(admitted[k] \ {a \in admitted[k] : a.age <= 0}) <= Cardinality(admitted[k])
    BY <1>1, SmallerCounts DEF TypeOK
  <2>2. Cardinality(admitted[k]) <= Limit
    BY <1>1 DEF KeyInv, BoundedRest
  <2>3. Cardinality(admitted[k] \ {a \in admitted[k] : a.age <= 0}) \in Nat
        /\ Cardinality(admitted[k]) \in Nat
    BY <1>1, FiniteCounts DEF TypeOK
  <2>4. Before(k)' = admitted[k] \ {a \in admitted[k] : a.age <= 0}
    BY <1>3, <1>4, <1>5 DEF Before, Within
  <2>. QED BY <2>1, <2>2, <2>3, <2>4 DEF BoundedBefore
<1>9. BoundedRest(k)'
  BY <1>4, <1>5 DEF BoundedRest, HasWindow
<1>10. \A j \in Keys : KeyInv(j)'
  BY <1>3, <1>5, <1>7, <1>8, <1>9, KeyKept DEF IInv, KeyInv
<1>. QED BY <1>6, <1>10 DEF IInv

LEMMA CountedKeepsIInv ==
    ASSUME IInv, NEW k \in Keys, AllowCounted(k) PROVE IInv'
<1>. USE LimiterAssumption
<1>. DEFINE w == windows[k]
            count == w.count + 1
            newCount == IF count < OverLimit THEN count ELSE OverLimit
<1>1. /\ HasWindow(k) /\ TypeOK /\ KeyInv(k)
      /\ windows' = [windows EXCEPT ![k].count = newCount]
      /\ IF count <= Limit THEN Admit(k) ELSE UNCHANGED admitted
      /\ UNCHANGED <<nextTick, due>>
  BY DEF AllowCounted, IInv
<1>2. w \in Entry /\ w.age \in 0..Window /\ w.count \in 1..OverLimit
  BY <1>1, EntryType
<1>3. newCount \in 1..OverLimit
  BY <1>2 DEF OverLimit
<1>4. /\ windows'[k] \in Entry /\ windows'[k].age = w.age /\ windows'[k].count = newCount
      /\ \A j \in Keys : j # k => windows'[j] = windows[j]
      /\ windows' \in [Keys -> Entry \union {None}]
  <2>1. windows'[k] = [w EXCEPT !.count = newCount]
        /\ \A j \in Keys : j # k => windows'[j] = windows[j]
    BY <1>1 DEF TypeOK
  <2>2. [w EXCEPT !.count = newCount] \in Entry
    BY <1>2, <1>3 DEF Entry
  <2>3. [w EXCEPT !.count = newCount].age = w.age /\ [w EXCEPT !.count = newCount].count = newCount
    BY <1>2 DEF Entry
  <2>4. windows' \in [Keys -> Entry \union {None}]
    BY <1>1, <2>2 DEF TypeOK
  <2>. QED BY <2>1, <2>2, <2>3, <2>4
<1>5. HasWindow(k)'
  BY <1>2, <1>4, NoneAssumption DEF HasWindow
<1>6. Since(k, w.age) = IF w.count <= Limit THEN w.count ELSE Limit
  BY <1>1 DEF KeyInv, CountedWindow
<1>7. CASE count <= Limit
  <2>1. Since(k, 0) < Limit
    <3>1. Within(k, w.age) \in SUBSET Admission /\ Within(k, 0) \in SUBSET Within(k, w.age)
      BY <1>1, <1>2 DEF Within, TypeOK, Admission
    <3>2. Since(k, 0) <= Since(k, w.age) /\ Since(k, 0) \in Nat
      BY <3>1, SmallerCounts, FiniteCounts DEF Since
    <3>. QED BY <1>2, <1>6, <1>7, <3>2
  <2>2. /\ admitted' \in [Keys -> SUBSET Admission]
        /\ \A j \in Keys : j # k => admitted'[j] = admitted[j]
        /\ \A age \in Nat :
             /\ Since(k, age)' = Since(k, age) + 1
             /\ admitted'[k] \ {a \in admitted'[k] : a.age <= age} =
                  admitted[k] \ {a \in admitted[k] : a.age <= age}
        /\ NumberedNow(k)'
    BY <1>1, <1>7, <2>1, AdmitCounts DEF KeyInv
  <2>3. TypeOK'
    BY <1>1, <1>4, <2>2 DEF TypeOK
  <2>4. CountedWindow(k)'
    <3>1. newCount = w.count + 1 /\ newCount <= Limit
      BY <1>2, <1>7 DEF OverLimit
    <3>2. Cardinality({a \in admitted'[k] : a.age <= w.age}) = Cardinality(Within(k, w.age)) + 1
      BY <1>2, <2>2 DEF Since, Within
    <3>3. Since(k, windows[k].age)' = newCount
      BY <1>2, <1>4, <1>6, <3>1, <3>2 DEF Since, Within
    <3>. QED BY <1>4, <3>1, <3>3 DEF CountedWindow
  <2>5. BoundedBefore(k)'
    <3>1. Before(k)' = Before(k)
      BY <1>2, <1>4, <2>2 DEF Before, Within
    <3>. QED BY <1>1, <3>1 DEF KeyInv, BoundedBefore
  <2>6. BoundedRest(k)'
    BY <1>5 DEF BoundedRest
  <2>7. \A j \in Keys : KeyInv(j)'
    BY <1>4, <2>2, <2>4, <2>5, <2>6, KeyKept DEF IInv, KeyInv
  <2>. QED BY <2>3, <2>7 DEF IInv
<1>8. CASE ~(count <= Limit)
  <2>1. admitted' = admitted
    BY <1>1, <1>8
  <2>2. TypeOK'
    BY <1>1, <1>4, <2>1 DEF TypeOK
  <2>3. NumberedNow(k)'
    BY <1>1, <2>1 DEF KeyInv, NumberedNow, Since, Within
  <2>4. CountedWindow(k)'
    <3>1. (IF newCount <= Limit THEN newCount ELSE Limit) = IF w.count <= Limit THEN w.count ELSE Limit
      BY <1>2, <1>8 DEF OverLimit
    <3>2. Since(k, windows[k].age)' = Since(k, w.age)
      BY <1>4, <2>1 DEF Since, Within
    <3>. QED BY <1>4, <1>6, <3>1, <3>2 DEF CountedWindow
  <2>5. BoundedBefore(k)'
    <3>1. Before(k)' = Before(k)
      BY <1>4, <2>1 DEF Before, Within
    <3>. QED BY <1>1, <3>1 DEF KeyInv, BoundedBefore
  <2>6. BoundedRest(k)'
    BY <1>5 DEF BoundedRest
  <2>7. \A j \in Keys : KeyInv(j)'
    BY <1>4, <2>1, <2>3, <2>4, <2>5, <2>6, KeyKept DEF IInv, KeyInv
  <2>. QED BY <2>2, <2>7 DEF IInv
<1>. QED BY <1>7, <1>8

-----------------------------------------------------------------------------
(* A cleanup takes no current window. *)
LEMMA CleanupKeepsWindows ==
    ASSUME TypeOK, Cleanup
    PROVE  /\ windows' \in [Keys -> Entry \union {None}]
           /\ \A k \in Keys : HasWindow(k)' <=> HasWindow(k)
           /\ \A k \in Keys : HasWindow(k) => windows'[k] = windows[k]
<1>1. windows' = [k \in Keys |-> IF HasWindow(k) THEN windows[k] ELSE None]
  BY DEF Cleanup
<1>2. windows' \in [Keys -> Entry \union {None}]
  BY <1>1 DEF TypeOK
<1>3. \A k \in Keys : HasWindow(k) => windows'[k] = windows[k]
  BY <1>1
<1>4. \A k \in Keys : ~HasWindow(k) => windows'[k] = None
  BY <1>1
<1>. QED BY <1>2, <1>3, <1>4 DEF HasWindow

LEMMA CleanupKeepsIInv ==
    ASSUME IInv, Cleanup PROVE IInv'
<1>1. TypeOK /\ admitted' = admitted /\ nextTick' = nextTick /\ due' = FALSE
  BY DEF IInv, Cleanup
<1>2. TypeOK'
  BY <1>1, CleanupKeepsWindows DEF TypeOK
<1>3. ASSUME NEW k \in Keys PROVE KeyInv(k)'
  <2>1. CASE HasWindow(k)
    BY <1>1, <2>1, CleanupKeepsWindows, KeyKept DEF IInv
  <2>2. CASE ~HasWindow(k)
    <3>1. ~HasWindow(k)'
      BY <1>1, <2>2, CleanupKeepsWindows
    <3>. QED
      BY <1>1, <2>2, <3>1
      DEF IInv, KeyInv, NumberedNow, CountedWindow, BoundedBefore, BoundedRest, Since, Within
  <2>. QED BY <2>1, <2>2
<1>. QED BY <1>2, <1>3 DEF IInv

(* A tick moves what was let through with the window, and past its end       *)
(* leaves at most what that window let through.                              *)
LEMMA TickKeepsIInv ==
    ASSUME IInv, Tick PROVE IInv'
<1>. USE LimiterAssumption
<1>1. /\ TypeOK
      /\ windows' = [k \in Keys |-> IF windows[k] = None THEN None ELSE Older(windows[k])]
      /\ nextTick' = IF nextTick = 1 THEN Window ELSE nextTick - 1
      /\ due' = (due \/ nextTick = 1)
      /\ admitted' = [k \in Keys |-> Later(admitted[k])]
  BY DEF IInv, Tick
<1>2. ASSUME NEW e \in Entry
      PROVE  /\ Older(e) \in Entry /\ Older(e) # None
             /\ Older(e).age = IF e.age < Expired THEN e.age + 1 ELSE Expired
             /\ Older(e).count = e.count
  <2>1. Older(e) = [age |-> IF e.age < Expired THEN e.age + 1 ELSE Expired, count |-> e.count]
    BY DEF Older, Entry
  <2>2. Older(e) \in Entry
    BY <2>1 DEF Entry, Expired
  <2>. QED BY <2>1, <2>2, NoneAssumption
<1>3. TypeOK'
  <2>1. windows' \in [Keys -> Entry \union {None}]
    BY <1>1, <1>2 DEF TypeOK
  <2>2. nextTick' \in 1..Window
    BY <1>1 DEF TypeOK
  <2>3. due' \in BOOLEAN
    BY <1>1 DEF TypeOK
  <2>4. admitted' \in [Keys -> SUBSET Admission]
    BY <1>1, LaterCounts DEF TypeOK
  <2>. QED BY <2>1, <2>2, <2>3, <2>4 DEF TypeOK
<1>4. ASSUME NEW k \in Keys PROVE KeyInv(k)'
  <2>. DEFINE A == admitted[k]
              w == windows[k]
  <2>1. A \in SUBSET Admission /\ admitted'[k] = Later(A) /\ Cardinality(A) \in Nat
    BY <1>1, FiniteCounts DEF TypeOK
  <2>2. Later(A) \in SUBSET Admission /\ Cardinality(Later(A)) <= Cardinality(A)
        /\ Cardinality(Later(A)) \in Nat
    BY <2>1, LaterCounts, FiniteCounts
  <2>3. \A a \in Later(A) : a.age # 0
    BY <2>1, LaterSplits
  <2>4. NumberedNow(k)'
    BY <2>1, <2>3 DEF NumberedNow
  <2>5. CASE HasWindow(k)'
    <3>1. /\ HasWindow(k) /\ w \in Entry /\ w.age \in 0..(Window - 1)
          /\ windows'[k].age = w.age + 1 /\ windows'[k].count = w.count
      <4>1. w # None
        BY <1>1, <2>5 DEF HasWindow
      <4>2. w \in Entry /\ windows'[k] = Older(w)
        BY <1>1, <4>1 DEF TypeOK
      <4>3. Older(w).age <= Window
        BY <2>5, <4>2 DEF HasWindow
      <4>4. w.age \in 0..Expired
        BY <4>2 DEF Entry
      <4>5. w.age \in 0..(Window - 1) /\ Older(w).age = w.age + 1
        BY <1>2, <4>2, <4>3, <4>4 DEF Expired
      <4>. QED BY <1>2, <4>1, <4>2, <4>5 DEF HasWindow
    <3>2. {a \in Later(A) : a.age <= w.age + 1} = Later(Within(k, w.age))
          /\ Later(A) \ {a \in Later(A) : a.age <= w.age + 1} = Later(Before(k))
      BY <2>1, <3>1, LaterSplits DEF Within, Before
    <3>3. CountedWindow(k)'
      <4>1. Within(k, w.age) \in SUBSET Admission /\ \A a \in Within(k, w.age) : a.age < Window
        BY <2>1, <3>1 DEF Within, Admission
      <4>2. Cardinality(Later(Within(k, w.age))) = Cardinality(Within(k, w.age))
        BY <4>1, LaterCounts
      <4>3. Since(k, windows[k].age)' = Since(k, w.age)
        BY <2>1, <3>1, <3>2, <4>2 DEF Since, Within
      <4>. QED BY <3>1, <4>3 DEF IInv, KeyInv, CountedWindow
    <3>4. BoundedBefore(k)'
      <4>1. Before(k) \in SUBSET Admission
        BY <2>1 DEF Before
      <4>2. Cardinality(Later(Before(k))) <= Cardinality(Before(k))
            /\ Cardinality(Later(Before(k))) \in Nat /\ Cardinality(Before(k)) \in Nat
        BY <4>1, LaterCounts, FiniteCounts
      <4>3. Before(k)' = Later(Before(k))
        BY <2>1, <3>1, <3>2 DEF Before, Within
      <4>. QED BY <3>1, <4>2, <4>3 DEF IInv, KeyInv, BoundedBefore
    <3>. QED BY <2>4, <2>5, <3>3, <3>4 DEF KeyInv, BoundedRest
  <2>6. CASE ~HasWindow(k)'
    <3>1. Cardinality(A) <= Limit
      <4>1. CASE ~HasWindow(k)
        BY <4>1 DEF IInv, KeyInv, BoundedRest
      <4>2. CASE HasWindow(k)
        <5>1. w \in Entry /\ w # None /\ w.age \in 0..Window /\ w.count \in 1..OverLimit
          BY <1>1, <4>2, EntryType DEF HasWindow
        <5>2. w.age = Window
          <6>1. windows'[k] = Older(w) /\ Older(w) # None
            BY <1>1, <1>2, <5>1
          <6>2. ~(Older(w).age <= Window)
            BY <2>6, <6>1 DEF HasWindow
          <6>. QED BY <1>2, <5>1, <6>2 DEF Expired
        <5>3. Within(k, w.age) = A
          BY <2>1, <5>2 DEF Within, Admission
        <5>4. Cardinality(A) = IF w.count <= Limit THEN w.count ELSE Limit
          BY <4>2, <5>3 DEF IInv, KeyInv, CountedWindow, Since
        <5>. QED BY <5>1, <5>4
      <4>. QED BY <4>1, <4>2
    <3>2. Cardinality(Later(A)) <= Limit
      BY <2>1, <2>2, <3>1
    <3>. QED BY <2>1, <2>3, <2>4, <2>6, <3>2 DEF KeyInv, CountedWindow, BoundedBefore, BoundedRest
  <2>. QED BY <2>5, <2>6
<1>. QED BY <1>3, <1>4 DEF IInv

LEMMA StepKeepsIInv == IInv /\ [Next]_vars => IInv'
<1>. SUFFICES ASSUME IInv, [Next]_vars PROVE IInv'
  OBVIOUS
<1>1. CASE UNCHANGED vars
  <2>1. TypeOK'
    BY <1>1 DEF vars, IInv, TypeOK
  <2>. QED BY <1>1, <2>1, KeyKept DEF vars, IInv
<1>. QED
  BY <1>1, FirstKeepsIInv, CountedKeepsIInv, CleanupKeepsIInv, TickKeepsIInv DEF Next, Allow

LEMMA Invariant == Spec => []IInv
BY InitiallyIInv, StepKeepsIInv, PTL DEF Spec

-----------------------------------------------------------------------------
(* The type invariant: the ages and counts that Allow compares stay in range,*)
(* and no tick lets more than the limit through for a key                    *)
(* (ratelimit.go:29-52).                                                     *)
THEOREM TypeCorrect == Spec => []TypeOK
BY Invariant, PTL DEF IInv

(* What was let through since a window opened is what its count shows, up to *)
(* the limit, for any keys, limit and window and wherever cleanup runs       *)
(* (ratelimit.go:29-41).                                                     *)
THEOREM WindowLetsLimitThrough == Spec => []WindowLimit
<1>1. IInv => WindowLimit
  BY DEF IInv, KeyInv, CountedWindow, WindowLimit
<1>. QED BY <1>1, Invariant, PTL

(* Any span of one window's length lets at most twice the limit through,     *)
(* however the fixed windows fall in it (ratelimit.go:29-41).                *)
THEOREM BurstIsTwiceTheLimit == Spec => []BurstLimit
<1>1. IInv => BurstLimit
  <2>. SUFFICES ASSUME IInv, NEW k \in Keys PROVE Since(k, Window) <= 2 * Limit
    BY DEF BurstLimit
  <2>. USE LimiterAssumption
  <2>1. admitted[k] \in SUBSET Admission
    BY DEF IInv, TypeOK
  <2>2. Within(k, Window) = admitted[k]
    BY <2>1 DEF Within, Admission
  <2>3. CASE HasWindow(k)
    <3>. DEFINE B == Before(k)
                C == Within(k, windows[k].age)
    <3>1. B \in SUBSET Admission /\ C \in SUBSET Admission /\ admitted[k] = B \union C /\ B \cap C = {}
      BY <2>1 DEF Before, Within
    <3>2. Cardinality(B \union C) = Cardinality(B) + Cardinality(C)
      <4>1. IsFiniteSet(B) /\ IsFiniteSet(C) /\ Cardinality(B) \in Nat /\ Cardinality(C) \in Nat
        BY <3>1, FiniteCounts
      <4>2. Cardinality(B \union C) = Cardinality(B) + Cardinality(C) - Cardinality(B \cap C)
        BY <4>1, FS_Union
      <4>3. Cardinality(B \cap C) = 0
        BY <3>1, FS_EmptySet
      <4>. QED BY <4>1, <4>2, <4>3
    <3>3. Cardinality(B) <= Limit /\ Cardinality(B) \in Nat
      BY <2>3, <3>1, FiniteCounts DEF IInv, KeyInv, BoundedBefore
    <3>4. Cardinality(C) <= Limit /\ Cardinality(C) \in Nat
      <4>1. windows[k].count \in 1..OverLimit
        BY <2>3, EntryType DEF IInv
      <4>. QED BY <2>3, <3>1, <4>1, FiniteCounts DEF IInv, KeyInv, CountedWindow, Since
    <3>. QED BY <2>2, <3>1, <3>2, <3>3, <3>4 DEF Since
  <2>4. CASE ~HasWindow(k)
    BY <2>1, <2>2, <2>4, FiniteCounts DEF IInv, KeyInv, BoundedRest, Since
  <2>. QED BY <2>3, <2>4
<1>. QED BY <1>1, Invariant, PTL

(* No cleanup changes what Allow would answer for any key                    *)
(* (ratelimit.go:43-52).                                                     *)
THEOREM CleanupIsInvisible == Spec => CleanupInvisible
<1>1. IInv /\ [Next]_vars => [Cleanup => \A k \in Keys : WouldAllow(k)' = WouldAllow(k)]_vars
  <2>. SUFFICES ASSUME IInv, Cleanup, NEW k \in Keys PROVE WouldAllow(k)' = WouldAllow(k)
    OBVIOUS
  <2>1. HasWindow(k)' <=> HasWindow(k)
    BY CleanupKeepsWindows DEF IInv
  <2>2. HasWindow(k) => windows'[k] = windows[k]
    BY CleanupKeepsWindows DEF IInv
  <2>. QED BY <2>1, <2>2 DEF WouldAllow
<1>. QED BY <1>1, Invariant, PTL DEF Spec, CleanupInvisible
=============================================================================
