------------------------- MODULE PolicyEngineProofs -------------------------
(* Proofs about PolicyEngine, for any requests, configurations and number of *)
(* edits: an evaluation sees one policy, and the policy in force advances.   *)
EXTENDS PolicyEngine, TLAPS

Policies == PoliciesOf(Source \union {"inline"})

(* A goroutine that asks for the write lock holds a policy of its source     *)
(* that compiles, was once its content and is not older than what the source *)
(* had in force.                                                             *)
HeldIsNew ==
    \A s \in Source : watcher[s] = "locking" =>
        \E v \in newest[s]..content[s].version :
            held[s] = Policy(s, [version |-> v, kind |-> "good"])

(* What was in force was once the source's content. *)
NewestWasThere == \A s \in Source : newest[s] <= content[s].version

(* The inductive invariant. *)
IInv ==
    /\ TypeOK
    /\ HeldIsNew
    /\ NewestWasThere
    /\ StableWhileEvaluating

-----------------------------------------------------------------------------
LEMMA PolicyTypes ==
    ASSUME NEW s \in Source, NEW c \in Content
    PROVE  /\ Policy(s, c) \in Policies
           /\ Policy(s, c) \in PoliciesOf(Source)
BY DEF Policies, PoliciesOf

LEMMA InlineType == Inline \in Policies
<1>1. [version |-> 0, kind |-> "good"] \in Content
  BY EngineAssumption DEF Content, Kind
<1>. QED BY <1>1 DEF Inline, Policies, PoliciesOf

LEMMA ContentTypes ==
    ASSUME NEW v \in 0..MaxEdits, NEW k \in Kind
    PROVE  [version |-> v, kind |-> k] \in Content
BY DEF Content

LEMMA InitiallyIInv == Init => IInv
<1>. SUFFICES ASSUME Init PROVE IInv
  OBVIOUS
<1>. USE EngineAssumption
<1>1. content \in [Source -> Content] /\ \A s \in Source : content[s].version = 0
  <2>1. {[version |-> 0, kind |-> k] : k \in {"good", "empty"}} \subseteq Content
    BY EngineAssumption DEF Content, Kind
  <2>2. content \in [Source -> {[version |-> 0, kind |-> k] : k \in {"good", "empty"}}]
    BY DEF Init
  <2>. QED BY <2>1, <2>2
<1>2. prepared \in Policies
  <2>1. First \in Source
    BY DEF First, Source
  <2>. QED BY <1>1, <2>1, InlineType, PolicyTypes DEF Init
<1>3. TypeOK
  BY <1>1, <1>2 DEF Init, TypeOK, Policies
<1>. QED BY <1>1, <1>3 DEF Init, IInv, HeldIsNew, NewestWasThere, StableWhileEvaluating

-----------------------------------------------------------------------------
(* The steps that leave the policies alone. *)
Quiet ==
    /\ UNCHANGED <<sources, content, prepared, held, evaluating, newest>>
    /\ \A s \in Source : watcher'[s] = "locking" => watcher[s] = "locking"

LEMMA QuietKeepsIInv ==
    ASSUME IInv, Quiet, TypeOK' PROVE IInv'
BY DEF IInv, Quiet, HeldIsNew, NewestWasThere, StableWhileEvaluating

LEMMA QuietSteps ==
    ASSUME IInv, NEW s \in Source, Start \/ Stop \/ Poll(s) \/ ReadInVain(s) \/ Return(s)
    PROVE  Quiet /\ TypeOK'
<1>. USE EngineAssumption
<1>1. CASE Start
  <2>1. lastModTime' \in 0..MaxEdits
    <3>1. content["file"].version \in 0..MaxEdits
      BY DEF IInv, TypeOK, Source, Content
    <3>. QED BY <1>1, <3>1 DEF Start
  <2>2. /\ watcher' \in [Source -> {"off", "waiting", "reading", "locking", "exited"}]
        /\ \A t \in Source : watcher'[t] # "locking"
    BY <1>1 DEF Start
  <2>3. Quiet
    BY <1>1, <2>2 DEF Start, Quiet
  <2>. QED BY <1>1, <2>1, <2>2, <2>3 DEF Start, IInv, TypeOK, Quiet
<1>2. CASE Stop
  <2>1. Quiet
    BY <1>2 DEF Stop, Quiet
  <2>. QED BY <1>2, <2>1 DEF Stop, IInv, TypeOK
<1>3. CASE Poll(s) \/ ReadInVain(s) \/ Return(s)
  <2>1. /\ UNCHANGED <<phase, sources, content, prepared, lastModTime, held, evaluating, newest>>
        /\ \E step \in {"reading", "waiting", "exited"} : watcher' = [watcher EXCEPT ![s] = step]
    BY <1>3 DEF Poll, ReadInVain, Return, Goto
  <2>2. /\ watcher' \in [Source -> {"off", "waiting", "reading", "locking", "exited"}]
        /\ \A t \in Source : watcher'[t] = "locking" => watcher[t] = "locking"
    BY <2>1 DEF IInv, TypeOK
  <2>. QED BY <2>1, <2>2 DEF IInv, TypeOK, Quiet
<1>. QED BY <1>1, <1>2, <1>3

(* An edit only makes a source's content newer. *)
LEMMA EditKeepsIInv ==
    ASSUME IInv, NEW s \in Source, Edit(s) PROVE IInv'
<1>. USE EngineAssumption
<1>1. PICK k \in Kind :
        content' = [content EXCEPT ![s] = [version |-> @.version + 1, kind |-> k]]
  BY DEF Edit
<1>2. content[s].version \in 0..MaxEdits /\ content[s].version < MaxEdits
  BY DEF Edit, IInv, TypeOK, Content
<1>3. [version |-> content[s].version + 1, kind |-> k] \in Content
  BY <1>2, ContentTypes
<1>4. /\ content' \in [Source -> Content]
      /\ content'[s].version = content[s].version + 1
      /\ \A t \in Source : t # s => content'[t] = content[t]
  BY <1>1, <1>3 DEF IInv, TypeOK
<1>5. UNCHANGED <<phase, sources, prepared, lastModTime, watcher, held, evaluating, newest>>
  BY DEF Edit
<1>6. NewestWasThere'
  BY <1>2, <1>4, <1>5 DEF IInv, TypeOK, NewestWasThere
<1>7. HeldIsNew'
  <2>1. ASSUME NEW t \in Source
        PROVE  newest[t]..content[t].version \subseteq newest'[t]..content'[t].version
    BY <1>2, <1>4, <1>5 DEF IInv, TypeOK, Content
  <2>. QED BY <1>5, <2>1 DEF IInv, HeldIsNew
<1>8. TypeOK'
  BY <1>4, <1>5 DEF IInv, TypeOK
<1>9. StableWhileEvaluating'
  BY <1>5 DEF IInv, StableWhileEvaluating
<1>. QED BY <1>6, <1>7, <1>8, <1>9 DEF IInv

(* What is read is the source's content. *)
LEMMA ReadKeepsIInv ==
    ASSUME IInv, NEW s \in Source, Read(s) PROVE IInv'
<1>. USE EngineAssumption
<1>1. /\ content[s].kind = "good"
      /\ held' = [held EXCEPT ![s] = Policy(s, content[s])]
      /\ watcher' = [watcher EXCEPT ![s] = "locking"]
      /\ UNCHANGED <<phase, sources, content, prepared, lastModTime, evaluating, newest>>
  BY DEF Read, Goto
<1>2. content[s] \in Content
  BY DEF IInv, TypeOK
<1>3. TypeOK'
  <2>1. Policy(s, content[s]) \in PoliciesOf(Source)
    BY <1>2, PolicyTypes
  <2>. QED BY <1>1, <2>1 DEF IInv, TypeOK
<1>4. HeldIsNew'
  <2>1. content[s].version \in newest[s]..content[s].version
    BY <1>2 DEF IInv, TypeOK, NewestWasThere, Content
  <2>2. held'[s] = Policy(s, [version |-> content[s].version, kind |-> "good"])
    BY <1>1 DEF IInv, TypeOK, Policy
  <2>3. \A t \in Source : t # s => held'[t] = held[t] /\ watcher'[t] = watcher[t]
    BY <1>1 DEF IInv, TypeOK
  <2>. QED BY <1>1, <2>1, <2>2, <2>3 DEF IInv, HeldIsNew
<1>. QED BY <1>1, <1>3, <1>4 DEF IInv, NewestWasThere, StableWhileEvaluating

(* The write lock waits for every evaluation to end. *)
LEMMA SwapKeepsIInv ==
    ASSUME IInv, NEW s \in Source, Swap(s)
    PROVE  /\ IInv'
           /\ prepared'.from = s /\ prepared'.kind = "good" /\ prepared'.version >= newest[s]
<1>. USE EngineAssumption
<1>1. /\ watcher[s] = "locking" /\ prepared' = held[s]
      /\ newest' = [newest EXCEPT ![s] = held[s].version]
      /\ held' = [held EXCEPT ![s] = None]
      /\ watcher' = [watcher EXCEPT ![s] = "waiting"]
      /\ \A r \in Requests : evaluating[r] = None
      /\ UNCHANGED <<phase, sources, content, evaluating>>
  BY DEF Swap, Goto
<1>2. PICK v \in newest[s]..content[s].version :
        held[s] = Policy(s, [version |-> v, kind |-> "good"])
  BY <1>1 DEF IInv, HeldIsNew
<1>3. v \in 0..MaxEdits /\ v >= newest[s]
  BY DEF IInv, TypeOK, Content
<1>4. prepared'.from = s /\ prepared'.version = v /\ prepared'.kind = "good"
  BY <1>1, <1>2 DEF Policy
<1>5. lastModTime' \in 0..MaxEdits
  BY DEF Swap, IInv, TypeOK, Source, Content
<1>6. TypeOK'
  <2>1. prepared' \in Policies
    <3>1. [version |-> v, kind |-> "good"] \in Content
      BY <1>3, ContentTypes DEF Kind
    <3>. QED BY <1>1, <1>2, <3>1, PolicyTypes
  <2>2. newest' \in [Source -> 0..MaxEdits]
    BY <1>1, <1>3, <1>4 DEF IInv, TypeOK
  <2>. QED BY <1>1, <1>5, <2>1, <2>2 DEF IInv, TypeOK, Policies
<1>7. HeldIsNew'
  <2>1. ASSUME NEW t \in Source, watcher'[t] = "locking"
        PROVE  watcher[t] = "locking" /\ held'[t] = held[t] /\ newest'[t] = newest[t]
    BY <1>1, <2>1 DEF IInv, TypeOK
  <2>. QED BY <1>1, <2>1 DEF IInv, HeldIsNew
<1>8. NewestWasThere'
  BY <1>1, <1>3, <1>4 DEF IInv, TypeOK, NewestWasThere, Content
<1>9. StableWhileEvaluating'
  BY <1>1 DEF StableWhileEvaluating
<1>. QED BY <1>3, <1>4, <1>6, <1>7, <1>8, <1>9 DEF IInv

(* An evaluation begins with the policy in force, unless a writer waits. *)
LEMMA EvaluateKeepsIInv ==
    ASSUME IInv, NEW r \in Requests, BeginEvaluate(r) \/ EndEvaluate(r) PROVE IInv'
<1>1. /\ UNCHANGED <<phase, sources, content, prepared, lastModTime, watcher, held, newest>>
      /\ \/ evaluating' = [evaluating EXCEPT ![r] = prepared]
         \/ evaluating' = [evaluating EXCEPT ![r] = None]
  BY DEF BeginEvaluate, EndEvaluate
<1>2. TypeOK' /\ StableWhileEvaluating'
  BY <1>1 DEF IInv, TypeOK, StableWhileEvaluating
<1>. QED BY <1>1, <1>2 DEF IInv, HeldIsNew, NewestWasThere

LEMMA StepKeepsIInv == IInv /\ [Next]_vars => IInv'
<1>. SUFFICES ASSUME IInv, [Next]_vars PROVE IInv'
  OBVIOUS
<1>1. CASE UNCHANGED vars
  BY <1>1 DEF vars, IInv, TypeOK, HeldIsNew, NewestWasThere, StableWhileEvaluating
<1>2. CASE Start \/ Stop
  BY <1>2, QuietSteps, QuietKeepsIInv DEF Source
<1>3. ASSUME NEW s \in Source, Poll(s) \/ ReadInVain(s) \/ Return(s) PROVE IInv'
  BY <1>3, QuietSteps, QuietKeepsIInv
<1>. QED
  BY <1>1, <1>2, <1>3, EditKeepsIInv, ReadKeepsIInv, SwapKeepsIInv, EvaluateKeepsIInv DEF Next

LEMMA Invariant == Spec => []IInv
BY InitiallyIInv, StepKeepsIInv, PTL DEF Spec

-----------------------------------------------------------------------------
(* The type invariant: in force is always a policy that was compiled, and    *)
(* every goroutine is at one of its steps (engine.go:38-49).                 *)
THEOREM TypeCorrect == Spec => []TypeOK
BY Invariant, PTL DEF IInv

(* No evaluation has its policy replaced under it, by any number of requests *)
(* and both watchers (engine.go:142-145, 276-284).                           *)
THEOREM EvaluationsAreStable == Spec => []StableWhileEvaluating
BY Invariant, PTL DEF IInv

(* The policy in force gives way only to one that compiles and is not older  *)
(* than its source's newest, whatever is edited during a poll                *)
(* (engine.go:198-286).                                                      *)
THEOREM PolicyAdvances == Spec => PolicyOnlyAdvances
<1>1. IInv /\ [Next]_vars =>
        [prepared' # prepared =>
            prepared'.kind = "good" /\ prepared'.version >= newest[prepared'.from]]_vars
  <2>. SUFFICES ASSUME IInv, Next, prepared' # prepared
                PROVE  prepared'.kind = "good" /\ prepared'.version >= newest[prepared'.from]
    OBVIOUS
  <2>1. PICK s \in Source : Swap(s)
    BY DEF Next, Start, Stop, Edit, Poll, ReadInVain, Read, Return, BeginEvaluate, EndEvaluate
  <2>. QED BY <2>1, SwapKeepsIInv
<1>. QED BY <1>1, Invariant, PTL DEF Spec, PolicyOnlyAdvances
=============================================================================
