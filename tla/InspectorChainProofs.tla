------------------------ MODULE InspectorChainProofs ------------------------
(* Proofs about InspectorChain, for any finite set of inspectors of any      *)
(* kinds: the channel is closed after the last send, and the goroutines      *)
(* implement Screening.                                                      *)
EXTENDS InspectorChain, FiniteSetTheorems, SequenceTheorems, TLAPS

(* The goroutines the WaitGroup waits for. *)
Active == {i \in Inspectors : task[i] \in {"inspecting", "sending", "sent"}}

Counted == wg = Cardinality(Active)

(* Where the caller and the closer are, and what the goroutines have come to. *)
CallerKnown ==
    /\ pc \in {"idle", "launching"} => closer = "none"
    /\ pc = "collecting" => closer # "none" /\ \A i \in Inspectors : task[i] # "none"
    /\ closed <=> closer = "done"
    /\ pc = "answered" => closed
    /\ pc = "idle" => \A i \in Inspectors : task[i] = "none"

(* A verdict is there once the inspector has returned. *)
VerdictKnown ==
    \A i \in Inspectors : verdict[i] # None <=> task[i] \in {"sending", "sent", "done"}

InChannel(i) == \E n \in 1..Len(ch) : ch[n] = i

(* A block that was sent is still in the channel, or one has been kept. *)
BlockKept ==
    /\ blockResult # None => verdict[blockResult] = "block"
    /\ \A i \in Inspectors :
        verdict[i] = "block" /\ task[i] \in {"sent", "done"}
            => InChannel(i) \/ blockResult # None

(* An answered call has collected everything. *)
AnsweredEmpty == pc = "answered" => ch = <<>>

(* The inductive invariant. *)
IInv ==
    /\ TypeOK
    /\ Counted
    /\ CallerKnown
    /\ VerdictKnown
    /\ ClosedAfterLastSend
    /\ BlockKept
    /\ AnsweredEmpty

-----------------------------------------------------------------------------
LEMMA NType == N \in Nat
BY ChainAssumption, FS_CardinalityType DEF N

(* A set of inspectors has a size the WaitGroup's counter can have. *)
LEMMA InspectorCount ==
    ASSUME NEW S \in SUBSET Inspectors
    PROVE  IsFiniteSet(S) /\ Cardinality(S) \in 0..N /\ (Cardinality(S) = 0 => S = {})
<1>1. IsFiniteSet(S) /\ Cardinality(S) <= N
  BY ChainAssumption, FS_Subset DEF N
<1>. QED BY <1>1, NType, FS_CardinalityType, FS_EmptySet

LEMMA ActiveCount ==
    /\ Active \subseteq Inspectors /\ IsFiniteSet(Active)
    /\ Cardinality(Active) = 0 => Active = {}
BY InspectorCount DEF Active

(* Every inspector's verdict that is no panic is a verdict of Screening. *)
LEMMA InspectTypes ==
    ASSUME NEW i \in Inspectors, NEW reply, Inspect(i, reply) # "panic"
    PROVE  Inspect(i, reply) \in {"pass", "block", "error"}
BY DEF Inspect, RegexVerdict, ModelArmorVerdict, DLPVerdict

LEMMA InitiallyIInv == Init => IInv
<1>. SUFFICES ASSUME Init PROVE IInv
  OBVIOUS
<1>1. Active = {}
  BY DEF Init, Active
<1>2. ch \in Seq(Inspectors) /\ Len(ch) = 0
  BY EmptySeq DEF Init
<1>3. TypeOK
  <2>1. Len(ch) <= N /\ wg \in 0..N
    BY <1>2, NType DEF Init
  <2>. QED BY <1>2, <2>1 DEF Init, TypeOK
<1>4. Counted
  BY <1>1, FS_EmptySet DEF Init, Counted
<1>. QED
  BY <1>3, <1>4, ChainAssumption
  DEF Init, IInv, CallerKnown, VerdictKnown, ClosedAfterLastSend, BlockKept, AnsweredEmpty

-----------------------------------------------------------------------------
(* A new call: everything as in the beginning. *)
LEMMA CallKeepsIInv ==
    ASSUME IInv, Call PROVE IInv'
<1>1. Active' = {}
  BY DEF Call, Active
<1>2. ch' \in Seq(Inspectors) /\ Len(ch') = 0
  BY EmptySeq DEF Call
<1>3. TypeOK'
  <2>1. Len(ch') <= N /\ wg' \in 0..N
    BY <1>2, NType DEF Call
  <2>. QED BY <1>2, <2>1 DEF Call, IInv, TypeOK
<1>4. Counted'
  BY <1>1, FS_EmptySet DEF Call, Counted
<1>. QED
  BY <1>3, <1>4, ChainAssumption
  DEF Call, IInv, CallerKnown, VerdictKnown, ClosedAfterLastSend, BlockKept, AnsweredEmpty

LEMMA LaunchKeepsIInv ==
    ASSUME IInv, NEW i \in Inspectors, Launch(i) PROVE IInv'
<1>. USE DEF Launch
<1>1. i \notin Active /\ Active' = Active \union {i}
  BY DEF IInv, TypeOK, Active
<1>2. Counted'
  BY <1>1, ActiveCount, FS_AddElement DEF IInv, Counted
<1>3. wg' \in 0..N
  BY <1>1, <1>2, ActiveCount, InspectorCount DEF Counted
<1>4. TypeOK'
  BY <1>3 DEF IInv, TypeOK
<1>5. ClosedAfterLastSend' /\ CallerKnown'
  BY DEF IInv, TypeOK, CallerKnown, ClosedAfterLastSend
<1>6. VerdictKnown' /\ BlockKept' /\ AnsweredEmpty'
  BY DEF IInv, TypeOK, VerdictKnown, BlockKept, AnsweredEmpty, InChannel
<1>. QED BY <1>2, <1>4, <1>5, <1>6 DEF IInv

LEMMA ReturnKeepsIInv ==
    ASSUME IInv, NEW i \in Inspectors, Return(i) PROVE IInv'
<1>. USE ChainAssumption
<1>1. task[i] = "inspecting" /\ UNCHANGED <<pc, wg, ch, closed, closer, blockResult>>
  BY DEF Return
<1>2. PICK reply \in Replies(i) :
        \/ /\ Inspect(i, reply) # "panic"
           /\ verdict' = [verdict EXCEPT ![i] = Inspect(i, reply)]
           /\ task' = [task EXCEPT ![i] = "sending"]
           /\ UNCHANGED crashed
        \/ crashed' = TRUE /\ UNCHANGED <<verdict, task>>
  BY DEF Return
<1>3. CASE crashed' = TRUE /\ UNCHANGED <<verdict, task>>
  <2>1. Active' = Active
    BY <1>3 DEF Active
  <2>. QED
    BY <1>1, <1>3, <2>1
    DEF IInv, TypeOK, Counted, CallerKnown, VerdictKnown, ClosedAfterLastSend, BlockKept,
        AnsweredEmpty, InChannel
<1>4. ASSUME NEW v \in {"pass", "block", "error"},
             verdict' = [verdict EXCEPT ![i] = v],
             task' = [task EXCEPT ![i] = "sending"], UNCHANGED crashed
      PROVE  IInv'
  <2>1. Active' = Active
    BY <1>1, <1>4 DEF IInv, TypeOK, Active
  <2>2. TypeOK' /\ Counted'
    BY <1>1, <1>4, <2>1 DEF IInv, TypeOK, Counted
  <2>3. CallerKnown' /\ ClosedAfterLastSend' /\ AnsweredEmpty'
    BY <1>1, <1>4 DEF IInv, TypeOK, CallerKnown, ClosedAfterLastSend, AnsweredEmpty
  <2>4. VerdictKnown'
    BY <1>1, <1>4 DEF IInv, TypeOK, VerdictKnown
  <2>5. BlockKept'
    <3>1. blockResult # i
      BY <1>1 DEF IInv, VerdictKnown, BlockKept
    <3>. QED BY <1>1, <1>4, <3>1 DEF IInv, TypeOK, BlockKept, InChannel
  <2>. QED BY <2>2, <2>3, <2>4, <2>5 DEF IInv
<1>. QED BY <1>2, <1>3, <1>4, InspectTypes

LEMMA SendKeepsIInv ==
    ASSUME IInv, NEW i \in Inspectors, Send(i) PROVE IInv'
<1>. USE ChainAssumption, NType
<1>1. /\ task[i] = "sending" /\ Len(ch) < N
      /\ ch' = Append(ch, i) /\ task' = [task EXCEPT ![i] = "sent"]
      /\ UNCHANGED <<pc, verdict, wg, closed, closer, blockResult, crashed>>
  BY DEF Send
<1>2. /\ ch' \in Seq(Inspectors) /\ Len(ch) \in Nat /\ Len(ch') = Len(ch) + 1
      /\ \A n \in 1..Len(ch) : ch'[n] = ch[n]
      /\ ch'[Len(ch) + 1] = i
  BY <1>1, AppendProperties, LenProperties DEF IInv, TypeOK
<1>3. Active' = Active
  BY <1>1 DEF IInv, TypeOK, Active
<1>4. TypeOK' /\ Counted'
  BY <1>1, <1>2, <1>3 DEF IInv, TypeOK, Counted
<1>5. CallerKnown' /\ VerdictKnown' /\ ClosedAfterLastSend'
  BY <1>1 DEF IInv, TypeOK, CallerKnown, VerdictKnown, ClosedAfterLastSend
<1>6. AnsweredEmpty'
  BY <1>1 DEF IInv, CallerKnown, ClosedAfterLastSend, AnsweredEmpty
<1>7. BlockKept'
  <2>1. \A j \in Inspectors : InChannel(j) => InChannel(j)'
    BY <1>2 DEF InChannel
  <2>2. InChannel(i)'
    BY <1>2 DEF InChannel
  <2>. QED BY <1>1, <2>1, <2>2 DEF IInv, TypeOK, BlockKept
<1>. QED BY <1>4, <1>5, <1>6, <1>7 DEF IInv

LEMMA DoneKeepsIInv ==
    ASSUME IInv, NEW i \in Inspectors, Done(i) PROVE IInv'
<1>. USE DEF Done
<1>1. i \in Active /\ Active' = Active \ {i}
  BY DEF IInv, TypeOK, Active
<1>2. Counted'
  BY <1>1, ActiveCount, FS_RemoveElement DEF IInv, Counted
<1>3. wg' \in 0..N
  BY <1>1, <1>2, ActiveCount, InspectorCount DEF Counted
<1>4. TypeOK'
  BY <1>3 DEF IInv, TypeOK
<1>5. CallerKnown' /\ ClosedAfterLastSend' /\ VerdictKnown'
  BY DEF IInv, TypeOK, CallerKnown, ClosedAfterLastSend, VerdictKnown
<1>6. BlockKept' /\ AnsweredEmpty'
  BY DEF IInv, TypeOK, BlockKept, AnsweredEmpty, InChannel
<1>. QED BY <1>2, <1>4, <1>5, <1>6 DEF IInv

(* wg.Wait returns when no goroutine is left: all of them have sent. *)
LEMMA CloseKeepsIInv ==
    ASSUME IInv, Close PROVE IInv'
<1>. USE DEF Close
<1>1. Active = {} /\ Active' = Active
  BY ActiveCount DEF IInv, Counted, Active
<1>2. pc = "collecting"
  BY DEF IInv, TypeOK, CallerKnown, ClosedAfterLastSend
<1>3. ClosedAfterLastSend'
  BY <1>1, <1>2 DEF IInv, TypeOK, CallerKnown, ClosedAfterLastSend, Active
<1>. QED
  BY <1>1, <1>2, <1>3
  DEF IInv, TypeOK, Counted, CallerKnown, VerdictKnown, BlockKept, AnsweredEmpty, InChannel

LEMMA CollectKeepsIInv ==
    ASSUME IInv, Collect PROVE IInv'
<1>. USE ChainAssumption, NType
<1>1. /\ pc = "collecting" /\ ch # <<>> /\ ch' = Tail(ch)
      /\ blockResult' = IF verdict[Head(ch)] = "block" /\ blockResult = None
                        THEN Head(ch) ELSE blockResult
      /\ UNCHANGED <<pc, task, verdict, wg, closed, closer, crashed>>
  BY DEF Collect
<1>2. /\ Len(ch) \in Nat \ {0} /\ Head(ch) \in Inspectors /\ Head(ch) = ch[1]
      /\ ch' \in Seq(Inspectors) /\ Len(ch') = Len(ch) - 1
      /\ \A n \in 1..Len(ch') : ch'[n] = ch[n + 1]
  BY <1>1, EmptySeq, HeadTailProperties DEF IInv, TypeOK
<1>3. Active' = Active
  BY <1>1 DEF Active
<1>4. TypeOK' /\ Counted'
  BY <1>1, <1>2, <1>3 DEF IInv, TypeOK, Counted
<1>5. BlockKept'
  <2>1. ASSUME NEW i \in Inspectors, InChannel(i), i # Head(ch) PROVE InChannel(i)'
    <3>1. PICK n \in 2..Len(ch) : ch[n] = i
      BY <1>2, <2>1 DEF InChannel
    <3>2. n - 1 \in 1..Len(ch') /\ ch'[n - 1] = i
      BY <1>2, <3>1
    <3>. QED BY <3>2 DEF InChannel
  <2>2. blockResult # None => blockResult' # None
    BY <1>1
  <2>3. verdict[Head(ch)] = "block" => blockResult' # None
    BY <1>1, <1>2
  <2>4. blockResult' # None => verdict'[blockResult'] = "block"
    BY <1>1 DEF IInv, BlockKept
  <2>. QED BY <1>1, <2>1, <2>2, <2>3, <2>4 DEF IInv, BlockKept
<1>. QED
  BY <1>1, <1>4, <1>5
  DEF IInv, CallerKnown, VerdictKnown, ClosedAfterLastSend, AnsweredEmpty

LEMMA StepKeepsIInv == IInv /\ [Next]_vars => IInv'
<1>. SUFFICES ASSUME IInv, [Next]_vars PROVE IInv'
  OBVIOUS
<1>1. ASSUME UNCHANGED <<task, verdict, wg, ch, blockResult, crashed>>
      PROVE  (Active' = Active) /\ (VerdictKnown' /\ BlockKept' /\ Counted')
  BY <1>1 DEF IInv, Active, VerdictKnown, BlockKept, Counted, InChannel
<1>2. CASE StartCloser
  BY <1>1, <1>2
  DEF StartCloser, IInv, TypeOK, CallerKnown, ClosedAfterLastSend, AnsweredEmpty
<1>3. CASE Finish
  BY <1>1, <1>3
  DEF Finish, IInv, TypeOK, CallerKnown, ClosedAfterLastSend, AnsweredEmpty
<1>4. CASE UNCHANGED vars
  BY <1>1, <1>4 DEF vars, IInv, TypeOK, CallerKnown, ClosedAfterLastSend, AnsweredEmpty
<1>. QED
  BY <1>2, <1>3, <1>4, CallKeepsIInv, CloseKeepsIInv, CollectKeepsIInv, LaunchKeepsIInv,
     ReturnKeepsIInv, SendKeepsIInv, DoneKeepsIInv
  DEF Next, Step, Goroutine

LEMMA Invariant == Spec => []IInv
BY InitiallyIInv, StepKeepsIInv, PTL DEF Spec

-----------------------------------------------------------------------------
(* The type invariant: the WaitGroup's counter never leaves 0..N, and the    *)
(* channel's buffer holds what is sent (inspector.go:67-128).                *)
THEOREM TypeCorrect == Spec => []TypeOK
BY Invariant, PTL DEF IInv

(* Nothing is sent on the closed channel, by any number of inspectors        *)
(* (inspector.go:73-98).                                                     *)
THEOREM ChannelClosedLast == Spec => []ClosedAfterLastSend
BY Invariant, PTL DEF IInv

(* What the refinement makes of the collector's variable. *)
AbstractAnswer == IF pc = "answered" THEN blockResult ELSE None

(* The goroutines, the WaitGroup and the channel together do what Screening  *)
(* says, for any inspectors: a Call asks, a Return hears, a Finish answers,  *)
(* and the other steps are not seen (inspector.go:67-128).                   *)
THEOREM ImplementsScreening == Spec => IsScreening
<1>1. Init => Abstract!ScreeningInit
  BY DEF Init, Abstract!ScreeningInit, Phase
<1>2. IInv /\ [Next]_vars => [Abstract!ScreeningNext]_<<Phase, verdict, AbstractAnswer>>
  <2>. SUFFICES ASSUME IInv, [Next]_vars
                PROVE  [Abstract!ScreeningNext]_<<Phase, verdict, AbstractAnswer>>
    OBVIOUS
  <2>. USE ChainAssumption
  <2>1. CASE ~crashed /\ Call
    <3>1. Abstract!Ask
      BY <2>1 DEF Call, Phase, Abstract!Ask
    <3>. QED BY <3>1 DEF Abstract!ScreeningNext
  <2>2. ASSUME ~crashed, NEW i \in Inspectors, Return(i)
        PROVE  Abstract!ScreeningNext
    <3>1. pc \in {"launching", "collecting"} /\ verdict[i] = None
      BY <2>2 DEF Return, IInv, TypeOK, CallerKnown, VerdictKnown, ClosedAfterLastSend
    <3>2. pc' = pc /\ UNCHANGED blockResult
      BY <2>2 DEF Return
    <3>3. CASE crashed' = TRUE /\ UNCHANGED <<verdict, task>>
      <4>1. Phase = "screening" /\ Phase' = "crashed"
        BY <2>2, <3>1, <3>3 DEF Phase
      <4>2. UNCHANGED <<verdict, AbstractAnswer>>
        BY <3>2, <3>3 DEF AbstractAnswer
      <4>3. Abstract!Crash
        BY <4>1, <4>2 DEF Abstract!Crash, AbstractAnswer
      <4>. QED BY <4>3 DEF Abstract!ScreeningNext
    <3>4. CASE \E v \in {"pass", "block", "error"} :
                verdict' = [verdict EXCEPT ![i] = v] /\ UNCHANGED crashed
      <4>1. Phase = "screening" /\ UNCHANGED Phase
        BY <2>2, <3>1, <3>2, <3>4 DEF Phase
      <4>2. UNCHANGED AbstractAnswer
        BY <3>2 DEF AbstractAnswer
      <4>3. Abstract!Hear(i)
        BY <3>1, <3>4, <4>1, <4>2 DEF Abstract!Hear, Abstract!Verdict, AbstractAnswer
      <4>. QED BY <4>3 DEF Abstract!ScreeningNext
    <3>. QED BY <2>2, <3>3, <3>4, InspectTypes DEF Return
  <2>3. CASE ~crashed /\ Finish
    <3>1. \A i \in Inspectors : task[i] = "done" /\ verdict[i] # None
      BY <2>3 DEF Finish, IInv, ClosedAfterLastSend, VerdictKnown
    <3>2. \A i \in Inspectors : ~InChannel(i)
      BY <2>3 DEF Finish, InChannel
    <3>3. IF Abstract!Blockers = {} THEN blockResult = None ELSE blockResult \in Abstract!Blockers
      BY <3>1, <3>2 DEF IInv, TypeOK, BlockKept, Abstract!Blockers
    <3>4. Abstract!Answer
      BY <2>3, <3>1, <3>3 DEF Finish, Phase, Abstract!Answer
    <3>. QED BY <3>4 DEF Abstract!ScreeningNext
  <2>4. ASSUME ~crashed,
               StartCloser \/ Close \/ Collect \/ \E i \in Inspectors : Launch(i) \/ Send(i) \/ Done(i)
        PROVE  UNCHANGED <<Phase, verdict, AbstractAnswer>>
    <3>1. /\ verdict' = verdict /\ crashed' = crashed
          /\ pc' = pc \/ (pc = "launching" /\ pc' = "collecting")
          /\ pc = "answered" => blockResult' = blockResult
      BY <2>4 DEF StartCloser, Close, Collect, Launch, Send, Done
    <3>. QED BY <3>1 DEF Phase, AbstractAnswer
  <2>5. CASE UNCHANGED vars
    BY <2>5 DEF vars, Phase, AbstractAnswer
  <2>. QED BY <2>1, <2>2, <2>3, <2>4, <2>5 DEF Next, Step, Goroutine
<1>. QED
  BY <1>1, <1>2, Invariant, PTL
  DEF IsScreening, Abstract!ScreeningSpec, Abstract!screeningVars, AbstractAnswer, Spec
=============================================================================
