--------------------------- MODULE ShutdownProofs ---------------------------
(* Proofs about Shutdown and its Notifier, for any set of events, any queue  *)
(* and any number of retries: an event is in one place, it is posted         *)
(* boundedly often, and Stop leaves no event behind that was queued before.  *)
EXTENDS Shutdown, SequenceTheorems, TLAPS

(* The worker holds an event exactly in sendWithRetry; outside of it the     *)
(* worker is in the loop it came from, and only a closed done leads it to    *)
(* the drain loop.                                                           *)
WorkerKnown ==
    /\ worker \in {"send", "backoff"} <=> current # None
    /\ worker \in {"select", "drain"} => worker = loop
    /\ worker = "exited" => loop = "drain"
    /\ loop = "drain" => done

(* The loop variable of sendWithRetry bounds the posts of its event. *)
AttemptCounts == current # None => received[current] <= attempt

(* An event queued before Stop is on its way or settled, and settled once    *)
(* the worker has exited.                                                    *)
EarlyUnderWay ==
    \A e \in early : /\ fate[e] \in {"queued", "sending"} \union Settled
                     /\ worker = "exited" => fate[e] \in Settled

(* The inductive invariant. *)
IInv ==
    /\ TypeOK
    /\ WorkerKnown
    /\ EventInOnePlace
    /\ AttemptCounts
    /\ BoundedDelivery
    /\ EarlyUnderWay

-----------------------------------------------------------------------------
(* The queue's elements after a send and after a receive. *)
LEMMA AppendQueue ==
    ASSUME NEW q \in Seq(Events), NEW e \in Events
    PROVE  /\ Append(q, e) \in Seq(Events)
           /\ Len(Append(q, e)) = Len(q) + 1
           /\ \A i \in 1..Len(q) : Append(q, e)[i] = q[i]
           /\ Append(q, e)[Len(q) + 1] = e
BY AppendProperties

LEMMA TailQueue ==
    ASSUME NEW q \in Seq(Events), q # <<>>
    PROVE  /\ Len(q) \in Nat \ {0}
           /\ Head(q) = q[1] /\ Head(q) \in Events
           /\ Tail(q) \in Seq(Events)
           /\ Len(Tail(q)) = Len(q) - 1
           /\ \A i \in 1..Len(Tail(q)) : Tail(q)[i] = q[i + 1]
BY EmptySeq, HeadTailProperties

LEMMA InitiallyIInv == Init => IInv
<1>. SUFFICES ASSUME Init PROVE IInv
  OBVIOUS
<1>1. queue \in Seq(Events) /\ Len(queue) = 0
  BY EmptySeq DEF Init, NewNotifier
<1>2. fate \in [Events -> Fate] /\ received \in [Events -> 0..(MaxRetries + 1)]
  BY NotifierAssumption DEF Init, NewNotifier, Fate
<1>3. TypeOK
  <2>1. Len(queue) <= BufferSize /\ attempt \in 0..MaxRetries
    BY <1>1, NotifierAssumption DEF Init, NewNotifier
  <2>2. current \in Events \union {None} /\ early \subseteq Events
    BY DEF Init, NewNotifier
  <2>. QED
    BY <1>1, <1>2, <2>1, <2>2 DEF Init, NewNotifier, TypeOK, NotifierTypeOK
<1>4. BoundedDelivery
  BY NotifierAssumption DEF Init, NewNotifier, BoundedDelivery
<1>5. EventInOnePlace
  BY <1>1, NotifierAssumption DEF Init, NewNotifier, EventInOnePlace
<1>. QED
  BY <1>3, <1>4, <1>5 DEF Init, NewNotifier, IInv, WorkerKnown, AttemptCounts, EarlyUnderWay

-----------------------------------------------------------------------------
(* A handler's Notify: the event goes to the end of the queue, or is dropped *)
(* when it is full.                                                          *)
LEMMA BlockKeepsIInv ==
    ASSUME IInv, NEW e \in Events, Block(e) PROVE IInv'
<1>. USE NotifierAssumption
<1>1. /\ fate[e] = "raised"
      /\ UNCHANGED <<done, worker, loop, current, attempt, received, main>>
  BY DEF Block, Notify
<1>2. e # current /\ e \notin early /\ \A i \in 1..Len(queue) : queue[i] # e
  BY <1>1 DEF IInv, TypeOK, NotifierTypeOK, EventInOnePlace, EarlyUnderWay, Settled
<1>3. CASE Len(queue) < BufferSize
  <2>1. queue' = Append(queue, e) /\ fate' = [fate EXCEPT ![e] = "queued"]
    BY <1>3 DEF Block, Notify
  <2>2. /\ queue' \in Seq(Events) /\ Len(queue') = Len(queue) + 1
        /\ \A i \in 1..Len(queue) : queue'[i] = queue[i]
        /\ queue'[Len(queue) + 1] = e /\ Len(queue) \in Nat
    BY <2>1, AppendQueue, LenProperties DEF IInv, TypeOK, NotifierTypeOK
  <2>3. TypeOK'
    BY <1>1, <1>3, <2>1, <2>2 DEF IInv, TypeOK, NotifierTypeOK, Fate, Block
  <2>4. EventInOnePlace'
    <3>1. \A d \in Events : d # e =>
            /\ fate'[d] = fate[d]
            /\ (\E i \in 1..Len(queue') : queue'[i] = d) <=> (\E i \in 1..Len(queue) : queue[i] = d)
      BY <2>1, <2>2 DEF IInv, TypeOK, NotifierTypeOK
    <3>2. fate'[e] = "queued" /\ \E i \in 1..Len(queue') : queue'[i] = e
      BY <2>1, <2>2 DEF IInv, TypeOK, NotifierTypeOK
    <3>3. \A i, j \in 1..Len(queue') : queue'[i] = queue'[j] => i = j
      BY <1>2, <2>2 DEF IInv, EventInOnePlace
    <3>. QED BY <1>1, <1>2, <3>1, <3>2, <3>3 DEF IInv, EventInOnePlace
  <2>5. BoundedDelivery'
    BY <1>1, <2>1 DEF IInv, TypeOK, NotifierTypeOK, BoundedDelivery
  <2>6. EarlyUnderWay'
    BY <1>1, <1>2, <2>1
    DEF IInv, TypeOK, NotifierTypeOK, EarlyUnderWay, WorkerKnown, Block, Settled
  <2>. QED BY <1>1, <2>3, <2>4, <2>5, <2>6 DEF IInv, WorkerKnown, AttemptCounts
<1>4. CASE ~(Len(queue) < BufferSize)
  <2>1. UNCHANGED queue /\ fate' = [fate EXCEPT ![e] = "dropped"]
    BY <1>4 DEF Block, Notify
  <2>2. early' = early
    BY <2>1 DEF Block, IInv, TypeOK, NotifierTypeOK
  <2>3. TypeOK'
    BY <1>1, <2>1, <2>2 DEF IInv, TypeOK, NotifierTypeOK, Fate
  <2>4. EventInOnePlace'
    BY <1>1, <1>2, <2>1 DEF IInv, TypeOK, NotifierTypeOK, EventInOnePlace
  <2>5. BoundedDelivery' /\ EarlyUnderWay'
    BY <1>1, <1>2, <2>1, <2>2
    DEF IInv, TypeOK, NotifierTypeOK, BoundedDelivery, EarlyUnderWay
  <2>. QED BY <1>1, <2>3, <2>4, <2>5 DEF IInv, WorkerKnown, AttemptCounts
<1>. QED BY <1>3, <1>4

(* The worker takes the queue's first event. *)
LEMMA TakeKeepsIInv ==
    ASSUME IInv, Take, UNCHANGED <<main, early>> PROVE IInv'
<1>. USE NotifierAssumption
<1>. DEFINE e == Head(queue)
<1>1. /\ Len(queue) \in Nat \ {0} /\ e = queue[1] /\ e \in Events
      /\ Tail(queue) \in Seq(Events) /\ Len(Tail(queue)) = Len(queue) - 1
      /\ \A i \in 1..Len(Tail(queue)) : Tail(queue)[i] = queue[i + 1]
  BY TailQueue DEF Take, IInv, TypeOK, NotifierTypeOK
<1>2. /\ worker \in {"select", "drain"} /\ worker' = "send" /\ loop' = loop /\ done' = done
      /\ queue' = Tail(queue) /\ current' = e /\ current = None /\ attempt' = 0
      /\ fate' = [fate EXCEPT ![e] = "sending"] /\ received' = received
  BY DEF Take, IInv, TypeOK, NotifierTypeOK, WorkerKnown
<1>. HIDE DEF e
<1>3. fate[e] = "queued" /\ received[e] = 0
  BY <1>1 DEF IInv, EventInOnePlace, BoundedDelivery
<1>4. TypeOK'
  BY <1>1, <1>2 DEF IInv, TypeOK, NotifierTypeOK, Fate
<1>5. EventInOnePlace'
  <2>1. \A d \in Events : fate'[d] = "queued" <=> \E i \in 1..Len(queue') : queue'[i] = d
    <3>1. ASSUME NEW d \in Events, d # e
          PROVE  fate'[d] = "queued" <=> \E i \in 1..Len(queue') : queue'[i] = d
      <4>1. (\E i \in 1..Len(queue) : queue[i] = d) <=> (\E i \in 2..Len(queue) : queue[i] = d)
        BY <1>1, <3>1
      <4>2. (\E i \in 2..Len(queue) : queue[i] = d)
            <=> (\E i \in 1..Len(queue') : queue'[i] = d)
        <5>1. ASSUME NEW i \in 2..Len(queue), queue[i] = d
              PROVE  i - 1 \in 1..Len(queue') /\ queue'[i - 1] = d
          BY <1>1, <1>2, <5>1
        <5>2. ASSUME NEW i \in 1..Len(queue'), queue'[i] = d
              PROVE  i + 1 \in 2..Len(queue) /\ queue[i + 1] = d
          BY <1>1, <1>2, <5>2
        <5>. QED BY <5>1, <5>2
      <4>3. fate'[d] = fate[d]
        BY <1>2, <3>1 DEF IInv, TypeOK, NotifierTypeOK
      <4>. QED BY <4>1, <4>2, <4>3 DEF IInv, EventInOnePlace
    <3>2. fate'[e] # "queued" /\ \A i \in 1..Len(queue') : queue'[i] # e
      BY <1>1, <1>2 DEF IInv, TypeOK, NotifierTypeOK, EventInOnePlace
    <3>. QED BY <3>1, <3>2
  <2>2. \A d \in Events : fate'[d] = "sending" <=> current' = d
    BY <1>1, <1>2 DEF IInv, TypeOK, NotifierTypeOK, EventInOnePlace
  <2>3. \A i, j \in 1..Len(queue') : queue'[i] = queue'[j] => i = j
    BY <1>1, <1>2 DEF IInv, EventInOnePlace
  <2>. QED BY <2>1, <2>2, <2>3 DEF EventInOnePlace
<1>6. WorkerKnown' /\ AttemptCounts' /\ BoundedDelivery' /\ EarlyUnderWay'
  BY <1>1, <1>2, <1>3
  DEF IInv, TypeOK, NotifierTypeOK, WorkerKnown, AttemptCounts, BoundedDelivery,
      EarlyUnderWay, Settled
<1>. QED BY <1>4, <1>5, <1>6 DEF IInv

(* sendWithRetry returns with the event's fate settled and its posts bounded. *)
LEMMA SettleKeepsIInv ==
    ASSUME IInv, NEW f \in Settled, Settle(f), UNCHANGED <<main, early>>,
           worker \in {"send", "backoff"},
           received' \in [Events -> 0..(MaxRetries + 1)],
           \A e \in Events : e # current => received'[e] = received[e],
           f = "answered" => received'[current] >= 1,
           f = "abandoned" => done
    PROVE  IInv'
<1>1. /\ current \in Events /\ current' = None /\ worker' = loop
      /\ fate' = [fate EXCEPT ![current] = f]
      /\ UNCHANGED <<queue, done, loop, attempt>>
  BY DEF Settle, IInv, TypeOK, NotifierTypeOK, WorkerKnown
<1>2. fate[current] = "sending"
  BY <1>1 DEF IInv, EventInOnePlace
<1>3. TypeOK'
  BY <1>1 DEF IInv, TypeOK, NotifierTypeOK, Fate, Settled
<1>4. WorkerKnown' /\ AttemptCounts'
  BY <1>1, NotifierAssumption
  DEF IInv, TypeOK, NotifierTypeOK, WorkerKnown, AttemptCounts
<1>5. EventInOnePlace'
  BY <1>1, <1>2, NotifierAssumption DEF IInv, TypeOK, NotifierTypeOK, EventInOnePlace, Settled
<1>6. BoundedDelivery'
  BY <1>1, NotifierAssumption DEF IInv, TypeOK, NotifierTypeOK, BoundedDelivery, Settled
<1>7. EarlyUnderWay'
  BY <1>1 DEF IInv, TypeOK, NotifierTypeOK, EarlyUnderWay, WorkerKnown
<1>. QED BY <1>3, <1>4, <1>5, <1>6, <1>7 DEF IInv

(* A post, answered or failed. *)
LEMMA SendKeepsIInv ==
    ASSUME IInv, SendAnswered \/ SendFailed, UNCHANGED <<main, early>> PROVE IInv'
<1>. USE NotifierAssumption
<1>1. /\ worker = "send" /\ current \in Events /\ attempt \in 0..MaxRetries
      /\ received \in [Events -> 0..(MaxRetries + 1)] /\ received[current] <= attempt
  BY DEF SendAnswered, SendFailed, IInv, TypeOK, NotifierTypeOK, WorkerKnown, AttemptCounts
<1>2. CASE SendAnswered
  <2>1. received' = [received EXCEPT ![current] = @ + 1] /\ Settle("answered")
    BY <1>2 DEF SendAnswered
  <2>. QED BY <1>1, <2>1, SettleKeepsIInv DEF Settled
<1>3. CASE SendFailed
  <2>1. PICK got \in {0, 1} : received' = [received EXCEPT ![current] = @ + got]
    BY <1>3 DEF SendFailed
  <2>2. /\ received' \in [Events -> 0..(MaxRetries + 1)]
        /\ received'[current] <= attempt + 1
        /\ \A e \in Events : e # current => received'[e] = received[e]
    BY <1>1, <2>1
  <2>3. CASE Settle("exhausted")
    BY <1>1, <2>2, <2>3, SettleKeepsIInv DEF Settled
  <2>4. CASE /\ attempt < MaxRetries /\ attempt' = attempt + 1 /\ worker' = "backoff"
             /\ UNCHANGED <<queue, done, loop, current, fate>>
    BY <1>1, <2>2, <2>4
    DEF IInv, TypeOK, NotifierTypeOK, WorkerKnown, EventInOnePlace, AttemptCounts,
        BoundedDelivery, EarlyUnderWay
  <2>. QED BY <1>3, <2>3, <2>4 DEF SendFailed
<1>. QED BY <1>2, <1>3

(* The drain loop ends only with an empty queue, when every early event has  *)
(* been taken and, the worker holding none, settled.                         *)
LEMMA ExitKeepsIInv ==
    ASSUME IInv, Exit, UNCHANGED <<main, early>> PROVE IInv'
<1>1. worker = "drain" /\ queue = <<>> /\ worker' = "exited"
      /\ UNCHANGED <<queue, done, loop, current, attempt, fate, received, main, early>>
  BY DEF Exit
<1>2. \A e \in Events : fate[e] \notin {"queued", "sending"}
  <2>1. Len(queue) = 0 /\ current = None
    BY <1>1 DEF IInv, WorkerKnown
  <2>. QED BY <2>1, NotifierAssumption DEF IInv, EventInOnePlace
<1>3. EarlyUnderWay'
  BY <1>1, <1>2 DEF IInv, TypeOK, EarlyUnderWay
<1>. QED
  BY <1>1, <1>3
  DEF IInv, TypeOK, NotifierTypeOK, WorkerKnown, EventInOnePlace, AttemptCounts, BoundedDelivery

LEMMA StepKeepsIInv == IInv /\ [Next]_vars => IInv'
<1>. SUFFICES ASSUME IInv, [Next]_vars PROVE IInv'
  OBVIOUS
<1>. USE NotifierAssumption
<1>1. ASSUME NEW e \in Events, Accept(e) PROVE IInv'
  BY <1>1
  DEF Accept, IInv, TypeOK, NotifierTypeOK, Fate, Settled, WorkerKnown, EventInOnePlace,
      AttemptCounts, BoundedDelivery, EarlyUnderWay
<1>2. ASSUME NEW e \in Events, Block(e) PROVE IInv'
  BY <1>2, BlockKeepsIInv
<1>3. CASE Signal \/ Die \/ Main
  <2>1. UNCHANGED <<queue, worker, loop, current, attempt, fate, received, early>>
    BY <1>3 DEF Signal, Die, Main, StopWebhook, WebhookStopped, ExitProcess, CloseDone, notifierVars
  <2>2. done' \in BOOLEAN /\ (done => done')
    BY <1>3
    DEF IInv, TypeOK, NotifierTypeOK, Signal, Die, Main, StopWebhook, WebhookStopped,
        ExitProcess, CloseDone, notifierVars
  <2>3. main' \in {"serving", "stop_webhook", "wait_webhook", "drain_server", "exited", "failed"}
    BY <1>3 DEF Signal, Die, Main, StopWebhook, WebhookStopped, ExitProcess
  <2>. QED
    BY <2>1, <2>2, <2>3
    DEF IInv, TypeOK, NotifierTypeOK, WorkerKnown, EventInOnePlace, AttemptCounts,
        BoundedDelivery, EarlyUnderWay
<1>4. ASSUME WorkerStep, UNCHANGED <<main, early>> PROVE IInv'
  <2>1. CASE Take
    BY <1>4, <2>1, TakeKeepsIInv
  <2>2. CASE Exit
    BY <1>4, <2>2, ExitKeepsIInv
  <2>3. CASE SendAnswered \/ SendFailed
    BY <1>4, <2>3, SendKeepsIInv
  <2>4. CASE GiveUp
    <3>1. /\ worker = "backoff" /\ done /\ Settle("abandoned")
          /\ received' = received /\ received \in [Events -> 0..(MaxRetries + 1)]
      BY <2>4 DEF GiveUp, IInv, TypeOK, NotifierTypeOK
    <3>. QED BY <1>4, <3>1, SettleKeepsIInv DEF Settled
  <2>5. CASE SeeDone \/ RetryAfterBackoff
    BY <1>4, <2>5
    DEF SeeDone, RetryAfterBackoff, IInv, TypeOK, NotifierTypeOK, WorkerKnown,
        EventInOnePlace, AttemptCounts, BoundedDelivery, EarlyUnderWay
  <2>. QED BY <1>4, <2>1, <2>2, <2>3, <2>4, <2>5 DEF WorkerStep
<1>5. CASE UNCHANGED vars
  BY <1>5
  DEF vars, IInv, TypeOK, NotifierTypeOK, WorkerKnown, EventInOnePlace, AttemptCounts,
      BoundedDelivery, EarlyUnderWay
<1>. QED BY <1>1, <1>2, <1>3, <1>4, <1>5 DEF Next, Worker

LEMMA Invariant == Spec => []IInv
BY InitiallyIInv, StepKeepsIInv, PTL DEF Spec, Safety

-----------------------------------------------------------------------------
(* The type invariant, with the queue within its capacity and the attempts   *)
(* within the retries (webhook.go:31-110).                                   *)
THEOREM TypeCorrect == Spec => []TypeOK
BY Invariant, PTL DEF IInv

(* No event is lost between handler, queue and worker, and none is twice in  *)
(* the queue (webhook.go:63-92).                                             *)
THEOREM EventsInOnePlace == Spec => []EventInOnePlace
BY Invariant, PTL DEF IInv

(* The endpoint gets an event at most MaxRetries + 1 times, and misses one   *)
(* only after the last retry or in a shutdown (webhook.go:94-110).           *)
THEOREM DeliveryIsBounded == Spec => []BoundedDelivery
BY Invariant, PTL DEF IInv

(* Stop leaves no event behind that was queued before (webhook.go:58-92).    *)
THEOREM StopSettlesAllEarly == Spec => []StopSettlesEarlyEvents
<1>1. IInv => StopSettlesEarlyEvents
  BY DEF IInv, EarlyUnderWay, StopSettlesEarlyEvents
<1>. QED BY <1>1, Invariant, PTL
=============================================================================
