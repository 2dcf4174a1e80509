------------------------------ MODULE Notifier ------------------------------
(* webhook.Notifier: a bounded queue that handlers add events to without     *)
(* waiting, and one worker that posts them, retries and, once told to stop,  *)
(* drains what is queued.                                                    *)
EXTENDS Integers, Sequences, FiniteSets

CONSTANTS
    Events,         \* the block and denial events handlers raise
    BufferSize,     \* the queue's capacity, 256 in main.go
    MaxRetries,     \* the constant maxRetries, 3 in the code
    None            \* no event

ASSUME NotifierAssumption ==
    /\ BufferSize \in Nat \ {0}
    /\ MaxRetries \in Nat
    /\ None \notin Events

VARIABLES
    queue,          \* Notifier.queue
    done,           \* whether Notifier.done is closed
    worker,         \* processQueue: "select", "drain", "send", "backoff", "exited"
    loop,           \* the loop of processQueue the worker is in: "select" or "drain"
    current,        \* the event sendWithRetry is working on
    attempt,        \* its loop variable
    fate,           \* fate[e]: what has become of event e
    received        \* received[e]: how often the endpoint got e (external)

notifierVars == <<queue, done, worker, loop, current, attempt, fate, received>>

(* "answered" (a status below 500: sent, or not to be retried), "exhausted"  *)
(* (out of retries) and "abandoned" (given up in a backoff because of Stop)  *)
(* are final.                                                                *)
Settled == {"answered", "exhausted", "abandoned"}

(* An event is "raised" once the request that will raise it is being served. *)
Fate == {"none", "raised", "queued", "dropped", "sending"} \union Settled

NewNotifier ==
    /\ queue = <<>>
    /\ done = FALSE
    /\ worker = "select" /\ loop = "select"
    /\ current = None
    /\ attempt = 0
    /\ fate = [e \in Events |-> "none"]
    /\ received = [e \in Events |-> 0]

NotifierTypeOK ==
    /\ queue \in Seq(Events) /\ Len(queue) <= BufferSize
    /\ done \in BOOLEAN
    /\ worker \in {"select", "drain", "send", "backoff", "exited"}
    /\ loop \in {"select", "drain"}
    /\ current \in Events \union {None}
    /\ attempt \in 0..MaxRetries
    /\ fate \in [Events -> Fate]
    /\ received \in [Events -> 0..(MaxRetries + 1)]

-----------------------------------------------------------------------------
(* Mutant: when the queue is full the oldest event makes room. *)
NotifyDroppingOldest(e) ==
    /\ queue' = Append(IF Len(queue) < BufferSize THEN queue ELSE Tail(queue), e)
    /\ fate' = [fate EXCEPT ![e] = "queued"]
    /\ UNCHANGED <<done, worker, loop, current, attempt, received>>

(* Mutant: a queue without a bound. *)
NotifyUnbounded(e) ==
    /\ queue' = Append(queue, e)
    /\ fate' = [fate EXCEPT ![e] = "queued"]
    /\ UNCHANGED <<done, worker, loop, current, attempt, received>>

(* Notify: queue the event, or drop it when the queue is full. *)
Notify(e) ==
    /\ IF Len(queue) < BufferSize
       THEN queue' = Append(queue, e) /\ fate' = [fate EXCEPT ![e] = "queued"]
       ELSE fate' = [fate EXCEPT ![e] = "dropped"] /\ UNCHANGED queue
    /\ UNCHANGED <<done, worker, loop, current, attempt, received>>

(* The first half of Stop; the second waits for the worker's exit. *)
CloseDone ==
    /\ done' = TRUE
    /\ UNCHANGED <<queue, worker, loop, current, attempt, fate, received>>

(* Either loop takes the next event.  With done closed and an event queued,  *)
(* the first loop's select may still choose the event.                       *)
Take ==
    /\ worker = loop
    /\ queue # <<>>
    /\ current' = Head(queue)
    /\ queue' = Tail(queue)
    /\ attempt' = 0
    /\ worker' = "send"
    /\ fate' = [fate EXCEPT ![Head(queue)] = "sending"]
    /\ UNCHANGED <<done, loop, received>>

(* Mutant: told to stop, the worker returns without draining. *)
SeeDoneAndExit ==
    /\ worker = "select" /\ done
    /\ worker' = "exited"
    /\ UNCHANGED <<queue, done, loop, current, attempt, fate, received>>

SeeDone ==
    /\ worker = "select" /\ done
    /\ worker' = "drain" /\ loop' = "drain"
    /\ UNCHANGED <<queue, done, current, attempt, fate, received>>

(* The drain loop finds the queue empty. *)
Exit ==
    /\ worker = "drain" /\ queue = <<>>
    /\ worker' = "exited"
    /\ UNCHANGED <<queue, done, loop, current, attempt, fate, received>>

(* sendWithRetry returns. *)
Settle(f) ==
    /\ fate' = [fate EXCEPT ![current] = f]
    /\ current' = None
    /\ worker' = loop
    /\ UNCHANGED <<queue, done, loop, attempt>>

(* The endpoint gets the event and answers below 500: no retry. *)
SendAnswered ==
    /\ worker = "send"
    /\ received' = [received EXCEPT ![current] = @ + 1]
    /\ Settle("answered")

(* Mutant: one retry too many. *)
SendFailedOnceMore ==
    /\ worker = "send"
    /\ \E got \in {0, 1} : received' = [received EXCEPT ![current] = @ + got]
    /\ \/ /\ attempt > MaxRetries
          /\ Settle("exhausted")
       \/ /\ attempt <= MaxRetries
          /\ attempt' = attempt + 1
          /\ worker' = "backoff"
          /\ UNCHANGED <<queue, done, loop, current, fate>>

(* Mutant: the attempts are not counted. *)
SendFailedUncounted ==
    /\ worker = "send"
    /\ worker' = "backoff"
    /\ UNCHANGED <<queue, done, loop, current, attempt, fate, received>>

(* A transport error or a 5xx; the endpoint may have got the event.  The     *)
(* worker backs off, or gives up after the last retry.                       *)
SendFailed ==
    /\ worker = "send"
    /\ \E got \in {0, 1} : received' = [received EXCEPT ![current] = @ + got]
    /\ \/ /\ attempt = MaxRetries
          /\ Settle("exhausted")
       \/ /\ attempt < MaxRetries
          /\ attempt' = attempt + 1
          /\ worker' = "backoff"
          /\ UNCHANGED <<queue, done, loop, current, fate>>

(* The select on the backoff timer and done. *)
RetryAfterBackoff ==
    /\ worker = "backoff"
    /\ worker' = "send"
    /\ UNCHANGED <<queue, done, loop, current, attempt, fate, received>>

GiveUp ==
    /\ worker = "backoff" /\ done
    /\ Settle("abandoned")
    /\ UNCHANGED received

WorkerStep ==
    \/ Take \/ SeeDone \/ Exit
    \/ SendAnswered \/ SendFailed \/ RetryAfterBackoff \/ GiveUp
=============================================================================
