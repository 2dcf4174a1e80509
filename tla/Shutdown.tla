------------------------------ MODULE Shutdown ------------------------------
(* main's shutdown around the webhook: handlers that still run and raise     *)
(* events, the Notifier, and main, which on a signal stops the policy        *)
(* engine, then the webhook, and only then asks the server to drain its      *)
(* requests.                                                                 *)
EXTENDS Notifier

VARIABLES
    main,           \* "serving", "stop_webhook", "wait_webhook", "drain_server",
                    \* "exited", or "failed" when the process died instead
    early           \* history: the events queued before Stop was called

vars == <<queue, done, worker, loop, current, attempt, fate, received,
          main, early>>

Init ==
    /\ NewNotifier
    /\ main = "serving"
    /\ early = {}

-----------------------------------------------------------------------------
Running == main \notin {"exited", "failed"}

(* A request whose handler will block or deny it is accepted; the server     *)
(* accepts until srv.Shutdown closes its listeners.                          *)
Accept(e) ==
    /\ main \in {"serving", "stop_webhook", "wait_webhook"}
    /\ fate[e] = "none"
    /\ fate' = [fate EXCEPT ![e] = "raised"]
    /\ UNCHANGED <<queue, done, worker, loop, current, attempt, received, main, early>>

(* The handler logs its block and calls Notify. *)
Block(e) ==
    /\ Running
    /\ fate[e] = "raised"
    /\ Notify(e)
    /\ early' = IF ~done /\ fate'[e] = "queued" THEN early \union {e} ELSE early
    /\ UNCHANGED main

(* SIGTERM or SIGINT; policyEngine.Stop, which closes channels and returns. *)
Signal ==
    /\ main = "serving"
    /\ main' = "stop_webhook"
    /\ UNCHANGED <<notifierVars, early>>

(* Mutant: Stop waits for the worker without closing done. *)
StopWebhookUnannounced ==
    /\ main = "stop_webhook"
    /\ main' = "wait_webhook"
    /\ UNCHANGED <<notifierVars, early>>

(* wh.Stop: close(done), wg.Wait() *)
StopWebhook ==
    /\ main = "stop_webhook"
    /\ CloseDone
    /\ main' = "wait_webhook"
    /\ UNCHANGED early

WebhookStopped ==
    /\ main = "wait_webhook" /\ worker = "exited"
    /\ main' = "drain_server"
    /\ UNCHANGED <<notifierVars, early>>

(* srv.Shutdown returns when the open requests have ended, or after its      *)
(* thirty seconds; main returns and the process ends.                        *)
ExitProcess ==
    /\ main = "drain_server"
    /\ main' = "exited"
    /\ UNCHANGED <<notifierVars, early>>

(* ListenAndServe fails and its goroutine calls os.Exit, or an inspector     *)
(* panics: the process dies wherever main and the worker are.                *)
Die ==
    /\ Running
    /\ main' = "failed"
    /\ UNCHANGED <<notifierVars, early>>

Worker == Running /\ WorkerStep /\ UNCHANGED <<main, early>>

Main == StopWebhook \/ WebhookStopped \/ ExitProcess

Next ==
    \/ \E e \in Events : Accept(e) \/ Block(e)
    \/ Signal \/ Die \/ Main
    \/ Worker

(* The worker and main run when they can: a post is bounded by its timeout,  *)
(* a backoff by maxBackoff.  A signal need not come.                         *)
Fairness == WF_vars(Worker) /\ WF_vars(Main)

Safety == Init /\ [][Next]_vars

Spec == Safety /\ Fairness

-----------------------------------------------------------------------------
TypeOK ==
    /\ NotifierTypeOK
    /\ main \in {"serving", "stop_webhook", "wait_webhook", "drain_server", "exited", "failed"}
    /\ early \subseteq Events

(* Every event is in one place: queued exactly while it is in the queue,     *)
(* once, and being sent exactly while the worker holds it; so none is lost   *)
(* between the channel and the worker, and none is sent twice over           *)
(* (webhook.go:63-92).                                                       *)
EventInOnePlace ==
    /\ \A e \in Events :
        /\ fate[e] = "queued" <=> \E i \in 1..Len(queue) : queue[i] = e
        /\ fate[e] = "sending" <=> current = e
    /\ \A i, j \in 1..Len(queue) : queue[i] = queue[j] => i = j

(* Stop returns only after every event queued before it was called has been  *)
(* taken and settled: the drain loop leaves none behind (webhook.go:58-92).  *)
StopSettlesEarlyEvents ==
    worker = "exited" => \A e \in early : fate[e] \in Settled

(* The endpoint gets an event at most once more than the retries allow, has  *)
(* got every event that counts as answered, and misses one for want of       *)
(* retries only after the last or in a shutdown (webhook.go:94-110).         *)
BoundedDelivery ==
    \A e \in Events :
        /\ received[e] <= MaxRetries + 1
        /\ fate[e] = "answered" => received[e] >= 1
        /\ fate[e] = "abandoned" => done
        /\ fate[e] \in {"none", "raised", "queued", "dropped"} => received[e] = 0

(* A queued event is settled, whatever the endpoint does - the retries are   *)
(* bounded - unless the process dies first (webhook.go:75-110).              *)
QueuedIsSettled ==
    \A e \in Events :
        fate[e] = "queued" /\ ~done ~> fate[e] \in Settled \/ main = "failed"

(* Stop returns, and with it main exits: with the inflow of events bounded,  *)
(* the drain loop meets an empty queue (webhook.go:58-92, main.go:125-138).  *)
StopReturns == main = "stop_webhook" ~> ~Running
=============================================================================
