------------------------------- MODULE Gateway -------------------------------
(* The life of a request in internal/handler, for concurrent requests that   *)
(* share the response mode, the rate limiter, the circuit breaker and the    *)
(* webhook's queue.  ServeOpenAI and ServeAnthropic take the same steps and  *)
(* are the format "chat"; handleVertexCompat is "native".  A screening is    *)
(* atomic here (Screening, which InspectorChain implements) and so is the    *)
(* breaker's gate (CallGate, which VertexClient implements).  A client that  *)
(* goes away only makes remote calls fail, which they may do anyway.         *)
EXTENDS Integers, FiniteSets

CONSTANTS
    Requests,       \* the goroutines net/http serves requests with
    QueueCap,       \* the webhook queue's capacity
    Limited         \* whether RATE_LIMIT is above 0

ASSUME GatewayAssumption == QueueCap \in Nat \ {0} /\ Limited \in BOOLEAN

VARIABLES
    mode,           \* cfg.ResponseMode, as normalizeMode leaves it
    pc,             \* pc[r]: the step r's handler is at
    req,            \* req[r]: what r carries, as far as it has been read
    reply,          \* reply[r]: what Vertex AI answered
    logged,         \* logged[r]: the actions logged for r
    plan,           \* plan[r]: the answer r's handler has settled on
    answer,         \* answer[r]: what r's client was sent
    queued,         \* events in the webhook queue
    gate            \* the circuit breaker, as CallGate describes it

vars == <<mode, pc, req, reply, logged, plan, answer, queued, gate>>

(* Modes normalizeMode lets through; any other string behaves as "unknown". *)
Mode == {"strict", "fast", "audit", "unknown"}

(* A text breaks a rule of the local regex inspector or it does not. *)
Text == {"local", "clean"}

(* The body of a 200 from Vertex AI: a text (an empty one is not screened    *)
(* and so passes for clean), the prompt-feedback block of its Model Armor    *)
(* integration, or bytes that are not JSON.                                  *)
Reply == Text \union {"armor_block", "garbled"}

(* How the caller presents itself: a bearer JWT with an email claim, or an   *)
(* opaque token or an API key, which name no email before authentication.    *)
Credential == {"jwt", "other"}

Action == {"DENY_POLICY", "BLOCK_PROMPT", "BLOCK_RESPONSE", "BLOCK_RESPONSE_AUDIT",
           "MODEL_ARMOR_BLOCK", "ALLOW"}

Answer == {"none", "local", "limited", "aborted", "unauthorised", "bad_request",
           "denied", "blocked", "error", "empty", "delivered"}

Waiting == {r \in Requests : pc[r] = "wait"}

Gate == INSTANCE CallGate WITH Callers <- Requests, inFlight <- Waiting

Request == [format : {"none", "chat", "native"}, stream : BOOLEAN,
            prompt : Text \union {"none"}]

Carrying(format, stream, prompt) == [format |-> format, stream |-> stream, prompt |-> prompt]

NoRequest == Carrying("none", FALSE, "none")

Init ==
    /\ mode \in Mode
    /\ pc = [r \in Requests |-> "idle"]
    /\ req = [r \in Requests |-> NoRequest]
    /\ reply = [r \in Requests |-> "none"]
    /\ logged = [r \in Requests |-> {}]
    /\ plan = [r \in Requests |-> "none"]
    /\ answer = [r \in Requests |-> "none"]
    /\ queued = 0
    /\ Gate!GateInit

-----------------------------------------------------------------------------
Goto(r, step) ==
    /\ pc' = [pc EXCEPT ![r] = step]
    /\ UNCHANGED answer

(* The handler writes its answer and returns without logging an action. *)
Respond(r, a) ==
    /\ pc' = [pc EXCEPT ![r] = "done"]
    /\ answer' = [answer EXCEPT ![r] = a]

(* The verdicts a screening of t can come to.  A text no local rule blocks   *)
(* may be blocked by a remote inspector, which passes when it cannot reach   *)
(* its backend; what is no text is not screened.                             *)
Blocked(t) == CASE t = "local" -> {TRUE} [] t = "clean" -> BOOLEAN [] OTHER -> {FALSE}

(* The actions whose name starts with BLOCK or DENY. *)
Notified == {"DENY_POLICY", "BLOCK_PROMPT", "BLOCK_RESPONSE", "BLOCK_RESPONSE_AUDIT"}

(* Mutant: a queue without a bound. *)
LogUnbounded(r, action) ==
    /\ logged' = [logged EXCEPT ![r] = @ \union {action}]
    /\ queued' = IF action \in Notified THEN queued + 1 ELSE queued

(* Mutant: Notify waits for room in the queue. *)
LogWaiting(r, action) ==
    /\ logged' = [logged EXCEPT ![r] = @ \union {action}]
    /\ action \in Notified => queued < QueueCap
    /\ queued' = IF action \in Notified THEN queued + 1 ELSE queued

(* logAction: the log line and, for a block or a denial, Notify, which       *)
(* queues the event or drops it when the queue is full.                      *)
Log(r, action) ==
    /\ logged' = [logged EXCEPT ![r] = @ \union {action}]
    /\ queued' = IF action \in Notified /\ queued < QueueCap THEN queued + 1 ELSE queued

(* Log the action, then write a. *)
LogThenWrite(r, action, a) ==
    /\ Log(r, action)
    /\ plan' = [plan EXCEPT ![r] = a]
    /\ Goto(r, "write")

-----------------------------------------------------------------------------
(* A new request, and the middlewares, which run before any handler.         *)
(* corsMiddleware answers a preflight itself, as the server answers its own  *)
(* endpoints (health, models, ...) and unknown paths.  rateLimitMiddleware has a key *)
(* only for a bearer JWT with an email claim and may refuse it; with rate    *)
(* limiting off, main hands the server a nil *Limiter, which the nil test of *)
(* the interface does not see, and Allow panics.  Any other credential       *)
(* passes.  The path tells the format and, for a native request, whether it  *)
(* streams.                                                                  *)
Arrive(r, cred) ==
    /\ pc[r] \in {"idle", "done"}
    /\ \/ /\ \/ Respond(r, "local")
             \/ cred = "jwt" /\ Respond(r, IF Limited THEN "limited" ELSE "aborted")
          /\ req' = [req EXCEPT ![r] = NoRequest]
       \/ /\ cred = "jwt" => Limited
          /\ pc' = [pc EXCEPT ![r] = "auth"]
          /\ answer' = [answer EXCEPT ![r] = "none"]
          /\ \E f \in {"chat", "native"}, s \in BOOLEAN :
                /\ f = "chat" => ~s
                /\ req' = [req EXCEPT ![r] = Carrying(f, s, "none")]
    /\ reply' = [reply EXCEPT ![r] = "none"]
    /\ logged' = [logged EXCEPT ![r] = {}]
    /\ plan' = [plan EXCEPT ![r] = "none"]
    /\ UNCHANGED <<mode, queued, gate>>

(* The method check, Authenticate and CheckUserAgent.  A chat handler reads  *)
(* the body next; the native one asks the policy first.                      *)
Authenticate(r) ==
    /\ pc[r] = "auth"
    /\ \/ Respond(r, "unauthorised")
       \/ Goto(r, IF req[r].format = "chat" THEN "parse" ELSE "policy")
    /\ UNCHANGED <<mode, req, reply, logged, plan, queued, gate>>

(* parseBody and the extraction of the prompt. *)
ParseBody(r) ==
    /\ pc[r] = "parse"
    /\ \/ Respond(r, "bad_request") /\ UNCHANGED req
       \/ /\ \E t \in Text, s \in BOOLEAN :
                /\ req[r].format = "native" => s = req[r].stream
                /\ req' = [req EXCEPT ![r] = Carrying(req[r].format, s, t)]
          /\ Goto(r, IF req[r].format = "chat" THEN "policy" ELSE "screen")
    /\ UNCHANGED <<mode, reply, logged, plan, queued, gate>>

CheckPolicy(r) ==
    /\ pc[r] = "policy"
    /\ \/ LogThenWrite(r, "DENY_POLICY", "denied")
       \/ /\ Goto(r, IF req[r].format = "chat" THEN "screen" ELSE "parse")
          /\ UNCHANGED <<logged, queued, plan>>
    /\ UNCHANGED <<mode, req, reply, gate>>

(* Mutant: the block is logged, but the return after it is missing. *)
ScreenPromptFallingThrough(r) ==
    /\ pc[r] = "screen"
    /\ \E b \in Blocked(req[r].prompt) :
        IF b THEN Log(r, "BLOCK_PROMPT") ELSE UNCHANGED <<logged, queued>>
    /\ Goto(r, "call")
    /\ UNCHANGED <<mode, req, reply, plan, gate>>

(* chain.ScreenPrompt.  A chat handler then dispatches on the mode and, for  *)
(* a mode it does not know, returns with nothing written.                    *)
ScreenPrompt(r) ==
    /\ pc[r] = "screen"
    /\ \E b \in Blocked(req[r].prompt) :
        \/ b /\ LogThenWrite(r, "BLOCK_PROMPT", "blocked")
        \/ /\ ~b
           /\ IF req[r].format = "chat" /\ mode = "unknown"
              THEN Respond(r, "empty") ELSE Goto(r, "call")
           /\ UNCHANGED <<logged, queued, plan>>
    /\ UNCHANGED <<mode, req, reply, gate>>

(* The Vertex AI call is admitted, or refused by the open circuit. *)
CallVertex(r) ==
    /\ pc[r] = "call"
    /\ \/ Goto(r, "wait") /\ Gate!Pass(r)
       \/ gate = "open" /\ Respond(r, "error") /\ UNCHANGED gate
    /\ UNCHANGED <<mode, req, reply, logged, plan, queued>>

(* Mutant: strict mode screens only what does not stream. *)
ScreensUnstreamed(r) ==
    (req[r].format = "chat" => mode = "strict") /\ ~req[r].stream

(* Whether the reply is read and screened before anything is written: in     *)
(* strict mode for a chat request, and for a native one unless it streams -  *)
(* whatever the mode.                                                        *)
Screens(r) == IF req[r].format = "chat" THEN mode = "strict" ELSE ~req[r].stream

(* Whether CallStream's body is copied to the client as it arrives. *)
Streams(r) == req[r].stream /\ ~Screens(r)

(* The call returns: an error, or a body.  A body that is to be read and is  *)
(* not JSON becomes an error as well.                                        *)
Receive(r) ==
    /\ pc[r] = "wait"
    /\ \E b \in Reply :
        \/ Respond(r, "error") /\ Gate!Return(r) /\ UNCHANGED reply
        \/ /\ reply' = [reply EXCEPT ![r] = b]
           /\ IF b = "garbled" /\ ~Streams(r) THEN Respond(r, "error")
              ELSE Goto(r, IF Screens(r) THEN "judge" ELSE "release")
           /\ Gate!Return(r)
    /\ UNCHANGED <<mode, req, logged, plan, queued>>

(* Mutant: the block is logged and the reply is delivered after all. *)
ScreenReplyDelivering(r) ==
    /\ pc[r] = "judge"
    /\ \/ /\ reply[r] = "armor_block"
          /\ LogThenWrite(r, "MODEL_ARMOR_BLOCK", "blocked")
       \/ /\ reply[r] # "armor_block"
          /\ \E b \in Blocked(reply[r]) :
                LogThenWrite(r, IF b THEN "BLOCK_RESPONSE" ELSE "ALLOW", "delivered")
    /\ UNCHANGED <<mode, req, reply, gate>>

(* The reply of a screened request: the Model Armor block is passed on (to a *)
(* native client as it is), a text is screened.                              *)
ScreenReply(r) ==
    /\ pc[r] = "judge"
    /\ \/ /\ reply[r] = "armor_block"
          /\ LogThenWrite(r, "MODEL_ARMOR_BLOCK", "blocked")
       \/ /\ reply[r] # "armor_block"
          /\ \E b \in Blocked(reply[r]) :
                IF b THEN LogThenWrite(r, "BLOCK_RESPONSE", "blocked")
                     ELSE LogThenWrite(r, "ALLOW", "delivered")
    /\ UNCHANGED <<mode, req, reply, gate>>

(* A reply that is not screened first: ALLOW, ALLOW_FAST or ALLOW_AUDIT. *)
Release(r) ==
    /\ pc[r] = "release"
    /\ LogThenWrite(r, "ALLOW", "delivered")
    /\ UNCHANGED <<mode, req, reply, gate>>

(* Mutant: the streaming branch returns before the audit. *)
WriteAuditingUnstreamed(r) ==
    /\ pc[r] = "write"
    /\ answer' = [answer EXCEPT ![r] = plan[r]]
    /\ pc' = [pc EXCEPT ![r] =
                IF /\ mode = "audit" /\ req[r].format = "chat"
                   /\ plan[r] = "delivered" /\ ~req[r].stream
                THEN "audit" ELSE "done"]
    /\ UNCHANGED <<mode, req, reply, logged, plan, queued, gate>>

(* The answer is written; in audit mode a chat handler then screens what it  *)
(* has sent.                                                                 *)
Write(r) ==
    /\ pc[r] = "write"
    /\ answer' = [answer EXCEPT ![r] = plan[r]]
    /\ pc' = [pc EXCEPT ![r] =
                IF mode = "audit" /\ req[r].format = "chat" /\ plan[r] = "delivered"
                THEN "audit" ELSE "done"]
    /\ UNCHANGED <<mode, req, reply, logged, plan, queued, gate>>

(* auditResponse *)
AuditResponse(r) ==
    /\ pc[r] = "audit"
    /\ \E b \in Blocked(reply[r]) :
        IF b THEN Log(r, "BLOCK_RESPONSE_AUDIT") ELSE UNCHANGED <<logged, queued>>
    /\ Goto(r, "done")
    /\ UNCHANGED <<mode, req, reply, plan, gate>>

(* The webhook worker takes an event. *)
TakeEvent ==
    /\ queued > 0
    /\ queued' = queued - 1
    /\ UNCHANGED <<mode, pc, req, reply, logged, plan, answer, gate>>

Serve(r) ==
    \/ Authenticate(r) \/ ParseBody(r) \/ CheckPolicy(r)
    \/ ScreenPrompt(r) \/ CallVertex(r) \/ Receive(r) \/ ScreenReply(r)
    \/ Release(r) \/ Write(r) \/ AuditResponse(r)

Next ==
    \/ \E r \in Requests, c \in Credential : Arrive(r, c)
    \/ \E r \in Requests : Serve(r)
    \/ TakeEvent

(* A handler that can run runs: its remote calls are bounded by timeouts. *)
Fairness == \A r \in Requests : WF_vars(Serve(r))

Safety == Init /\ [][Next]_vars

Spec == Safety /\ Fairness

-----------------------------------------------------------------------------
Step == {"idle", "auth", "parse", "policy", "screen", "call", "wait", "judge",
         "release", "write", "audit", "done"}

TypeOK ==
    /\ mode \in Mode
    /\ pc \in [Requests -> Step]
    /\ req \in [Requests -> Request]
    /\ reply \in [Requests -> Reply \union {"none"}]
    /\ logged \in [Requests -> SUBSET Action]
    /\ plan \in [Requests -> Answer]
    /\ answer \in [Requests -> Answer]
    /\ queued \in 0..QueueCap
    /\ gate \in {"closed", "open", "half-open"}

(* No prompt that breaks a local rule is sent to Vertex AI, in any mode, in  *)
(* either format, and whichever of policy and body the handler looks at      *)
(* first (openai.go:22-84, anthropic.go:22-70, vertex.go:45-140).            *)
PromptsScreenedBeforeCall ==
    \A r \in Requests :
        (pc[r] \in {"call", "wait", "judge", "release"} \/ "ALLOW" \in logged[r])
            => req[r].prompt = "clean"

(* In strict mode a chat client, streaming or not, and in every mode a native *)
(* client that does not stream, is never sent a reply that breaks a local     *)
(* rule, that Vertex AI blocked, or that could not be read                    *)
(* (openai.go:86-124, anthropic.go:72-110, vertex.go:128-167).                *)
RepliesScreenedBeforeSent ==
    \A r \in Requests :
        /\ answer[r] = "delivered"
        /\ \/ req[r].format = "chat" /\ mode = "strict"
           \/ req[r].format = "native" /\ ~req[r].stream
        => reply[r] = "clean"

(* The log and the client agree: what was delivered was logged as allowed,   *)
(* what was refused has one refusal in the log and no allowance, and a       *)
(* delivered reply is logged as blocked only by the audit that follows it    *)
(* (mode.go:20-58).                                                          *)
Refusals == {"DENY_POLICY", "BLOCK_PROMPT", "BLOCK_RESPONSE", "MODEL_ARMOR_BLOCK"}

LogAgreesWithAnswer ==
    \A r \in Requests :
        /\ answer[r] = "delivered" => logged[r] \in {{"ALLOW"}, {"ALLOW", "BLOCK_RESPONSE_AUDIT"}}
        /\ answer[r] \in {"blocked", "denied"} => \E a \in Refusals : logged[r] = {a}
        /\ answer[r] \notin {"none", "delivered", "blocked", "denied"} => logged[r] = {}

(* A request that reached a handler is answered, also when its mode is not   *)
(* one the handlers know: no path through the handlers is left without a     *)
(* step (openai.go:76-83, anthropic.go:62-69).                               *)
EveryRequestAnswered ==
    \A r \in Requests : pc[r] = "auth" ~> answer[r] # "none"

(* In audit mode, a reply that was delivered and breaks a local rule is      *)
(* reported, although nothing waits for the report (mode.go:20-27).          *)
AuditReportsViolation ==
    \A r \in Requests :
        mode = "audit" /\ answer[r] = "delivered" /\ req[r].format = "chat"
            /\ reply[r] = "local"
        ~> "BLOCK_RESPONSE_AUDIT" \in logged[r]

(* docs/configuration.md:72: "Set to 0 to disable rate limiting."  With it   *)
(* at 0 a request whose token names an email is dropped by a panic           *)
(* (main.go:92-106, handler.go:97-103).                                      *)
NoRequestAborted == \A r \in Requests : answer[r] # "aborted"
=============================================================================
