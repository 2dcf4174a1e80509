---------------------------- MODULE GatewayProofs ----------------------------
(* Proofs about Gateway, for any number of requests and any queue: the types *)
(* are right, no prompt is sent and no reply is released unscreened, and the *)
(* log agrees with the client.  What a handler may rely on at each of its    *)
(* steps is Local; no request's step disturbs another's.                     *)
EXTENDS Gateway, TLAPS

(* The steps before a handler has logged or settled anything. *)
Undecided == {"auth", "parse", "policy", "screen", "call", "wait", "judge", "release"}

(* What has been decided is not logged before it is decided, and not sent    *)
(* before it is logged.                                                      *)
NothingEarly(r) ==
    /\ pc[r] \in Undecided => logged[r] = {} /\ answer[r] = "none"
    /\ pc[r] = "write" => answer[r] = "none"

(* A handler knows its request's format, and the prompt once it is parsed. *)
RequestKnown(r) ==
    /\ pc[r] \in Undecided \union {"write", "audit"} => req[r].format # "none"
    /\ pc[r] = "screen" \/ (pc[r] = "policy" /\ req[r].format = "chat")
        => req[r].prompt \in Text

PromptScreened(r) ==
    (pc[r] \in {"call", "wait", "judge", "release"} \/ "ALLOW" \in logged[r])
        => req[r].prompt = "clean"

(* Only what the mode does not ask to be screened is released unscreened. *)
Screened(r) ==
    \/ req[r].format = "chat" /\ mode = "strict"
    \/ req[r].format = "native" /\ ~req[r].stream

Delivering(r) == answer[r] = "delivered" \/ (pc[r] = "write" /\ plan[r] = "delivered")

ReplyScreened(r) ==
    /\ pc[r] = "release" => ~Screened(r)
    /\ pc[r] = "judge" => reply[r] \in {"local", "clean", "armor_block"}
    /\ Delivering(r) /\ Screened(r) => reply[r] = "clean"

(* What is logged when the answer is written, and afterwards. *)
Refused(r) == \E a \in Refusals : logged[r] = {a}

LogMatches(r) ==
    /\ pc[r] = "write" => \/ plan[r] = "delivered" /\ logged[r] = {"ALLOW"}
                          \/ plan[r] \in {"blocked", "denied"} /\ Refused(r)
    /\ pc[r] = "audit" => answer[r] = "delivered" /\ logged[r] = {"ALLOW"}
    /\ pc[r] \in {"idle", "done"} =>
        /\ answer[r] = "delivered" => logged[r] \in {{"ALLOW"}, {"ALLOW", "BLOCK_RESPONSE_AUDIT"}}
        /\ answer[r] \in {"blocked", "denied"} => Refused(r)
        /\ answer[r] \notin {"delivered", "blocked", "denied"} => logged[r] = {}

Local(r) ==
    /\ NothingEarly(r)
    /\ RequestKnown(r)
    /\ PromptScreened(r)
    /\ ReplyScreened(r)
    /\ LogMatches(r)

IInv == TypeOK /\ \A r \in Requests : Local(r)

-----------------------------------------------------------------------------
(* A step of one handler leaves what the others carry alone. *)
Same(q) ==
    /\ mode' = mode
    /\ pc'[q] = pc[q] /\ req'[q] = req[q] /\ reply'[q] = reply[q]
    /\ logged'[q] = logged[q] /\ plan'[q] = plan[q] /\ answer'[q] = answer[q]

LEMMA SameKeepsLocal ==
    ASSUME NEW q \in Requests, Local(q), Same(q) PROVE Local(q)'
BY DEF Local, Same, NothingEarly, RequestKnown, PromptScreened, ReplyScreened,
       LogMatches, Screened, Delivering, Refused

LEMMA LogTypes ==
    ASSUME TypeOK, NEW r \in Requests, NEW a \in Action, Log(r, a)
    PROVE  logged' \in [Requests -> SUBSET Action] /\ queued' \in 0..QueueCap
<1>1. logged[r] \union {a} \in SUBSET Action
  BY DEF TypeOK
<1>. QED BY <1>1, GatewayAssumption DEF TypeOK, Log

LEMMA LogThenWriteTypes ==
    ASSUME TypeOK, NEW r \in Requests, NEW a \in Action, NEW x \in Answer,
           LogThenWrite(r, a, x)
    PROVE  /\ logged' \in [Requests -> SUBSET Action] /\ queued' \in 0..QueueCap
           /\ plan' \in [Requests -> Answer] /\ answer' \in [Requests -> Answer]
           /\ pc' \in [Requests -> Step]
<1>1. Log(r, a)
  BY DEF LogThenWrite
<1>2. plan' \in [Requests -> Answer] /\ answer' \in [Requests -> Answer]
      /\ pc' \in [Requests -> Step]
  BY DEF LogThenWrite, Goto, TypeOK, Step
<1>. QED BY <1>1, <1>2, LogTypes

LEMMA CarryingType ==
    ASSUME NEW f \in {"none", "chat", "native"}, NEW s \in BOOLEAN,
           NEW t \in Text \union {"none"}
    PROVE  Carrying(f, s, t) \in Request
BY DEF Carrying, Request

(* The types after each action. *)
LEMMA TypesKept ==
    ASSUME TypeOK, Next PROVE TypeOK'
<1>. USE GatewayAssumption
     DEF TypeOK, Mode, Step, Text, Reply, Action, Answer
<1>1. ASSUME NEW r \in Requests, NEW c \in Credential, Arrive(r, c) PROVE TypeOK'
  <2>1. req' \in [Requests -> Request]
    <3>1. NoRequest \in Request
      BY CarryingType DEF NoRequest
    <3>2. \A f \in {"chat", "native"}, s \in BOOLEAN : Carrying(f, s, "none") \in Request
      BY CarryingType
    <3>3. \E q \in Request : req' = [req EXCEPT ![r] = q]
      BY <1>1, <3>1, <3>2 DEF Arrive
    <3>. QED BY <3>3
  <2>2. answer' \in [Requests -> Answer] /\ pc' \in [Requests -> Step]
    BY <1>1 DEF Arrive, Respond
  <2>. QED BY <1>1, <2>1, <2>2 DEF Arrive
<1>2. ASSUME NEW r \in Requests, Authenticate(r) PROVE TypeOK'
  BY <1>2 DEF Authenticate, Respond, Goto
<1>3. ASSUME NEW r \in Requests, ParseBody(r) PROVE TypeOK'
  <2>1. CASE Respond(r, "bad_request") /\ UNCHANGED req
    BY <1>3, <2>1 DEF ParseBody, Respond
  <2>2. ASSUME NEW t \in Text, NEW s \in BOOLEAN,
               req' = [req EXCEPT ![r] = Carrying(req[r].format, s, t)],
               Goto(r, IF req[r].format = "chat" THEN "policy" ELSE "screen")
        PROVE TypeOK'
    <3>1. req[r].format \in {"none", "chat", "native"}
      BY DEF Request
    <3>2. req' \in [Requests -> Request]
      BY <2>2, <3>1, CarryingType
    <3>. QED BY <1>3, <2>2, <3>2 DEF ParseBody, Goto
  <2>. QED BY <1>3, <2>1, <2>2 DEF ParseBody
<1>4. ASSUME NEW r \in Requests, CheckPolicy(r) PROVE TypeOK'
  <2>1. CASE LogThenWrite(r, "DENY_POLICY", "denied")
    BY <1>4, <2>1, LogThenWriteTypes DEF CheckPolicy
  <2>2. CASE ~LogThenWrite(r, "DENY_POLICY", "denied")
    BY <1>4, <2>2 DEF CheckPolicy, Goto
  <2>. QED BY <2>1, <2>2
<1>5. ASSUME NEW r \in Requests, ScreenPrompt(r) PROVE TypeOK'
  <2>1. CASE LogThenWrite(r, "BLOCK_PROMPT", "blocked")
    BY <1>5, <2>1, LogThenWriteTypes DEF ScreenPrompt
  <2>2. CASE ~LogThenWrite(r, "BLOCK_PROMPT", "blocked")
    BY <1>5, <2>2 DEF ScreenPrompt, Goto, Respond
  <2>. QED BY <2>1, <2>2
<1>6. ASSUME NEW r \in Requests, CallVertex(r) PROVE TypeOK'
  BY <1>6 DEF CallVertex, Goto, Respond, Gate!Pass
<1>7. ASSUME NEW r \in Requests, Receive(r) PROVE TypeOK'
  BY <1>7 DEF Receive, Goto, Respond, Gate!Return
<1>8. ASSUME NEW r \in Requests, ScreenReply(r) PROVE TypeOK'
  BY <1>8, LogThenWriteTypes DEF ScreenReply
<1>9. ASSUME NEW r \in Requests, Release(r) PROVE TypeOK'
  BY <1>9, LogThenWriteTypes DEF Release
<1>10. ASSUME NEW r \in Requests, Write(r) PROVE TypeOK'
  BY <1>10 DEF Write
<1>11. ASSUME NEW r \in Requests, AuditResponse(r) PROVE TypeOK'
  BY <1>11, LogTypes DEF AuditResponse, Goto
<1>12. CASE TakeEvent
  BY <1>12 DEF TakeEvent
<1>. QED BY <1>1, <1>2, <1>3, <1>4, <1>5, <1>6, <1>7, <1>8, <1>9, <1>10, <1>11, <1>12
         DEF Next, Serve

-----------------------------------------------------------------------------
LEMMA CarryingFields ==
    ASSUME NEW f, NEW s, NEW t
    PROVE  /\ Carrying(f, s, t).format = f
           /\ Carrying(f, s, t).stream = s
           /\ Carrying(f, s, t).prompt = t
BY DEF Carrying

LEMMA BlockedCases ==
    ASSUME NEW t, NEW b \in Blocked(t)
    PROVE  b \in BOOLEAN /\ (t = "local" => b) /\ (b => t \in Text)
<1>1. CASE t = "local"
  BY <1>1 DEF Blocked, Text
<1>2. CASE t = "clean"
  BY <1>2 DEF Blocked, Text
<1>3. CASE t # "local" /\ t # "clean"
  BY <1>3 DEF Blocked
<1>. QED BY <1>1, <1>2, <1>3

(* A handler's step leaves it with what it may rely on at the next.          *)
LEMMA ServeKeepsLocal ==
    ASSUME IInv, NEW r \in Requests, Serve(r) PROVE Local(r)'
<1>. USE DEF IInv, TypeOK, Local, NothingEarly, RequestKnown, PromptScreened,
             ReplyScreened, LogMatches, Screened, Delivering, Refused, Refusals,
             Undecided, Goto, Respond
<1>1. CASE Authenticate(r)
  BY <1>1 DEF Authenticate
<1>2. CASE ParseBody(r)
  <2>1. CASE Respond(r, "bad_request") /\ UNCHANGED req
    BY <1>2, <2>1 DEF ParseBody
  <2>2. CASE ~(Respond(r, "bad_request") /\ UNCHANGED req)
    BY <1>2, <2>2, CarryingFields DEF ParseBody
  <2>. QED BY <2>1, <2>2
<1>3. CASE CheckPolicy(r)
  BY <1>3 DEF CheckPolicy, LogThenWrite, Log
<1>4. CASE ScreenPrompt(r)
  <2>1. \/ LogThenWrite(r, "BLOCK_PROMPT", "blocked")
        \/ /\ req[r].prompt # "local"
           /\ Respond(r, "empty") \/ Goto(r, "call")
           /\ UNCHANGED <<logged, queued, plan>>
    BY <1>4, BlockedCases DEF ScreenPrompt
  <2>2. UNCHANGED <<mode, req, reply, gate>> /\ pc[r] = "screen"
    BY <1>4 DEF ScreenPrompt
  <2>3. CASE LogThenWrite(r, "BLOCK_PROMPT", "blocked")
    BY <2>2, <2>3 DEF LogThenWrite, Log
  <2>4. CASE ~LogThenWrite(r, "BLOCK_PROMPT", "blocked")
    <3>1. req[r].prompt = "clean"
      BY <2>1, <2>2, <2>4 DEF Text
    <3>. QED BY <2>1, <2>2, <2>4, <3>1
  <2>. QED BY <2>3, <2>4
<1>5. CASE CallVertex(r)
  BY <1>5 DEF CallVertex
<1>6. CASE Receive(r)
  BY <1>6 DEF Receive, Screens, Streams, Reply, Text, Request
<1>7. CASE ScreenReply(r)
  <2>1. \/ LogThenWrite(r, "MODEL_ARMOR_BLOCK", "blocked")
        \/ LogThenWrite(r, "BLOCK_RESPONSE", "blocked")
        \/ reply[r] = "clean" /\ LogThenWrite(r, "ALLOW", "delivered")
    BY <1>7, BlockedCases DEF ScreenReply
  <2>2. UNCHANGED <<mode, req, reply, gate>> /\ pc[r] = "judge"
    BY <1>7 DEF ScreenReply
  <2>. QED BY <2>1, <2>2 DEF LogThenWrite, Log
<1>8. CASE Release(r)
  BY <1>8 DEF Release, LogThenWrite, Log
<1>9. CASE Write(r)
  BY <1>9 DEF Write
<1>10. CASE AuditResponse(r)
  BY <1>10 DEF AuditResponse, Log
<1>. QED BY <1>1, <1>2, <1>3, <1>4, <1>5, <1>6, <1>7, <1>8, <1>9, <1>10 DEF Serve

LEMMA ArriveGivesLocal ==
    ASSUME IInv, NEW r \in Requests, NEW c \in Credential, Arrive(r, c)
    PROVE  Local(r)'
<1>. USE DEF IInv, TypeOK, Local, NothingEarly, RequestKnown, PromptScreened,
             ReplyScreened, LogMatches, Screened, Delivering, Undecided
<1>1. logged'[r] = {} /\ reply'[r] = "none" /\ plan'[r] = "none"
  BY DEF Arrive
<1>2. \/ pc'[r] = "done" /\ answer'[r] \in {"local", "limited", "aborted"}
      \/ /\ pc'[r] = "auth" /\ answer'[r] = "none"
         /\ req'[r].format \in {"chat", "native"}
  BY CarryingFields DEF Arrive, Respond
<1>. QED BY <1>1, <1>2

LEMMA OthersUndisturbed ==
    ASSUME TypeOK, NEW r \in Requests, NEW q \in Requests \ {r},
           Serve(r) \/ \E c \in Credential : Arrive(r, c)
    PROVE  Same(q)
<1>. USE DEF TypeOK, Same, Goto, Respond
<1>1. ASSUME NEW c \in Credential, Arrive(r, c) PROVE Same(q)
  BY <1>1 DEF Arrive
<1>2. CASE Authenticate(r) \/ ParseBody(r)
  BY <1>2 DEF Authenticate, ParseBody
<1>3. CASE CheckPolicy(r) \/ ScreenPrompt(r)
  BY <1>3 DEF CheckPolicy, ScreenPrompt, LogThenWrite, Log
<1>4. CASE CallVertex(r) \/ Receive(r)
  BY <1>4 DEF CallVertex, Receive
<1>5. CASE ScreenReply(r) \/ Release(r)
  BY <1>5 DEF ScreenReply, Release, LogThenWrite, Log
<1>6. CASE Write(r) \/ AuditResponse(r)
  BY <1>6 DEF Write, AuditResponse, Log
<1>. QED BY <1>1, <1>2, <1>3, <1>4, <1>5, <1>6 DEF Serve

LEMMA GatewayInvariant == Safety => []IInv
<1>1. Init => IInv
  <2>1. Init => TypeOK
    <3>1. NoRequest \in Request
      BY CarryingType DEF NoRequest
    <3>. QED BY <3>1, GatewayAssumption
             DEF Init, TypeOK, Mode, Step, Answer, Gate!GateInit
  <2>2. ASSUME Init, NEW r \in Requests PROVE Local(r)
    BY <2>2 DEF Init, Local, NothingEarly, RequestKnown, PromptScreened, ReplyScreened,
                LogMatches, Delivering, Undecided
  <2>. QED BY <2>1, <2>2 DEF IInv
<1>2. ASSUME IInv, Next PROVE IInv'
  <2>1. TypeOK'
    BY <1>2, TypesKept DEF IInv
  <2>2. ASSUME NEW r \in Requests, Serve(r) \/ \E c \in Credential : Arrive(r, c),
               NEW q \in Requests
        PROVE  Local(q)'
    <3>1. CASE q = r
      BY <1>2, <2>2, <3>1, ServeKeepsLocal, ArriveGivesLocal
    <3>2. CASE q # r
      <4>1. Same(q)
        BY <1>2, <2>2, <3>2, OthersUndisturbed DEF IInv
      <4>. QED BY <1>2, <4>1, SameKeepsLocal DEF IInv
    <3>. QED BY <3>1, <3>2
  <2>3. ASSUME TakeEvent, NEW q \in Requests PROVE Local(q)'
    <3>1. Same(q)
      BY <2>3 DEF TakeEvent, Same
    <3>. QED BY <1>2, <3>1, SameKeepsLocal DEF IInv
  <2>. QED BY <1>2, <2>1, <2>2, <2>3 DEF Next, IInv
<1>3. ASSUME IInv, UNCHANGED vars PROVE IInv'
  BY <1>3 DEF IInv, vars, TypeOK, Local, NothingEarly, RequestKnown, PromptScreened,
              ReplyScreened, LogMatches, Screened, Delivering, Refused
<1>. QED BY <1>1, <1>2, <1>3, PTL DEF Safety

-----------------------------------------------------------------------------
(* Types: in particular the webhook queue never exceeds its capacity. *)
THEOREM TypeCorrect == Safety => []TypeOK
<1>1. IInv => TypeOK
  BY DEF IInv
<1>. QED BY <1>1, GatewayInvariant, PTL

(* No prompt that breaks a local rule is sent to Vertex AI (openai.go:22-84, *)
(* anthropic.go:22-70, vertex.go:45-140).                                    *)
THEOREM PromptsAreScreened == Safety => []PromptsScreenedBeforeCall
<1>1. IInv => PromptsScreenedBeforeCall
  BY DEF IInv, Local, PromptScreened, PromptsScreenedBeforeCall
<1>. QED BY <1>1, GatewayInvariant, PTL

(* No reply that the mode screens is sent unless it passed (openai.go:86-124,*)
(* anthropic.go:72-110, vertex.go:128-167).                                  *)
THEOREM RepliesAreScreened == Safety => []RepliesScreenedBeforeSent
<1>1. IInv => RepliesScreenedBeforeSent
  BY DEF IInv, Local, ReplyScreened, Screened, Delivering, RepliesScreenedBeforeSent
<1>. QED BY <1>1, GatewayInvariant, PTL

(* What the log says of a request is what its client was told                *)
(* (mode.go:20-58).                                                          *)
THEOREM LogAgrees == Safety => []LogAgreesWithAnswer
<1>1. IInv => LogAgreesWithAnswer
  BY DEF IInv, TypeOK, Step, Local, NothingEarly, LogMatches, Refused, Undecided,
         LogAgreesWithAnswer
<1>. QED BY <1>1, GatewayInvariant, PTL
=============================================================================
