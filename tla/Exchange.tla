------------------------------ MODULE Exchange ------------------------------
(* One request through internal/handler with what it carries: the body and   *)
(* its prompt, the turns sent to Gemini, the reply and its reads, the events *)
(* written to the client.  It composes Translate and Streaming with the      *)
(* steps of the three handlers, and implements Gateway, which knows of a     *)
(* text only whether it breaks a rule.  The middlewares have let the request *)
(* pass and the circuit is closed: both are Gateway's.                       *)
EXTENDS Streaming

CONSTANTS
    Bodies,         \* the request bodies
    Objects,        \* the objects generateContent answers with
    StreamedReplies \* the bodies streamGenerateContent answers with

ASSUME ExchangeAssumption ==
    /\ Bodies \subseteq Body /\ Objects \subseteq Chunk
    /\ \A b \in Bodies : b.messages = <<>> \/ b.contents = <<>>
    /\ \A s \in StreamedReplies :
        s.lines \in Seq(Chunk) /\ s.cuts \subseteq 1..2 * Len(s.lines) - 1

VARIABLES
    mode,           \* cfg.ResponseMode, as normalizeMode leaves it
    demo,           \* cfg.DemoMode: a DemoClient stands in for Vertex AI
    pc,             \* the step the handler is at
    format,         \* "openai", "anthropic" or "native"
    stream,         \* whether the request asks for a stream
    prompt,         \* the prompt extracted from the body
    sent,           \* the turns sent to Gemini
    reply,          \* what came back
    offset,         \* how far a streamed reply has been read
    writer,         \* the translating loop and the events written to the client
    passed,         \* how many of these events have left net/http's buffer
    screened,       \* the text of the reply the chain was given
    logged,         \* the actions logged
    answer          \* what the client was answered, as Gateway names it

vars == <<mode, demo, pc, format, stream, prompt, sent, reply, offset, writer,
          passed, screened, logged, answer>>

Native == format = "native"

NoReply == [kind |-> "none", lines |-> <<>>, cuts |-> {}]

Init ==
    /\ mode \in {"strict", "fast", "audit", "unknown"}
    /\ demo \in BOOLEAN
    /\ pc = "idle" /\ format = "none" /\ stream = FALSE
    /\ prompt = <<>> /\ sent = <<>>
    /\ reply = NoReply /\ offset = 0
    /\ writer = NewStream /\ passed = 0
    /\ screened = <<>> /\ logged = {} /\ answer = "none"

config == <<mode, demo>>
request == <<format, stream, prompt>>
response == <<reply, offset, writer, passed, screened>>

-----------------------------------------------------------------------------
(* The route tells the format and, for a native request, whether it streams. *)
Arrive ==
    /\ pc = "idle"
    /\ pc' = "auth"
    /\ format' \in {"openai", "anthropic", "native"}
    /\ stream' \in IF format' = "native" THEN BOOLEAN ELSE {FALSE}
    /\ UNCHANGED <<config, prompt, sent, response, logged, answer>>

(* The handler answers and logs no action. *)
Respond(a) == pc' = "done" /\ answer' = a

Goto(step) == pc' = step /\ UNCHANGED answer

(* The action is logged; the answer is written by the step after. *)
Log(action, step) == logged' = logged \union {action} /\ Goto(step)

Authenticate ==
    /\ pc = "auth"
    /\ Respond("unauthorised") \/ Goto(IF Native THEN "policy" ELSE "parse")
    /\ UNCHANGED <<config, request, sent, response, logged>>

CheckPolicy ==
    /\ pc = "policy"
    /\ \/ Log("DENY_POLICY", "refuse")
       \/ Goto(IF Native THEN "parse" ELSE "screen") /\ UNCHANGED logged
    /\ UNCHANGED <<config, request, sent, response>>

(* The prompt a handler extracts from a body, and the turns it makes of it.  *)
(* A native body is translated if it is Anthropic's and passed on if not.    *)
PromptOf(body) ==
    IF format = "openai" \/ (Native /\ ~body.anthropicVersion)
    THEN ExtractOpenAIPrompt(body) ELSE ExtractAnthropicPrompt(body)

TurnsOf(body) ==
    CASE format = "openai" -> TranslateOpenAI(body)
      [] Native /\ ~body.anthropicVersion ->
            LET texts == FlattenSeq(body.contents)
            IN  [i \in DOMAIN texts |-> Turn("user", texts[i])]
      [] OTHER -> TranslateToGemini(body.messages, body.system)

(* parseBody.  The turns are a function of the body and are sent only after  *)
(* the screening; that they are built here keeps the body out of the state.  *)
ParseBody ==
    /\ pc = "parse"
    /\ \/ Respond("bad_request") /\ UNCHANGED <<request, sent>>
       \/ \E body \in Bodies :
            /\ stream' \in IF Native THEN {stream} ELSE BOOLEAN
            /\ prompt' = PromptOf(body)
            /\ sent' = TurnsOf(body)
            /\ Goto(IF Native THEN "screen" ELSE "policy")
            /\ UNCHANGED format
    /\ UNCHANGED <<config, response, logged>>

(* What a screening of a text can say: the regex inspector blocks what       *)
(* breaks its rule, a remote inspector may block anything.                   *)
Verdicts(text) == IF Breaks(text) THEN {TRUE} ELSE BOOLEAN

(* chain.ScreenPrompt, and the switch on the mode, which has no default. *)
ScreenPrompt ==
    /\ pc = "screen"
    /\ \E block \in Verdicts(prompt) :
        \/ block /\ Log("BLOCK_PROMPT", "refuse")
        \/ /\ ~block
           /\ IF mode = "unknown" /\ ~Native THEN Respond("empty") ELSE Goto("call")
           /\ UNCHANGED logged
    /\ UNCHANGED <<config, request, sent, response>>

CallVertex ==
    /\ pc = "call"
    /\ Goto("wait")
    /\ UNCHANGED <<config, request, sent, response, logged>>

-----------------------------------------------------------------------------
(* Mutant: strict mode screens only what does not stream. *)
ScreensUnstreamed == ~stream /\ (Native \/ mode = "strict")

(* Whether the reply is read as a whole and screened before it is written,   *)
(* and whether it is copied from CallStream's body read by read.             *)
Screens == IF Native THEN ~stream ELSE mode = "strict"

Copies == stream /\ ~Screens

(* DemoClient's replies: one object, or two lines which one write puts into  *)
(* a pipe and one read takes out.                                            *)
DemoReply == [parts |-> <<<<"word">>>>, finish |-> "STOP"]
DemoStream == [kind |-> "stream", cuts |-> {},
               lines |-> <<[parts |-> <<<<"word">>>>, finish |-> "none"], DemoReply>>]

(* What the call can return: a stream; or an object, the prompt feedback of  *)
(* a Model Armor block, or bytes that are no JSON.                           *)
Answers ==
    CASE Copies /\ demo -> {DemoStream}
      [] Copies /\ ~demo ->
            {[kind |-> "stream", lines |-> s.lines, cuts |-> s.cuts] : s \in StreamedReplies}
      [] OTHER ->
            {[kind |-> "json", lines |-> <<r>>, cuts |-> {}] :
                r \in IF demo THEN {DemoReply} ELSE Objects}
            \union IF demo THEN {}
                   ELSE {[kind |-> k, lines |-> <<Silence>>, cuts |-> {}] :
                            k \in {"armor_block", "garbled"}}

Receive ==
    /\ pc = "wait"
    /\ \/ ~demo /\ Respond("error") /\ UNCHANGED reply
       \/ /\ reply' \in Answers
          /\ IF reply'.kind = "garbled" THEN Respond("error")
             ELSE Goto(IF Screens THEN "judge" ELSE "release")
    /\ UNCHANGED <<config, request, sent, offset, writer, passed, screened, logged>>

(* The text of a reply that was read as a whole. *)
ReplyText == ExtractGeminiText(reply.lines[1])

(* A reply without a text is not screened. *)
ReplyVerdicts(text) == IF text = <<>> THEN {FALSE} ELSE Verdicts(text)

(* The reply of a screened request. *)
ScreenReply ==
    /\ pc = "judge"
    /\ \/ /\ reply.kind = "armor_block"
          /\ Log("MODEL_ARMOR_BLOCK", "refuse") /\ UNCHANGED screened
       \/ /\ reply.kind = "json"
          /\ screened' = ReplyText
          /\ \E block \in ReplyVerdicts(ReplyText) :
                IF block THEN Log("BLOCK_RESPONSE", "refuse") ELSE Log("ALLOW", "write")
    /\ UNCHANGED <<config, request, sent, reply, offset, writer, passed>>

(* A reply that is not screened first is logged as allowed. *)
Release ==
    /\ pc = "release"
    /\ Log("ALLOW", IF Copies THEN "read" ELSE "write")
    /\ UNCHANGED <<config, request, sent, response>>

(* The refusal is written; of a Model Armor block a native client is passed  *)
(* Gemini's own.                                                             *)
Refuse ==
    /\ pc = "refuse"
    /\ writer' = [writer EXCEPT !.out = <<Event("error", <<>>)>>]
    /\ Respond(IF "DENY_POLICY" \in logged THEN "denied" ELSE "blocked")
    /\ UNCHANGED <<config, request, sent, reply, offset, passed, screened, logged>>

(* In audit mode a chat handler screens what it has delivered. *)
Deliver ==
    /\ answer' = "delivered"
    /\ pc' = IF mode = "audit" /\ ~Native THEN "audit" ELSE "done"

(* A reply that was read as a whole is written: as it came to a native       *)
(* client, as one object or, asked for a stream, as the events of one.       *)
WholeReply ==
    LET chunk == reply.lines[1]
    IN  CASE Native -> <<Event("raw", FlattenSeq(chunk.parts))>>
          [] format = "anthropic" /\ stream -> WriteAnthropicSSE(TranslateGeminiToAnthropic(chunk))
          [] format = "anthropic" /\ ~stream ->
                <<Event("message", TranslateGeminiToAnthropic(chunk).text)>>
          [] format = "openai" /\ stream -> WriteOpenAISSE(TranslateGeminiToOpenAI(chunk))
          [] OTHER -> <<Event("message", TranslateGeminiToOpenAI(chunk).text)>>

Write ==
    /\ pc = "write"
    /\ writer' = [writer EXCEPT !.out = WholeReply, !.accumulated = ReplyText]
    /\ Deliver
    /\ UNCHANGED <<config, request, sent, reply, offset, passed, screened, logged>>

(* One read of a streamed body and the lines translated from it.  A native   *)
(* client is written the bytes themselves.  A client that cannot be written  *)
(* to any more changes nothing for the loop, or ends a native one.           *)
Read ==
    /\ pc = "read" /\ offset < End(reply)
    /\ offset' = ReadEnd(reply, offset)
    /\ writer' = IF Native THEN writer
                 ELSE IF format = "anthropic"
                      THEN StreamGeminiAsAnthropic(writer, LinesOf(reply, offset, offset'))
                      ELSE StreamGeminiAsOpenAI(writer, LinesOf(reply, offset, offset'))
    /\ UNCHANGED <<config, pc, request, sent, reply, passed, screened, logged, answer>>

(* The read that ends the loop: the end of the body or a broken connection,  *)
(* which the loop does not tell apart.                                       *)
EndStream ==
    /\ pc = "read" /\ offset = End(reply)
    /\ Deliver
    /\ UNCHANGED <<config, request, sent, response, logged>>

AuditResponse ==
    /\ pc = "audit"
    /\ screened' = writer.accumulated
    /\ \E block \in ReplyVerdicts(writer.accumulated) :
        IF block THEN Log("BLOCK_RESPONSE_AUDIT", "done")
                 ELSE Goto("done") /\ UNCHANGED logged
    /\ UNCHANGED <<config, request, sent, reply, offset, writer, passed>>

(* net/http passes on what has been written, when its buffer is full or the  *)
(* handler has returned.  Nothing else makes it: the translating loops do    *)
(* not flush, and the native one finds no Flusher in the statusWriter.       *)
PassOn ==
    /\ passed < Len(writer.out)
    /\ passed' = Len(writer.out)
    /\ UNCHANGED <<config, pc, request, sent, reply, offset, writer, screened, logged, answer>>

Next ==
    \/ Arrive \/ Authenticate \/ ParseBody \/ CheckPolicy \/ ScreenPrompt \/ CallVertex
    \/ Receive \/ ScreenReply \/ Release \/ Refuse \/ Write \/ Read \/ EndStream
    \/ AuditResponse \/ PassOn

Spec == Init /\ [][Next]_vars


-----------------------------------------------------------------------------
Step == {"idle", "auth", "parse", "policy", "screen", "call", "wait", "judge", "release",
         "refuse", "write", "read", "audit", "done"}

Notified == {"DENY_POLICY", "BLOCK_PROMPT", "BLOCK_RESPONSE", "BLOCK_RESPONSE_AUDIT"}

TypeOK ==
    /\ mode \in {"strict", "fast", "audit", "unknown"} /\ demo \in BOOLEAN
    /\ pc \in Step
    /\ format \in {"none", "openai", "anthropic", "native"} /\ stream \in BOOLEAN
    /\ prompt \in Seq(Piece)
    /\ sent \in Seq([role : {"user", "model"}, text : Seq(Piece)])
    /\ reply \in [kind : {"none", "stream", "json", "armor_block", "garbled"},
                  lines : Seq(Chunk), cuts : SUBSET Nat]
    /\ offset \in 0..End(reply)
    /\ writer \in [open : BOOLEAN, accumulated : Seq(Piece), out : Seq(Written)]
    /\ passed \in 0..Len(writer.out)
    /\ screened \in Seq(Piece)
    /\ logged \subseteq Notified \union {"MODEL_ARMOR_BLOCK", "ALLOW"}
    /\ answer \in {"none", "unauthorised", "bad_request", "denied", "blocked", "error",
                   "empty", "delivered"}

(* What the messages or contents of a request say is screened, in all three  *)
(* formats and however the content is written: when Gemini is called, every  *)
(* text it is sent occurs in the prompt the chain passed.  The exceptions    *)
(* are the acknowledgement of a system text and, of an Anthropic body, the   *)
(* system field (translate.go:24-112, openai.go:50-74, vertex.go:78-97).     *)
Occurs(text, whole) ==
    \E i \in 0..Len(whole) - Len(text) : SubSeq(whole, i + 1, i + Len(text)) = text

Acknowledged == Len(sent) >= 2 /\ sent[2] = Turn("model", <<"word">>)

ScreenedIsSent ==
    pc \in {"wait", "judge", "release", "read", "write"} =>
        /\ ~Breaks(prompt)
        /\ \A i \in DOMAIN sent :
            \/ Occurs(sent[i].text, prompt)
            \/ Acknowledged /\ (i = 2 \/ (i = 1 /\ format # "openai"))

(* The first n lines, those silenced that a read ends in; and the lines that *)
(* have arrived whole so far and say something.                              *)
Whole(n) == [k \in 1..n |-> IF 2 * k - 1 \in reply.cuts THEN Silence ELSE reply.lines[k]]

Arrived == Said(Whole(offset \div 2))

(* A translated stream loses text only where a read ends inside a line: at   *)
(* every offset the client has the texts of the lines that arrived whole,    *)
(* once and in order (streaming.go:80-218).                                  *)
LostOnlyAtCuts ==
    reply.kind = "stream" /\ ~Native => ClientText(writer.out) = TextOf(Arrived)

(* The events a client is streamed form whole messages: each is opened       *)
(* before its first text and closed before the next opens, a finish reason   *)
(* in the middle included; a message is left open exactly when the last line *)
(* that said something had no finish reason (streaming.go:20-218).           *)
WellFormedStream ==
    LET out == writer.out IN
    /\ out # <<>> => Head(out).event \in {"message_start", "role", "message", "raw", "error"}
    /\ InOrder(out)
    /\ reply.kind = "stream" /\ ~Native /\ Arrived # <<>> =>
            (Closed(out) <=> Last(Arrived).finish # "none")
    /\ answer = "delivered" /\ Screens /\ stream => Closed(out)

(* What is screened is what the client has: in strict mode a chat client is  *)
(* delivered exactly the text the chain passed, in audit mode the audit      *)
(* screens exactly the text that was delivered, however the reply was        *)
(* translated or read (openai.go:104-185, anthropic.go:90-171).              *)
ScreenedIsDelivered ==
    pc = "done" /\ answer = "delivered" /\ ~Native /\ mode \in {"strict", "audit"}
        => ClientText(writer.out) = screened

(* docs/design.md:123: "Chunks stream to the client in real time, but the    *)
(* service accumulates the full text."  A line that a read ends in is        *)
(* neither streamed nor accumulated (streaming.go:94).                       *)
AccumulatesFullText ==
    pc = "done" /\ answer = "delivered" /\ ~Native /\ mode = "audit"
        => writer.accumulated = TextOf(reply.lines)

(* docs/design.md:123: "The response has already been sent, so the audit is  *)
(* informational only."  What was written may be in net/http's buffer until  *)
(* the audit is over (handler.go:28-36, openai.go:155-185).                  *)
SentBeforeAudit == pc = "audit" => passed = Len(writer.out)

-----------------------------------------------------------------------------
(* The request as Gateway sees it: a text is the class of what it says, the  *)
(* reply the class of what of it reaches the client.                         *)
Class(text) == IF Breaks(text) THEN "local" ELSE "clean"

ReachingText == TextOf(IF Native THEN reply.lines ELSE Whole(Len(reply.lines)))

GatewayReply ==
    IF reply.kind \in {"json", "stream"} THEN Class(ReachingText) ELSE reply.kind

Parsed ==
    /\ pc \notin {"idle", "auth", "parse"} /\ answer \notin {"unauthorised", "bad_request"}
    /\ Native => pc # "policy" /\ "DENY_POLICY" \notin logged

GatewayRequest ==
    [format |-> CASE format = "none" -> "none" [] Native -> "native" [] OTHER -> "chat",
     stream |-> stream,
     prompt |-> IF Parsed THEN Class(prompt) ELSE "none"]

GatewayPlan ==
    CASE "ALLOW" \in logged -> "delivered"
      [] "DENY_POLICY" \in logged -> "denied"
      [] logged = {} -> "none"
      [] OTHER -> "blocked"

One == {"request"}

AbstractGateway == INSTANCE Gateway WITH
    Requests <- One, QueueCap <- 1, Limited <- TRUE,
    pc <- [r \in One |-> IF pc \in {"refuse", "read"} THEN "write" ELSE pc],
    req <- [r \in One |-> GatewayRequest],
    reply <- [r \in One |-> GatewayReply],
    logged <- [r \in One |-> logged],
    plan <- [r \in One |-> GatewayPlan],
    answer <- [r \in One |-> answer],
    queued <- IF logged \intersect Notified = {} THEN 0 ELSE 1,
    gate <- "closed"

(* A request with all it carries takes the steps Gateway says it takes, so   *)
(* Gateway's abstraction - a text is clean or it breaks a rule - decides     *)
(* every branch as the texts themselves do.                                  *)
ImplementsGateway == AbstractGateway!Safety
=============================================================================
