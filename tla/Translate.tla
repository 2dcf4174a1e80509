------------------------------ MODULE Translate ------------------------------
(* internal/translate: what a handler extracts from a request to screen it,  *)
(* what it sends to Gemini for it, and what it takes out of the reply.  The  *)
(* functions are pure, and so are these operators.  A text is a sequence of  *)
(* pieces; the empty sequence is the empty string and also a field that is   *)
(* absent, as StrVal makes it.                                               *)
EXTENDS Integers, Sequences, SequencesExt

(* A word, the halves of a secret that a rule of the regex inspector blocks  *)
(* when they meet, and the space strings.Join puts between texts.            *)
Piece == {"word", "head", "tail", "gap"}

Breaks(text) == \E i \in 1..Len(text) - 1 : text[i] = "head" /\ text[i + 1] = "tail"

(* strings.Join(texts, " ") *)
Spaced(texts) ==
    FlattenSeq([i \in DOMAIN texts |-> IF i = 1 THEN texts[i] ELSE <<"gap">> \o texts[i]])

(* The elements of a sequence that pass a test, in order. *)
Those(s, Test(_)) ==
    FlattenSeq([i \in DOMAIN s |-> IF Test(s[i]) THEN <<s[i]>> ELSE <<>>])

-----------------------------------------------------------------------------
(* A message has a role and a content: one string, or a list of blocks, of   *)
(* which strings and blocks of type text carry text and others (an image, a  *)
(* tool result) do not.                                                      *)
Message == [role : {"system", "user", "assistant"}, form : {"string", "list"},
            blocks : Seq([text : BOOLEAN, says : Seq(Piece)])]

Saying(role, text) ==
    [role |-> role, form |-> "string", blocks |-> <<[text |-> TRUE, says |-> text]>>]

(* A request's body: the messages and the system field of the chat formats,  *)
(* the contents of Gemini's, each the texts of its parts, and whether        *)
(* anthropic_version is set.  No body has both messages and contents.        *)
Body == [messages : Seq(Message), system : Seq(Piece), contents : Seq(Seq(Seq(Piece))),
         anthropicVersion : BOOLEAN]

ExtractMessageText(message) ==
    LET texts == Those(message.blocks, LAMBDA block : block.text)
    IN  Spaced([i \in DOMAIN texts |-> texts[i].says])

(* Mutant: content blocks are not looked into. *)
ExtractStringPrompt(body) ==
    LET strings == Those(body.messages, LAMBDA message : message.form = "string")
    IN  Spaced([i \in DOMAIN strings |-> ExtractMessageText(strings[i])])

ExtractAnthropicPrompt(body) ==
    Spaced([i \in DOMAIN body.messages |-> ExtractMessageText(body.messages[i])])

ExtractOpenAIPrompt(body) ==
    IF body.messages # <<>> THEN ExtractAnthropicPrompt(body)
    ELSE Spaced(FlattenSeq(body.contents))

-----------------------------------------------------------------------------
(* A turn of Gemini's contents. *)
Turn(role, text) == [role |-> role, text |-> text]

(* The system text becomes a turn of its own, which the model acknowledges;  *)
(* a message without text is left out.                                       *)
TranslateToGemini(messages, system) ==
    LET turns == [i \in DOMAIN messages |->
                    Turn(IF messages[i].role = "assistant" THEN "model" ELSE "user",
                         ExtractMessageText(messages[i]))]
    IN  (IF system = <<>> THEN <<>> ELSE <<Turn("user", system), Turn("model", <<"word">>)>>)
        \o Those(turns, LAMBDA turn : turn.text # <<>>)

(* ServeOpenAI: the last system message is the system text, if its content   *)
(* is a string; the other messages are translated.                           *)
SystemMessage(messages) ==
    LET systems == Those(messages, LAMBDA message : message.role = "system")
    IN  IF systems # <<>> /\ Last(systems).form = "string"
        THEN ExtractMessageText(Last(systems)) ELSE <<>>

TranslateOpenAI(body) ==
    TranslateToGemini(Those(body.messages, LAMBDA message : message.role # "system"),
                      SystemMessage(body.messages))

-----------------------------------------------------------------------------
(* One object Gemini answers with: the texts of the parts of its first       *)
(* candidate (none without a candidate) and the candidate's finish reason.   *)
Finish == {"none", "STOP", "MAX_TOKENS", "SAFETY"}

Chunk == [parts : Seq(Seq(Piece)), finish : Finish]

(* The first part's text. *)
ExtractGeminiText(chunk) == IF chunk.parts = <<>> THEN <<>> ELSE Head(chunk.parts)

AnthropicStop(finish) ==
    CASE finish = "MAX_TOKENS" -> "max_tokens" [] finish = "SAFETY" -> "stop_sequence"
      [] OTHER -> "end_turn"

(* Mutant: a finish reason of Gemini's is passed on as it is. *)
OpenAIStopUntranslated(finish) == finish

OpenAIStop(finish) ==
    CASE finish = "MAX_TOKENS" -> "length" [] finish = "SAFETY" -> "content_filter"
      [] OTHER -> "stop"

(* What the client is answered: the text and why it ends. *)
TranslateGeminiToAnthropic(chunk) ==
    [text |-> ExtractGeminiText(chunk), stop |-> AnthropicStop(chunk.finish)]

TranslateGeminiToOpenAI(chunk) ==
    [text |-> ExtractGeminiText(chunk), stop |-> OpenAIStop(chunk.finish)]
=============================================================================
