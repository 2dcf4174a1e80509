------------------------------ MODULE Streaming ------------------------------
(* internal/streaming: a reply of Gemini as the events of the two formats    *)
(* that stream.  Gemini's streamed body is a sequence of lines with one      *)
(* object each, which arrives in reads that need not end where a line does.  *)
(* An offset into the body is counted in half lines: line k lies between     *)
(* 2k - 2 and 2k, and 2k - 1 is inside it.                                   *)
EXTENDS Translate

(* An event and what it carries: the pieces of a text, or a stop reason. *)
Event(kind, data) == [event |-> kind, data |-> data]

(* The events that carry text the client is to show. *)
TextEvents == {"content_block_delta", "role", "content", "message"}

ClientText(out) ==
    FlattenSeq([i \in DOMAIN out |-> IF out[i].event \in TextEvents THEN out[i].data ELSE <<>>])

Reasons == {"end_turn", "max_tokens", "stop_sequence", "stop", "length", "content_filter"}

(* The events written: a reason for those that end a message, a text for     *)
(* those that can carry one, nothing for the others.                         *)
Written ==
    [event : {"message_delta", "finish"}, data : Seq(Reasons)]
        \union [event : TextEvents \union {"raw"}, data : Seq(Piece)]
        \union [event : {"message_start", "content_block_start", "content_block_stop",
                         "message_stop", "[DONE]", "error"}, data : {<<>>}]

(* Which event may follow which, and what ends a message. *)
Follows == {
    <<"message_start", "content_block_start">>,
    <<"content_block_start", "content_block_delta">>,
    <<"content_block_start", "content_block_stop">>,
    <<"content_block_delta", "content_block_delta">>,
    <<"content_block_delta", "content_block_stop">>,
    <<"content_block_stop", "message_delta">>, <<"message_delta", "message_stop">>,
    <<"message_stop", "message_start">>,
    <<"role", "content">>, <<"role", "finish">>, <<"content", "content">>,
    <<"content", "finish">>, <<"finish", "[DONE]">>, <<"[DONE]", "role">>}

InOrder(out) == \A i \in 1..Len(out) - 1 : <<out[i].event, out[i + 1].event>> \in Follows

Closed(out) == out # <<>> /\ Last(out).event \in {"message_stop", "[DONE]"}

-----------------------------------------------------------------------------
(* A complete reply as a stream. *)
WriteAnthropicSSE(msg) ==
    <<Event("message_start", <<>>),
      Event("content_block_start", <<>>), Event("content_block_delta", msg.text),
      Event("content_block_stop", <<>>),
      Event("message_delta", <<msg.stop>>), Event("message_stop", <<>>)>>

WriteOpenAISSE(msg) ==
    <<Event("role", msg.text), Event("finish", <<msg.stop>>), Event("[DONE]", <<>>)>>

-----------------------------------------------------------------------------
(* The state of a translating loop: whether a message is open, the text      *)
(* accumulated for the audit, and the events written.                        *)
NewStream == [open |-> FALSE, accumulated |-> <<>>, out |-> <<>>]

(* A line that says nothing: blank, a bracket, no JSON - such as what a read *)
(* boundary leaves of a line - or an object without a candidate.             *)
Silence == [parts |-> <<>>, finish |-> "none"]

TextOf(lines) == FlattenSeq([i \in DOMAIN lines |-> ExtractGeminiText(lines[i])])

Silent(line) == ExtractGeminiText(line) = <<>> /\ line.finish = "none"

Said(lines) == Those(lines, LAMBDA line : ~Silent(line))

(* Mutant: the loop does not note that it closed the message. *)
LeftOpen(line) == TRUE

(* Whether a message is open after a line. *)
OpenAfter(line) == line.finish = "none"

(* Mutant: the text of a line that finishes is delivered and not accumulated. *)
AccumulatedBeforeFinish(s, line) ==
    IF line.finish = "none" THEN s.accumulated \o ExtractGeminiText(line) ELSE s.accumulated

Accumulated(s, line) == s.accumulated \o ExtractGeminiText(line)

(* Mutant: a line either carries text or finishes. *)
DeltaBeforeFinish(line, event) == IF line.finish = "none" THEN <<event>> ELSE <<>>

(* The event for the text of a line, if it has one. *)
Delta(line, event) == IF ExtractGeminiText(line) = <<>> THEN <<>> ELSE <<event>>

(* One line through a loop that opens a message before its first text or     *)
(* finish, passes on the text, and closes the message at a finish.           *)
StreamLine(s, line, opening, delta, closing) ==
    IF Silent(line) THEN s
    ELSE [open |-> OpenAfter(line),
          accumulated |-> Accumulated(s, line),
          out |-> s.out \o (IF s.open THEN <<>> ELSE opening) \o Delta(line, delta)
                        \o (IF line.finish = "none" THEN <<>> ELSE closing)]

LineAsAnthropic(s, line) ==
    StreamLine(s, line,
        <<Event("message_start", <<>>), Event("content_block_start", <<>>)>>,
        Event("content_block_delta", ExtractGeminiText(line)),
        <<Event("content_block_stop", <<>>),
          Event("message_delta", <<AnthropicStop(line.finish)>>), Event("message_stop", <<>>)>>)

LineAsOpenAI(s, line) ==
    StreamLine(s, line,
        <<Event("role", <<>>)>>,
        Event("content", ExtractGeminiText(line)),
        <<Event("finish", <<OpenAIStop(line.finish)>>), Event("[DONE]", <<>>)>>)

(* The lines of one read, in order. *)
StreamGeminiAsAnthropic(s, lines) ==
    LET after[n \in 0..Len(lines)] ==
            IF n = 0 THEN s ELSE LineAsAnthropic(after[n - 1], lines[n])
    IN  after[Len(lines)]

StreamGeminiAsOpenAI(s, lines) ==
    LET after[n \in 0..Len(lines)] ==
            IF n = 0 THEN s ELSE LineAsOpenAI(after[n - 1], lines[n])
    IN  after[Len(lines)]

-----------------------------------------------------------------------------
(* A body has lines, and cuts: the offsets at which a read ends before the   *)
(* body does.                                                                *)
End(body) == 2 * Len(body.lines)

(* The end of the read that starts at an offset before the end. *)
ReadEnd(body, offset) ==
    CHOOSE next \in {cut \in body.cuts \union {End(body)} : cut > offset} :
        \A cut \in body.cuts : cut > offset => next <= cut

(* The lines a read holds from beginning to end.  Each read is split into    *)
(* lines on its own, so of a line that does not lie in one read only         *)
(* fragments are seen, and they are silent.                                  *)
LinesOf(body, from, to) == SubSeq(body.lines, (from + 1) \div 2 + 1, to \div 2)
=============================================================================
