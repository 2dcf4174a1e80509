--------------------------- MODULE ExchangeProofs ---------------------------
(* Proofs about Exchange, for any bodies, any objects and any streamed       *)
(* replies, cut anywhere: the types are right, what is sent was screened,    *)
(* what is shown is what was screened, streams are whole messages without    *)
(* losses but at cuts, and a request takes the steps Gateway says it takes.  *)
EXTENDS Exchange, TextProofs

(* What is proved of a body when it is parsed. *)
LEMMA PromptHolds ==
    ASSUME NEW body \in Bodies
    PROVE  /\ PromptOf(body) \in Seq(Piece)
           /\ \A m \in 1..Len(body.messages) :
                Holds(Piece, PromptOf(body), ExtractMessageText(body.messages[m]))
<1>1. body \in Body
  BY ExchangeAssumption
<1>2. CASE body.messages # <<>>
  <2>1. PromptOf(body) = ExtractAnthropicPrompt(body)
    BY <1>2 DEF PromptOf, ExtractOpenAIPrompt
  <2>. QED BY <1>1, <2>1, MessagesHeld
<1>3. CASE body.messages = <<>>
  <2>1. ExtractOpenAIPrompt(body) \in Seq(Piece) /\ ExtractAnthropicPrompt(body) \in Seq(Piece)
    BY <1>1, <1>3, ContentsHeld, MessagesHeld
  <2>2. PromptOf(body) \in Seq(Piece)
    BY <2>1 DEF PromptOf
  <2>3. \A m \in 1..Len(body.messages) : FALSE
    BY <1>3, EmptySeq
  <2>. QED BY <2>2, <2>3
<1>. QED BY <1>2, <1>3

(* The turns made of a body are held by its prompt, but for those of a       *)
(* system text.                                                              *)
Exempt(turns, i) ==
    /\ Len(turns) >= 2 /\ turns[2] = Acknowledgement
    /\ i = 2 \/ (i = 1 /\ format # "openai")

TurnsHeld(turns, whole) ==
    \A i \in 1..Len(turns) : Holds(Piece, whole, turns[i].text) \/ Exempt(turns, i)

LEMMA NonSystem ==
    ASSUME NEW messages \in Seq(Message)
    PROVE  LET others == Those(messages, LAMBDA message : message.role # "system")
           IN  /\ others \in Seq(Message)
               /\ \A j \in 1..Len(others) : \E m \in 1..Len(messages) : others[j] = messages[m]
<1>. DEFINE places == {i \in 1..Len(messages) : messages[i].role # "system"}
            others == Picked(messages, places)
<1>1. DOMAIN messages = 1..Len(messages)
  BY LenProperties
<1>2. Those(messages, LAMBDA message : message.role # "system") = others
  BY <1>1 DEF Those, Picked, PickedParts
<1>. HIDE DEF places
<1>3. others \in Seq(Message)
  BY PickedType
<1>4. \A j \in 1..Len(others) : \E m \in 1..Len(messages) : others[j] = messages[m]
  BY PickedElements
<1>. QED BY <1>2, <1>3, <1>4

LEMMA SystemText ==
    ASSUME NEW messages \in Seq(Message)
    PROVE  /\ SystemMessage(messages) \in Seq(Piece)
           /\ SystemMessage(messages) # <<>> =>
                \E m \in 1..Len(messages) : SystemMessage(messages) = ExtractMessageText(messages[m])
<1>. DEFINE places == {i \in 1..Len(messages) : messages[i].role = "system"}
            systems == Picked(messages, places)
<1>1. DOMAIN messages = 1..Len(messages)
  BY LenProperties
<1>2. Those(messages, LAMBDA message : message.role = "system") = systems
  BY <1>1 DEF Those, Picked, PickedParts
<1>3. SystemMessage(messages) =
        IF systems # <<>> /\ Last(systems).form = "string"
        THEN ExtractMessageText(Last(systems)) ELSE <<>>
  BY <1>2 DEF SystemMessage
<1>. HIDE DEF places
<1>4. systems \in Seq(Message)
  BY PickedType
<1>5. \A j \in 1..Len(systems) : \E m \in 1..Len(messages) : systems[j] = messages[m]
  BY PickedElements
<1>. HIDE DEF systems
<1>6. CASE systems # <<>>
  <2>1. Len(systems) \in 1..Len(systems)
    BY <1>4, <1>6, EmptySeq
  <2>2. PICK m \in 1..Len(messages) : Last(systems) = messages[m]
    BY <1>5, <2>1 DEF Last
  <2>3. ExtractMessageText(messages[m]) \in Seq(Piece)
    BY ElementOfSeq, MessageText
  <2>. QED BY <1>3, <2>2, <2>3, EmptySeq
<1>7. CASE systems = <<>>
  BY <1>3, <1>7, EmptySeq
<1>. QED BY <1>6, <1>7

LEMMA SentIsHeld ==
    ASSUME NEW body \in Bodies
    PROVE  TurnsOf(body) \in Seq(Turns) /\ TurnsHeld(TurnsOf(body), PromptOf(body))
<1>. DEFINE whole == PromptOf(body)
            messages == body.messages
<1>1. body \in Body /\ (messages = <<>> \/ body.contents = <<>>)
  BY ExchangeAssumption
<1>2. messages \in Seq(Message) /\ body.system \in Seq(Piece)
  BY <1>1 DEF Body
<1>3. CASE format = "openai"
  <2>. DEFINE others == Those(messages, LAMBDA message : message.role # "system")
              system == SystemMessage(messages)
              turns == TranslateToGemini(others, system)
  <2>1. TurnsOf(body) = turns
    <3>1. TurnsOf(body) = TranslateOpenAI(body)
      BY <1>3 DEF TurnsOf, Native
    <3>. QED BY <3>1 DEF TranslateOpenAI
  <2>2. /\ others \in Seq(Message)
        /\ \A j \in 1..Len(others) : \E m \in 1..Len(messages) : others[j] = messages[m]
    BY <1>2, NonSystem
  <2>3. /\ system \in Seq(Piece)
        /\ system # <<>> => \E m \in 1..Len(messages) : system = ExtractMessageText(messages[m])
    BY <1>2, SystemText
  <2>4. \A m \in 1..Len(messages) : Holds(Piece, whole, ExtractMessageText(messages[m]))
    BY PromptHolds
  <2>. HIDE DEF others, system, whole, messages
  <2>5. /\ turns \in Seq(Turns)
        /\ \A i \in 1..Len(turns) :
             \/ \E m \in 1..Len(others) : turns[i].text = ExtractMessageText(others[m])
             \/ /\ system # <<>> /\ Len(turns) >= 2 /\ turns[2] = Acknowledgement
                /\ i = 2 \/ (i = 1 /\ turns[i].text = system)
    BY <2>2, <2>3, TurnsSent
  <2>. HIDE DEF turns
  <2>6. TurnsHeld(turns, whole)
    <3>. SUFFICES ASSUME NEW i \in 1..Len(turns)
                  PROVE  Holds(Piece, whole, turns[i].text) \/ Exempt(turns, i)
      BY DEF TurnsHeld
    <3>1. CASE \E m \in 1..Len(others) : turns[i].text = ExtractMessageText(others[m])
      BY <2>2, <2>4, <3>1
    <3>2. CASE /\ system # <<>> /\ Len(turns) >= 2 /\ turns[2] = Acknowledgement
               /\ i = 2 \/ (i = 1 /\ turns[i].text = system)
      BY <2>3, <2>4, <3>2 DEF Exempt
    <3>. QED BY <2>5, <3>1, <3>2
  <2>. QED BY <2>1, <2>5, <2>6 DEF whole
<1>4. CASE Native /\ ~body.anthropicVersion
  <2>. DEFINE texts == FlattenSeq(body.contents)
              turns == [i \in DOMAIN texts |-> Turn("user", texts[i])]
  <2>1. TurnsOf(body) = turns /\ whole = ExtractOpenAIPrompt(body)
    BY <1>4 DEF TurnsOf, PromptOf, Native
  <2>2. CASE messages = <<>>
    <3>1. texts \in Seq(Seq(Piece))
          /\ \A i \in 1..Len(texts) : Holds(Piece, whole, texts[i])
      BY <1>1, <2>1, <2>2, ContentsHeld
    <3>. HIDE DEF texts
    <3>2. Len(texts) \in Nat /\ DOMAIN texts = 1..Len(texts)
      BY <3>1, LenProperties
    <3>3. \A i \in 1..Len(texts) : Turn("user", texts[i]) \in Turns
                                   /\ Turn("user", texts[i]).text = texts[i]
      <4>1. \A i \in 1..Len(texts) : texts[i] \in Seq(Piece)
        BY <3>1, ElementOfSeq
      <4>. QED BY <4>1 DEF Turn, Turns
    <3>4. turns \in Seq(Turns) /\ Len(turns) = Len(texts)
          /\ \A i \in 1..Len(texts) : turns[i].text = texts[i]
      BY <3>2, <3>3
    <3>. HIDE DEF turns, whole
    <3>5. TurnsHeld(turns, whole)
      BY <3>1, <3>4 DEF TurnsHeld
    <3>. QED BY <2>1, <3>4, <3>5 DEF whole
  <2>3. CASE messages # <<>>
    <3>1. texts = <<>>
      BY <1>1, <2>3, FlattenEmpty
    <3>2. turns = <<>>
      BY <3>1, EmptySeq
    <3>. HIDE DEF turns
    <3>3. turns \in Seq(Turns) /\ \A i \in 1..Len(turns) : FALSE
      BY <3>2, EmptySeq
    <3>. QED BY <2>1, <3>3 DEF TurnsHeld
  <2>. QED BY <2>2, <2>3
<1>5. CASE format # "openai" /\ (~Native \/ body.anthropicVersion)
  <2>. DEFINE turns == TranslateToGemini(messages, body.system)
  <2>1. TurnsOf(body) = turns /\ whole = ExtractAnthropicPrompt(body)
    BY <1>5 DEF TurnsOf, PromptOf, Native
  <2>2. \A m \in 1..Len(messages) : Holds(Piece, whole, ExtractMessageText(messages[m]))
    BY <1>1, <2>1, MessagesHeld
  <2>3. /\ turns \in Seq(Turns)
        /\ \A i \in 1..Len(turns) :
             \/ \E m \in 1..Len(messages) : turns[i].text = ExtractMessageText(messages[m])
             \/ /\ body.system # <<>> /\ Len(turns) >= 2 /\ turns[2] = Acknowledgement
                /\ i = 2 \/ (i = 1 /\ turns[i].text = body.system)
    BY <1>2, TurnsSent
  <2>. HIDE DEF turns, whole, messages
  <2>4. TurnsHeld(turns, whole)
    BY <1>5, <2>2, <2>3 DEF TurnsHeld, Exempt
  <2>. QED BY <2>1, <2>3, <2>4 DEF whole
<1>. QED BY <1>3, <1>4, <1>5

-----------------------------------------------------------------------------
(* What a call can return: a stream if the reply is to be copied, and one    *)
(* object if it is not.                                                      *)
ReplyType == [kind : {"none", "stream", "json", "armor_block", "garbled"},
              lines : Seq(Chunk), cuts : SUBSET Nat]

OneObject(r) ==
    /\ r.kind \in {"json", "armor_block", "garbled"}
    /\ Len(r.lines) = 1 /\ r.cuts = {}
    /\ r.kind = "armor_block" => r.lines = <<Silence>>

AStream(r) == r.kind = "stream" /\ r.cuts \subseteq 1..2 * Len(r.lines) - 1

LEMMA Constants ==
    /\ Silence \in Chunk /\ DemoReply \in Chunk
    /\ DemoStream.lines \in Seq(Chunk) /\ Len(DemoStream.lines) = 2
    /\ DemoStream.kind = "stream" /\ DemoStream.cuts = {}
    /\ DemoStream \in ReplyType
<1>1. <<>> \in Seq(Seq(Piece)) /\ <<<<"word">>>> \in Seq(Seq(Piece))
  BY DEF Piece
<1>2. Silence \in Chunk /\ DemoReply \in Chunk
      /\ [parts |-> <<<<"word">>>>, finish |-> "none"] \in Chunk
  BY <1>1 DEF Silence, DemoReply, Chunk, Finish
<1>3. <<[parts |-> <<<<"word">>>>, finish |-> "none"], DemoReply>> \in Seq(Chunk)
  BY <1>2
<1>4. /\ DemoStream.lines = <<[parts |-> <<<<"word">>>>, finish |-> "none"], DemoReply>>
      /\ DemoStream.kind = "stream" /\ DemoStream.cuts = {}
  BY DEF DemoStream
<1>5. Len(DemoStream.lines) = 2
  BY <1>4
<1>6. DemoStream \in ReplyType
  BY <1>3 DEF DemoStream, ReplyType
<1>. QED BY <1>2, <1>3, <1>4, <1>5, <1>6

LEMMA AnswerKinds ==
    ASSUME NEW r \in Answers
    PROVE  /\ r \in ReplyType
           /\ Copies => AStream(r)
           /\ ~Copies => OneObject(r)
<1>1. CASE Copies /\ demo
  <2>1. r = DemoStream
    BY <1>1 DEF Answers
  <2>. QED BY <1>1, <2>1, Constants DEF AStream
<1>2. CASE Copies /\ ~demo
  <2>1. PICK s \in StreamedReplies : r = [kind |-> "stream", lines |-> s.lines, cuts |-> s.cuts]
    BY <1>2 DEF Answers
  <2>2. s.lines \in Seq(Chunk) /\ s.cuts \subseteq 1..2 * Len(s.lines) - 1
    BY ExchangeAssumption
  <2>3. s.cuts \in SUBSET Nat
    BY <2>2
  <2>4. r \in ReplyType /\ AStream(r)
    BY <2>1, <2>2, <2>3 DEF ReplyType, AStream
  <2>. QED BY <1>2, <2>4
<1>3. CASE ~Copies
  <2>1. \/ \E c \in Chunk : r = [kind |-> "json", lines |-> <<c>>, cuts |-> {}]
        \/ \E k \in {"armor_block", "garbled"} :
                r = [kind |-> k, lines |-> <<Silence>>, cuts |-> {}]
    <3>1. CASE demo
      <4>1. r = [kind |-> "json", lines |-> <<DemoReply>>, cuts |-> {}]
        BY <1>3, <3>1 DEF Answers
      <4>. QED BY <4>1, Constants
    <3>2. CASE ~demo
      <4>1. Objects \subseteq Chunk
        BY ExchangeAssumption
      <4>. QED BY <1>3, <3>2, <4>1 DEF Answers
    <3>. QED BY <3>1, <3>2
  <2>2. \A c \in Chunk : <<c>> \in Seq(Chunk) /\ Len(<<c>>) = 1
    OBVIOUS
  <2>3. r \in ReplyType /\ OneObject(r)
    BY <2>1, <2>2, Constants DEF ReplyType, OneObject
  <2>. QED BY <1>3, <2>3
<1>. QED BY <1>1, <1>2, <1>3

-----------------------------------------------------------------------------
(* What has been read of a stream.                                           *)
LEMMA WholeType ==
    ASSUME reply \in ReplyType, NEW n \in 0..Len(reply.lines)
    PROVE  /\ Whole(n) \in Seq(Chunk) /\ Len(Whole(n)) = n
           /\ \A k \in 1..n : Whole(n)[k] =
                IF 2 * k - 1 \in reply.cuts THEN Silence ELSE reply.lines[k]
<1>1. reply.lines \in Seq(Chunk) /\ Len(reply.lines) \in Nat
  BY LenProperties DEF ReplyType
<1>2. \A k \in 1..n : reply.lines[k] \in Chunk
  <2>1. \A k \in 1..n : k \in 1..Len(reply.lines)
    BY <1>1
  <2>. QED BY <1>1, <2>1, ElementOfSeq
<1>. DEFINE LineOf(k) == IF 2 * k - 1 \in reply.cuts THEN Silence ELSE reply.lines[k]
<1>3. \A k \in 1..n : LineOf(k) \in Chunk
  BY <1>2, Constants
<1>4. Whole(n) = [k \in 1..n |-> LineOf(k)]
  BY DEF Whole
<1>5. n \in Nat
  BY <1>1
<1>. HIDE DEF Read
<1>6. Whole(n) \in Seq(Chunk) /\ Len(Whole(n)) = n /\ \A k \in 1..n : Whole(n)[k] = LineOf(k)
  BY <1>3, <1>4, <1>5
<1>. QED BY <1>6 DEF Read

LEMMA Least ==
    ASSUME NEW S, S \subseteq Nat, S # {}
    PROVE  \E m \in S : \A n \in S : m <= n
<1>1. PICK m \in S : \A n \in S : ~ (<<n, m>> \in OpToRel(<, Nat))
  BY NatLessThanWellFounded, WFMin
<1>2. \A n \in S : ~(n < m)
  BY <1>1 DEF OpToRel
<1>3. \A n \in S : m <= n
  BY <1>2
<1>. QED BY <1>3

(* A read ends at the next cut, or at the end.                               *)
LEMMA ReadEnds ==
    ASSUME reply \in ReplyType, AStream(reply), NEW from \in 0..End(reply), from < End(reply)
    PROVE  LET to == ReadEnd(reply, from)
           IN  /\ to \in 0..End(reply) /\ from < to
               /\ to \in reply.cuts \/ to = End(reply)
               /\ \A cut \in reply.cuts : cut > from => to <= cut
<1>1. Len(reply.lines) \in Nat /\ End(reply) \in Nat
  BY LenProperties DEF ReplyType, End
<1>2. reply.cuts \subseteq 1..End(reply)
  BY <1>1 DEF AStream, End
<1>. DEFINE S == {cut \in reply.cuts \union {End(reply)} : cut > from}
<1>3. S \subseteq Nat /\ S # {}
  BY <1>1, <1>2
<1>4. PICK m \in S : \A n \in S : m <= n
  BY <1>3, Least
<1>5. m \in S /\ \A cut \in reply.cuts : cut > from => m <= cut
  BY <1>4
<1>6. \E next \in S : \A cut \in reply.cuts : cut > from => next <= cut
  BY <1>5
<1>. DEFINE to == ReadEnd(reply, from)
<1>7. to \in S /\ \A cut \in reply.cuts : cut > from => to <= cut
  BY <1>6 DEF ReadEnd
<1>. HIDE DEF to
<1>. QED BY <1>1, <1>2, <1>7 DEF to

(* The lines of a read are what it adds to those that have been read whole.  *)
LEMMA ReadAdds ==
    ASSUME reply \in ReplyType, AStream(reply), NEW s,
           NEW from \in 0..End(reply), from < End(reply),
           from % 2 = 1 => from \in reply.cuts,
           s = StreamAs(format, NewStream, Whole(from \div 2))
    PROVE  LET to == ReadEnd(reply, from)
           IN  /\ to % 2 = 1 => to \in reply.cuts
               /\ LinesOf(reply, from, to) \in Seq(Chunk)
               /\ StreamAs(format, s, LinesOf(reply, from, to)) =
                    StreamAs(format, NewStream, Whole(to \div 2))
<1>. DEFINE to == ReadEnd(reply, from)
            k == from \div 2
            j == (from + 1) \div 2
            m == to \div 2
            lines == LinesOf(reply, from, to)
            L == Len(reply.lines)
<1>1. /\ to \in 0..End(reply) /\ from < to
      /\ to \in reply.cuts \/ to = End(reply)
      /\ \A cut \in reply.cuts : cut > from => to <= cut
  BY ReadEnds
<1>2. L \in Nat /\ End(reply) = 2 * L /\ reply.lines \in Seq(Chunk)
  BY LenProperties DEF ReplyType, End
<1>3. lines = SubSeq(reply.lines, j + 1, m)
  BY DEF LinesOf
<1>. HIDE DEF to, lines, L
<1>4. /\ k \in 0..L /\ j \in 0..L /\ m \in 0..L /\ j <= m
      /\ from % 2 = 0 => j = k /\ from = 2 * k
      /\ from % 2 = 1 => j = k + 1 /\ from = 2 * k + 1
      /\ from % 2 = 0 \/ from % 2 = 1
      /\ 2 * m <= to
  BY <1>1, <1>2
<1>5. to % 2 = 1 => to \in reply.cuts
  BY <1>1, <1>2
<1>. HIDE DEF k, j, m
<1>6. /\ lines \in Seq(Chunk) /\ Len(lines) = m - j
      /\ \A i \in 1..m - j : lines[i] = reply.lines[j + i]
  <2>1. \A i \in j + 1..m : reply.lines[i] \in Chunk
    <3>1. \A i \in j + 1..m : i \in 1..Len(reply.lines)
      BY <1>2, <1>4 DEF L
    <3>. QED BY <1>2, <3>1, ElementOfSeq
  <2>2. /\ lines \in Seq(Chunk)
        /\ Len(lines) = IF j + 1 <= m THEN m - (j + 1) + 1 ELSE 0
        /\ \A i \in 1..m - (j + 1) + 1 : lines[i] = reply.lines[j + 1 + i - 1]
    BY <1>3, <1>4, <2>1, SubSeqProperties
  <2>3. m - (j + 1) + 1 = m - j /\ \A i \in 1..m - j : j + 1 + i - 1 = j + i
    BY <1>4
  <2>4. Len(lines) = m - j
    BY <1>4, <2>2
  <2>. QED BY <2>2, <2>3, <2>4
<1>7. ASSUME NEW i \in 1..m - j PROVE Whole(m)[j + i] = lines[i]
  <2>1. 2 * (j + i) - 1 > from /\ 2 * (j + i) - 1 < to /\ j + i \in 1..m
    BY <1>1, <1>4
  <2>2. 2 * (j + i) - 1 \notin reply.cuts
    BY <1>1, <2>1
  <2>. QED BY <1>4, <1>6, <2>1, <2>2, WholeType DEF L
<1>8. /\ Whole(k) \in Seq(Chunk) /\ Len(Whole(k)) = k
      /\ Whole(m) \in Seq(Chunk) /\ Len(Whole(m)) = m
      /\ \A i \in 1..k : Whole(k)[i] =
            IF 2 * i - 1 \in reply.cuts THEN Silence ELSE reply.lines[i]
      /\ \A i \in 1..m : Whole(m)[i] =
            IF 2 * i - 1 \in reply.cuts THEN Silence ELSE reply.lines[i]
  BY <1>4, WholeType DEF L
<1>9. CASE from % 2 = 0
  <2>1. Whole(k) \o lines = Whole(m)
    <3>. DEFINE both == Whole(k) \o lines
    <3>1. /\ both \in Seq(Chunk) /\ Len(both) = k + (m - j)
          /\ \A i \in 1..k + (m - j) :
                both[i] = IF i <= k THEN Whole(k)[i] ELSE lines[i - k]
      <4>1. /\ both \in Seq(Chunk) /\ Len(both) = Len(Whole(k)) + Len(lines)
            /\ \A i \in 1..Len(Whole(k)) + Len(lines) :
                  both[i] = IF i <= Len(Whole(k)) THEN Whole(k)[i] ELSE lines[i - Len(Whole(k))]
        <5>1. Whole(k) \in Seq(Chunk) /\ lines \in Seq(Chunk)
          BY <1>6, <1>8
        <5>. QED BY <5>1, ConcatProperties
      <4>. HIDE DEF both
      <4>2. Len(Whole(k)) = k /\ Len(lines) = m - j
        BY <1>6, <1>8
      <4>. QED BY <4>1, <4>2
    <3>. HIDE DEF both
    <3>2. Len(both) = m /\ j = k
      BY <1>4, <1>9, <3>1
    <3>3. ASSUME NEW i \in 1..m PROVE both[i] = Whole(m)[i]
      <4>1. CASE i <= k
        <5>1. i \in 1..k /\ i \in 1..k + (m - j)
          BY <1>4, <3>2, <4>1
        <5>. QED BY <1>8, <3>1, <4>1, <5>1
      <4>2. CASE ~(i <= k)
        <5>1. i - k \in 1..m - j /\ i \in 1..k + (m - j) /\ j + (i - k) = i
          BY <1>4, <3>2, <4>2
        <5>2. both[i] = lines[i - k]
          BY <3>1, <4>2, <5>1
        <5>3. Whole(m)[j + (i - k)] = lines[i - k]
          BY <1>7, <5>1
        <5>. QED BY <5>1, <5>2, <5>3
      <4>. QED BY <4>1, <4>2
    <3>4. both = Whole(m)
      BY <1>8, <3>1, <3>2, <3>3, SeqEqual
    <3>. QED BY <3>4 DEF both
  <2>2. StreamAs(format, s, lines) = StreamAs(format, NewStream, Whole(k) \o lines)
    BY <1>6, <1>8, StreamConcat DEF k
  <2>. QED BY <1>5, <1>6, <2>1, <2>2 DEF to, lines, m
<1>10. CASE from % 2 = 1
  <2>. DEFINE cut == Append(Whole(k), Silence)
  <2>1. /\ cut \in Seq(Chunk) /\ Len(cut) = k + 1 /\ cut[k + 1] = Silence
        /\ \A i \in 1..k : cut[i] = Whole(k)[i]
    BY <1>8, Constants, AppendProperties
  <2>. HIDE DEF cut
  <2>2. cut \o lines = Whole(m)
    <3>. DEFINE both == cut \o lines
    <3>1. /\ both \in Seq(Chunk) /\ Len(both) = (k + 1) + (m - j)
          /\ \A i \in 1..(k + 1) + (m - j) :
                both[i] = IF i <= k + 1 THEN cut[i] ELSE lines[i - (k + 1)]
      <4>1. /\ both \in Seq(Chunk) /\ Len(both) = Len(cut) + Len(lines)
            /\ \A i \in 1..Len(cut) + Len(lines) :
                  both[i] = IF i <= Len(cut) THEN cut[i] ELSE lines[i - Len(cut)]
        BY <1>6, <2>1, ConcatProperties
      <4>. HIDE DEF both
      <4>2. Len(cut) = k + 1 /\ Len(lines) = m - j
        BY <1>6, <2>1
      <4>. QED BY <4>1, <4>2
    <3>. HIDE DEF both
    <3>2. Len(both) = m /\ j = k + 1
      BY <1>4, <1>10, <3>1
    <3>3. ASSUME NEW i \in 1..m PROVE both[i] = Whole(m)[i]
      <4>1. CASE i <= k
        <5>1. i \in 1..k /\ i \in 1..(k + 1) + (m - j) /\ i <= k + 1
          BY <1>4, <3>2, <4>1
        <5>. QED BY <1>8, <2>1, <3>1, <5>1
      <4>2. CASE i = k + 1
        <5>1. i \in 1..(k + 1) + (m - j) /\ 2 * i - 1 = from
          BY <1>4, <1>10, <3>2, <4>2
        <5>2. Whole(m)[i] = Silence
          BY <1>8, <1>10, <5>1
        <5>. QED BY <2>1, <3>1, <4>2, <5>1, <5>2
      <4>3. CASE ~(i <= k + 1)
        <5>1. i - (k + 1) \in 1..m - j /\ i \in 1..(k + 1) + (m - j)
              /\ j + (i - (k + 1)) = i
          BY <1>4, <3>2, <4>3
        <5>2. both[i] = lines[i - (k + 1)]
          BY <3>1, <4>3, <5>1
        <5>3. Whole(m)[j + (i - (k + 1))] = lines[i - (k + 1)]
          BY <1>7, <5>1
        <5>. QED BY <5>1, <5>2, <5>3
      <4>4. i <= k \/ i = k + 1 \/ ~(i <= k + 1)
        BY <1>4
      <4>. QED BY <4>1, <4>2, <4>3, <4>4
    <3>4. both = Whole(m)
      BY <1>8, <3>1, <3>2, <3>3, SeqEqual
    <3>. QED BY <3>4 DEF both
  <2>3. StreamAs(format, NewStream, cut) = s
    <3>1. StreamAs(format, NewStream, cut) = LineAs(format, s, Silence)
      BY <1>8, Constants, StreamAppend DEF cut, k
    <3>2. Silent(Silence)
      BY DEF Silent, Silence, ExtractGeminiText
    <3>. QED BY <3>1, <3>2, SilentLine
  <2>4. StreamAs(format, s, lines) = StreamAs(format, NewStream, cut \o lines)
    BY <1>6, <2>1, <2>3, StreamConcat
  <2>. QED BY <1>5, <1>6, <2>2, <2>4 DEF to, lines, m
<1>. QED BY <1>4, <1>9, <1>10

-----------------------------------------------------------------------------
(* The inductive invariant.  What a handler has not decided yet has left no  *)
(* trace.                                                                    *)
Early == {"idle", "auth", "parse", "policy", "screen", "call", "wait"}

NothingEarly ==
    /\ pc \notin {"audit", "done"} => answer = "none"
    /\ pc \in Early => reply = NoReply
    /\ pc \in Early \union {"judge", "release"} => logged = {}
    /\ pc = "idle" <=> format = "none"
    /\ pc = "idle" => sent = <<>>

(* The prompt was passed before it is sent, and holds what is sent. *)
PromptKnown ==
    /\ pc \in {"call", "wait", "judge", "release", "write", "read"} => ~Breaks(prompt)
    /\ TurnsHeld(sent, prompt)

(* What came back is what the mode and the request make the handler ask for, *)
(* and each step finds the kind of reply it expects.                         *)
ReplyKnown ==
    /\ \/ reply = NoReply
       \/ AStream(reply) /\ Copies
       \/ OneObject(reply) /\ ~Copies
    /\ pc \in {"judge", "write"} => reply.kind \in {"json", "armor_block"}
    /\ pc = "judge" => Screens
    /\ pc = "release" => ~Screens /\ reply.kind \in {"json", "armor_block", "stream"}
    /\ pc = "read" => reply.kind = "stream"
    /\ pc = "refuse" => reply.kind # "stream"
    /\ pc = "write" \/ answer = "delivered" =>
            reply.kind \in {"json", "armor_block", "stream"} /\ (Screens => reply.kind = "json")

(* A stream is read from cut to cut, until it ends. *)
OffsetKnown ==
    /\ reply.kind # "stream" \/ pc = "release" => offset = 0
    /\ offset % 2 = 1 => offset \in reply.cuts
    /\ answer = "delivered" /\ reply.kind = "stream" => offset = End(reply)

(* What has been written is what was made of the reply so far: a translated  *)
(* stream's loop has seen the lines that were read whole, and only those.    *)
WriterKnown ==
    /\ reply.kind = "stream" =>
        /\ ~Native => writer = StreamAs(format, NewStream, Whole(offset \div 2))
        /\ Native => writer = NewStream
        /\ answer \notin {"denied", "blocked"}
    /\ reply.kind # "stream" =>
        /\ answer = "delivered" => writer.out = WholeReply /\ writer.accumulated = ReplyText
        /\ answer \in {"denied", "blocked"} => writer.out = <<Event("error", <<>>)>>
        /\ answer \notin {"delivered", "denied", "blocked"} => writer = NewStream

ScreeningKnown ==
    /\ Screens /\ (pc = "write" \/ answer = "delivered") => screened = ReplyText
    /\ pc = "audit" => answer = "delivered" /\ mode = "audit" /\ ~Native
    /\ pc = "done" /\ answer = "delivered" /\ mode = "audit" /\ ~Native
            => screened = writer.accumulated

Refusals == {"DENY_POLICY", "BLOCK_PROMPT", "BLOCK_RESPONSE", "MODEL_ARMOR_BLOCK"}

LoggedKnown ==
    /\ pc \in {"write", "read", "audit"} => logged = {"ALLOW"}
    /\ pc = "refuse" => \E a \in Refusals : logged = {a}

IInv ==
    /\ TypeOK /\ NothingEarly /\ PromptKnown /\ ReplyKnown /\ OffsetKnown
    /\ WriterKnown /\ ScreeningKnown /\ LoggedKnown

-----------------------------------------------------------------------------
(* The parts of the invariant, one at a time.                                *)
LEMMA NothingEarlyKept ==
    ASSUME IInv, Next PROVE NothingEarly'
<1>. USE DEF IInv, TypeOK, NothingEarly, Early, Goto, Respond, Log, Deliver,
             config, request, response
<1>1. CASE Arrive
  BY <1>1 DEF Arrive
<1>2. CASE Authenticate
  BY <1>2 DEF Authenticate
<1>3. CASE ParseBody
  BY <1>3 DEF ParseBody
<1>4. CASE CheckPolicy
  BY <1>4 DEF CheckPolicy
<1>5. CASE ScreenPrompt
  BY <1>5 DEF ScreenPrompt
<1>6. CASE CallVertex
  BY <1>6 DEF CallVertex
<1>7. CASE Receive
  BY <1>7 DEF Receive
<1>8. CASE ScreenReply
  BY <1>8 DEF ScreenReply
<1>9. CASE Release
  BY <1>9 DEF Release
<1>10. CASE Refuse
  BY <1>10 DEF Refuse
<1>11. CASE Write
  BY <1>11 DEF Write
<1>12. CASE Read
  BY <1>12 DEF Read
<1>13. CASE EndStream
  BY <1>13 DEF EndStream
<1>14. CASE AuditResponse
  BY <1>14 DEF AuditResponse
<1>15. CASE PassOn
  BY <1>15 DEF PassOn
<1>. QED BY <1>1, <1>2, <1>3, <1>4, <1>5, <1>6, <1>7, <1>8, <1>9, <1>10, <1>11, <1>12, <1>13, <1>14, <1>15 DEF Next

LEMMA LoggedKept ==
    ASSUME IInv, Next PROVE LoggedKnown'
<1>. USE DEF IInv, TypeOK, NothingEarly, Early, ReplyKnown, LoggedKnown, Refusals, Goto, Respond,
             Log, Deliver, config, request, response
<1>1. CASE Arrive
  BY <1>1 DEF Arrive
<1>2. CASE Authenticate
  BY <1>2 DEF Authenticate
<1>3. CASE ParseBody
  BY <1>3 DEF ParseBody
<1>4. CASE CheckPolicy
  BY <1>4 DEF CheckPolicy
<1>5. CASE ScreenPrompt
  BY <1>5 DEF ScreenPrompt
<1>6. CASE CallVertex
  BY <1>6 DEF CallVertex
<1>7. CASE Receive
  BY <1>7 DEF Receive
<1>8. CASE ScreenReply
  BY <1>8 DEF ScreenReply
<1>9. CASE Release
  BY <1>9 DEF Release
<1>10. CASE Refuse
  BY <1>10 DEF Refuse
<1>11. CASE Write
  BY <1>11 DEF Write
<1>12. CASE Read
  BY <1>12 DEF Read
<1>13. CASE EndStream
  BY <1>13 DEF EndStream
<1>14. CASE AuditResponse
  BY <1>14 DEF AuditResponse
<1>15. CASE PassOn
  BY <1>15 DEF PassOn
<1>. QED BY <1>1, <1>2, <1>3, <1>4, <1>5, <1>6, <1>7, <1>8, <1>9, <1>10, <1>11, <1>12, <1>13, <1>14, <1>15 DEF Next

LEMMA KindTells ==
    ASSUME ReplyKnown
    PROVE  /\ reply.kind = "stream" => Copies /\ ~Screens /\ AStream(reply)
           /\ reply.kind \in {"json", "armor_block", "garbled"} => ~Copies /\ OneObject(reply)
           /\ reply = NoReply <=> reply.kind = "none"
           /\ reply.kind \in {"none", "stream", "json", "armor_block", "garbled"}
BY DEF ReplyKnown, AStream, OneObject, NoReply, Copies

LEMMA ReplyKept ==
    ASSUME IInv, Next PROVE ReplyKnown'
<1>. USE DEF IInv, NothingEarly, Early, ReplyKnown, Copies, Screens, Native,
             Goto, Respond, Log, Deliver, config, request, response
<1>1. CASE Arrive
  BY <1>1 DEF Arrive
<1>2. CASE Authenticate
  BY <1>2 DEF Authenticate
<1>3. CASE ParseBody
  BY <1>3 DEF ParseBody
<1>4. CASE CheckPolicy
  BY <1>4, KindTells DEF CheckPolicy
<1>5. CASE ScreenPrompt
  BY <1>5, KindTells DEF ScreenPrompt
<1>6. CASE CallVertex
  BY <1>6 DEF CallVertex
<1>7. CASE Receive
  <2>1. CASE ~demo /\ Respond("error") /\ UNCHANGED reply
    BY <1>7, <2>1 DEF Receive, NoReply
  <2>2. CASE ~(~demo /\ Respond("error") /\ UNCHANGED reply)
    <3>1. /\ reply' \in Answers /\ pc = "wait"
          /\ IF reply'.kind = "garbled" THEN Respond("error")
             ELSE Goto(IF Screens THEN "judge" ELSE "release")
          /\ UNCHANGED <<config, request, sent, offset, writer, passed, screened, logged>>
      BY <1>7, <2>2 DEF Receive
    <3>2. (Copies => AStream(reply')) /\ (~Copies => OneObject(reply'))
      BY <3>1, AnswerKinds
    <3>3. (Copies' <=> Copies) /\ (Screens' <=> Screens)
      BY <3>1
    <3>4. AStream(reply') => reply'.kind = "stream"
      BY DEF AStream
    <3>5. OneObject(reply') => reply'.kind \in {"json", "armor_block", "garbled"}
      BY DEF OneObject
    <3>6. answer' # "delivered"
      BY <3>1
    <3>. QED BY <3>1, <3>2, <3>3, <3>4, <3>5, <3>6
  <2>. QED BY <2>1, <2>2
<1>8. CASE ScreenReply
  BY <1>8 DEF ScreenReply
<1>9. CASE Release
  BY <1>9, KindTells DEF Release
<1>10. CASE Refuse
  BY <1>10 DEF Refuse
<1>11. CASE Write
  BY <1>11 DEF Write
<1>12. CASE Read
  BY <1>12 DEF Read
<1>13. CASE EndStream
  BY <1>13, KindTells DEF EndStream
<1>14. CASE AuditResponse
  BY <1>14 DEF AuditResponse
<1>15. CASE PassOn
  BY <1>15 DEF PassOn
<1>. QED BY <1>1, <1>2, <1>3, <1>4, <1>5, <1>6, <1>7, <1>8, <1>9, <1>10,
            <1>11, <1>12, <1>13, <1>14, <1>15 DEF Next

LEMMA ScreeningKept ==
    ASSUME IInv, Next PROVE ScreeningKnown'
<1>. USE DEF IInv, TypeOK, NothingEarly, Early, ReplyKnown, ScreeningKnown, Screens, Native, ReplyText,
             Goto, Respond, Log, Deliver, config, request, response
<1>1. CASE Arrive
  BY <1>1 DEF Arrive
<1>2. CASE Authenticate
  BY <1>2 DEF Authenticate
<1>3. CASE ParseBody
  BY <1>3 DEF ParseBody
<1>4. CASE CheckPolicy
  BY <1>4 DEF CheckPolicy
<1>5. CASE ScreenPrompt
  BY <1>5 DEF ScreenPrompt
<1>6. CASE CallVertex
  BY <1>6 DEF CallVertex
<1>7. CASE Receive
  BY <1>7 DEF Receive
<1>8. CASE ScreenReply
  BY <1>8 DEF ScreenReply
<1>9. CASE Release
  BY <1>9 DEF Release
<1>10. CASE Refuse
  BY <1>10 DEF Refuse
<1>11. CASE Write
  BY <1>11 DEF Write
<1>12. CASE Read
  BY <1>12 DEF Read
<1>13. CASE EndStream
  BY <1>13, KindTells DEF EndStream
<1>14. CASE AuditResponse
  BY <1>14 DEF AuditResponse
<1>15. CASE PassOn
  BY <1>15 DEF PassOn
<1>. QED BY <1>1, <1>2, <1>3, <1>4, <1>5, <1>6, <1>7, <1>8, <1>9, <1>10,
            <1>11, <1>12, <1>13, <1>14, <1>15 DEF Next

(* What is written of a reply that was read as a whole.                      *)
LEMMA OneEvent ==
    ASSUME NEW event \in Written
    PROVE  <<event>> \in Seq(Written) /\ InOrder(<<event>>) /\ <<event>> # <<>>
           /\ Head(<<event>>) = event /\ Last(<<event>>) = event
BY DEF InOrder, Last

Heads == {"message_start", "role", "message", "raw"}

LEMMA WholeReplyFacts ==
    ASSUME reply \in ReplyType, OneObject(reply), format \in {"openai", "anthropic", "native"}
    PROVE  /\ ReplyText \in Seq(Piece)
           /\ WholeReply \in Seq(Written) /\ InOrder(WholeReply)
           /\ WholeReply # <<>> /\ Head(WholeReply).event \in Heads
           /\ ~Native => ClientText(WholeReply) = ReplyText
           /\ stream /\ ~Native => Closed(WholeReply)
<1>. DEFINE chunk == reply.lines[1]
<1>1. chunk \in Chunk
  <2>1. reply.lines \in Seq(Chunk) /\ 1 \in 1..Len(reply.lines)
    BY DEF ReplyType, OneObject
  <2>. QED BY <2>1, ElementOfSeq
<1>2. ReplyText = ExtractGeminiText(chunk) /\ ReplyText \in Seq(Piece)
  BY <1>1, LineText DEF ReplyText
<1>3. CASE Native
  <2>1. WholeReply = <<Event("raw", FlattenSeq(chunk.parts))>>
    BY <1>3 DEF WholeReply, Native
  <2>2. FlattenSeq(chunk.parts) \in Seq(Piece)
    BY <1>1, FlattenType DEF Chunk
  <2>3. /\ Event("raw", FlattenSeq(chunk.parts)) \in Written
        /\ Event("raw", FlattenSeq(chunk.parts)).event = "raw"
    BY <2>2 DEF Event, Written
  <2>. QED BY <1>2, <1>3, <2>1, <2>3, OneEvent DEF Heads
<1>4. CASE ~Native /\ ~stream
  <2>1. WholeReply = <<Event("message", ReplyText)>>
    BY <1>2, <1>4 DEF WholeReply, Native, TranslateGeminiToAnthropic, TranslateGeminiToOpenAI
  <2>2. /\ Event("message", ReplyText) \in Written /\ Event("message", ReplyText).event = "message"
        /\ Shown(Event("message", ReplyText)) = ReplyText
    BY <1>2, EventsAreWritten DEF Event, TextEvents
  <2>3. ClientText(<<Event("message", ReplyText)>>) = ReplyText
    BY <2>2, ClientTextOne
  <2>. QED BY <1>2, <1>4, <2>1, <2>2, <2>3, OneEvent DEF Heads
<1>5. CASE ~Native /\ stream
  <2>1. PICK stop \in Reasons :
          \/ WholeReply = WriteAnthropicSSE([text |-> ReplyText, stop |-> stop])
          \/ WholeReply = WriteOpenAISSE([text |-> ReplyText, stop |-> stop])
    <3>1. CASE format = "anthropic"
      <4>1. WholeReply = WriteAnthropicSSE(TranslateGeminiToAnthropic(chunk))
        BY <1>5, <3>1 DEF WholeReply, Native
      <4>. QED BY <1>2, <4>1, EventsAreWritten DEF TranslateGeminiToAnthropic
    <3>2. CASE format = "openai"
      <4>1. WholeReply = WriteOpenAISSE(TranslateGeminiToOpenAI(chunk))
        BY <1>5, <3>2 DEF WholeReply, Native
      <4>. QED BY <1>2, <4>1, EventsAreWritten DEF TranslateGeminiToOpenAI
    <3>. QED BY <1>5, <3>1, <3>2 DEF Native
  <2>2. Sound(WholeReply) /\ Closed(WholeReply) /\ ClientText(WholeReply) = ReplyText
    BY <1>2, <1>5, <2>1, WholeAsAnthropic, WholeAsOpenAI
  <2>. QED BY <1>2, <1>5, <2>2 DEF Sound, Starts, Closed, Heads
<1>. QED BY <1>3, <1>4, <1>5

(* What a read does: it goes on to the next cut or to the end, and the loop  *)
(* has then seen what it would have seen in one go.                          *)
LEMMA ReadStep ==
    ASSUME IInv, Read
    PROVE  /\ AStream(reply) /\ reply' = reply /\ format' = format
           /\ offset' \in 0..End(reply)
           /\ offset' % 2 = 1 => offset' \in reply.cuts
           /\ Native => writer' = writer
           /\ ~Native => /\ writer' = StreamAs(format, NewStream, Whole(offset' \div 2))
                         /\ writer' \in StreamState
                         /\ Len(writer'.out) >= Len(writer.out)
<1>1. /\ reply \in ReplyType /\ AStream(reply) /\ offset \in 0..End(reply)
      /\ offset % 2 = 1 => offset \in reply.cuts
      /\ offset < End(reply) /\ offset' = ReadEnd(reply, offset)
      /\ reply' = reply /\ format' = format /\ reply.kind = "stream"
  BY KindTells DEF IInv, TypeOK, ReplyType, ReplyKnown, OffsetKnown, Read, request
<1>2. offset' \in 0..End(reply)
  BY <1>1, ReadEnds
<1>3. CASE Native
  <2>1. writer' = writer
    BY <1>3 DEF Read
  <2>2. offset' % 2 = 1 => offset' \in reply.cuts
    <3>1. offset' \in reply.cuts \/ offset' = End(reply)
      BY <1>1, ReadEnds
    <3>2. End(reply) % 2 = 0
      <4>1. Len(reply.lines) \in Nat
        BY <1>1, LenProperties DEF ReplyType
      <4>2. \A n \in Nat : (2 * n) % 2 = 0
        OBVIOUS
      <4>. QED BY <4>1, <4>2 DEF End
    <3>. QED BY <3>1, <3>2
  <2>. QED BY <1>1, <1>2, <1>3, <2>1, <2>2
<1>4. CASE ~Native
  <2>. DEFINE lines == LinesOf(reply, offset, ReadEnd(reply, offset))
  <2>1. writer = StreamAs(format, NewStream, Whole(offset \div 2))
    BY <1>1, <1>4 DEF IInv, WriterKnown
  <2>2. /\ ReadEnd(reply, offset) % 2 = 1 => ReadEnd(reply, offset) \in reply.cuts
        /\ lines \in Seq(Chunk)
        /\ StreamAs(format, writer, lines) =
             StreamAs(format, NewStream, Whole(ReadEnd(reply, offset) \div 2))
    BY <1>1, <2>1, ReadAdds
  <2>3. writer' = StreamAs(format, writer, lines)
    BY <1>1, <1>4 DEF Read, StreamAs
  <2>. HIDE DEF lines
  <2>4. offset \div 2 \in 0..Len(reply.lines)
    <3>1. Len(reply.lines) \in Nat
      BY <1>1, LenProperties DEF ReplyType
    <3>. QED BY <1>1, <3>1 DEF End
  <2>5. Whole(offset \div 2) \in Seq(Chunk)
    BY <1>1, <2>4, WholeType
  <2>6. writer \in StreamState
    BY <2>1, <2>5, StreamTexts
  <2>7. writer' \in StreamState /\ Len(writer'.out) >= Len(writer.out)
    BY <2>2, <2>3, <2>6, StreamGrows
  <2>. QED BY <1>1, <1>2, <1>4, <2>2, <2>3, <2>7
<1>. QED BY <1>3, <1>4

LEMMA OffsetKept ==
    ASSUME IInv, Next PROVE OffsetKnown'
<1>. USE DEF IInv, NothingEarly, Early, OffsetKnown, NoReply,
             Goto, Respond, Log, Deliver, config, request, response
<1>0. offset \in 0..End(reply)
  BY DEF TypeOK
<1>1. CASE Arrive
  BY <1>1 DEF Arrive
<1>2. CASE Authenticate
  BY <1>2 DEF Authenticate
<1>3. CASE ParseBody
  BY <1>3 DEF ParseBody
<1>4. CASE CheckPolicy
  BY <1>4 DEF CheckPolicy
<1>5. CASE ScreenPrompt
  BY <1>5 DEF ScreenPrompt
<1>6. CASE CallVertex
  BY <1>6 DEF CallVertex
<1>7. CASE Receive
  <2>1. offset = 0 /\ offset' = 0 /\ answer' # "delivered"
    BY <1>7 DEF Receive
  <2>2. 0 % 2 = 0
    OBVIOUS
  <2>. QED BY <2>1, <2>2
<1>8. CASE ScreenReply
  BY <1>8 DEF ScreenReply
<1>9. CASE Release
  BY <1>9, KindTells DEF Release, ReplyKnown
<1>10. CASE Refuse
  BY <1>10 DEF Refuse
<1>11. CASE Write
  BY <1>11, KindTells DEF Write, ReplyKnown
<1>12. CASE Read
  <2>1. (offset' % 2 = 1 => offset' \in reply'.cuts) /\ reply' = reply /\ reply.kind = "stream"
    BY <1>12, ReadStep DEF AStream
  <2>. QED BY <1>12, <2>1 DEF Read
<1>13. CASE EndStream
  BY <1>13 DEF EndStream, End
<1>14. CASE AuditResponse
  BY <1>14 DEF AuditResponse, End
<1>15. CASE PassOn
  BY <1>15 DEF PassOn
<1>. QED BY <1>1, <1>2, <1>3, <1>4, <1>5, <1>6, <1>7, <1>8, <1>9, <1>10,
            <1>11, <1>12, <1>13, <1>14, <1>15 DEF Next


LEMMA WriterKept ==
    ASSUME IInv, Next PROVE WriterKnown'
<1>. USE DEF IInv, NothingEarly, Early, WriterKnown, WholeReply, ReplyText, Whole, Native, NoReply,
             Goto, Respond, Log, Deliver, config, request, response
<1>1. CASE Arrive
  BY <1>1 DEF Arrive
<1>2. CASE Authenticate
  BY <1>2 DEF Authenticate
<1>3. CASE ParseBody
  BY <1>3 DEF ParseBody
<1>4. CASE CheckPolicy
  BY <1>4 DEF CheckPolicy
<1>5. CASE ScreenPrompt
  BY <1>5 DEF ScreenPrompt
<1>6. CASE CallVertex
  BY <1>6 DEF CallVertex
<1>7. CASE Receive
  <2>1. /\ offset = 0 /\ offset' = 0 /\ writer = NewStream /\ writer' = writer
        /\ answer' \notin {"delivered", "denied", "blocked"} /\ format' = format
    BY <1>7 DEF Receive, OffsetKnown
  <2>2. Whole(offset \div 2)' = <<>>
    <3>1. 0 \div 2 = 0
      OBVIOUS
    <3>. QED BY <2>1, <3>1, EmptySeq
  <2>. HIDE DEF Whole
  <2>3. StreamAs(format, NewStream, Whole(offset \div 2))' = NewStream
    BY <2>2, StreamEmpty DEF StreamAs
  <2>. QED BY <2>1, <2>2, <2>3
<1>8. CASE ScreenReply
  BY <1>8 DEF ScreenReply
<1>9. CASE Release
  BY <1>9 DEF Release
<1>10. CASE Refuse
  BY <1>10 DEF Refuse, ReplyKnown
<1>11. CASE Write
  BY <1>11, KindTells DEF Write, ReplyKnown
<1>12. CASE Read
  <2>1. /\ reply' = reply /\ format' = format /\ (Native => writer' = writer)
        /\ ~Native => writer' = StreamAs(format, NewStream, Whole(offset' \div 2))
    BY <1>12, ReadStep
  <2>2. reply.kind = "stream" /\ answer' = answer
    BY <1>12 DEF Read, ReplyKnown
  <2>. QED BY <2>1, <2>2
<1>13. CASE EndStream
  BY <1>13 DEF EndStream, ReplyKnown
<1>14. CASE AuditResponse
  BY <1>14 DEF AuditResponse
<1>15. CASE PassOn
  BY <1>15 DEF PassOn
<1>. QED BY <1>1, <1>2, <1>3, <1>4, <1>5, <1>6, <1>7, <1>8, <1>9, <1>10,
            <1>11, <1>12, <1>13, <1>14, <1>15 DEF Next

LEMMA PromptKept ==
    ASSUME IInv, Next PROVE PromptKnown'
<1>. USE DEF IInv, NothingEarly, PromptKnown, Goto, Respond, Log, Deliver,
             config, request, response
<1>0. ASSUME UNCHANGED <<sent, prompt, format>> PROVE TurnsHeld(sent, prompt)'
  BY <1>0 DEF TurnsHeld, Exempt
<1>1. CASE Arrive
  <2>1. sent' = <<>> /\ pc' = "auth"
    BY <1>1 DEF Arrive
  <2>2. TurnsHeld(sent, prompt)'
    BY <2>1, EmptySeq DEF TurnsHeld
  <2>. QED BY <2>1, <2>2
<1>2. CASE Authenticate
  BY <1>2, <1>0 DEF Authenticate
<1>3. CASE ParseBody
  <2>1. CASE Respond("bad_request") /\ UNCHANGED <<request, sent>>
    BY <1>3, <1>0, <2>1
  <2>2. CASE \E body \in Bodies :
                /\ prompt' = PromptOf(body) /\ sent' = TurnsOf(body)
                /\ Goto(IF Native THEN "screen" ELSE "policy") /\ UNCHANGED format
    <3>1. PICK body \in Bodies :
                /\ prompt' = PromptOf(body) /\ sent' = TurnsOf(body)
                /\ Goto(IF Native THEN "screen" ELSE "policy") /\ UNCHANGED format
      BY <2>2
    <3>2. TurnsHeld(TurnsOf(body), PromptOf(body))
      BY SentIsHeld
    <3>. HIDE DEF PromptKnown
    <3>3. TurnsHeld(sent, prompt)'
      BY <3>1, <3>2 DEF TurnsHeld, Exempt
    <3>. QED BY <3>1, <3>3 DEF PromptKnown
  <2>. QED BY <1>3, <2>1, <2>2 DEF ParseBody
<1>4. CASE CheckPolicy
  BY <1>4, <1>0 DEF CheckPolicy
<1>5. CASE ScreenPrompt
  <2>1. PICK block \in Verdicts(prompt) :
          \/ block /\ Log("BLOCK_PROMPT", "refuse")
          \/ /\ ~block
             /\ IF mode = "unknown" /\ ~Native THEN Respond("empty") ELSE Goto("call")
             /\ UNCHANGED logged
    BY <1>5 DEF ScreenPrompt
  <2>2. pc' \in {"call", "wait", "judge", "release", "write", "read"} => ~Breaks(prompt)
    BY <2>1 DEF Verdicts
  <2>3. UNCHANGED <<sent, prompt, format>>
    BY <1>5 DEF ScreenPrompt
  <2>. QED BY <1>0, <2>2, <2>3
<1>6. CASE CallVertex
  BY <1>6, <1>0 DEF CallVertex
<1>7. CASE Receive
  BY <1>7, <1>0 DEF Receive
<1>8. CASE ScreenReply
  BY <1>8, <1>0 DEF ScreenReply
<1>9. CASE Release
  BY <1>9, <1>0 DEF Release
<1>10. CASE Refuse
  BY <1>10, <1>0 DEF Refuse
<1>11. CASE Write
  BY <1>11, <1>0 DEF Write
<1>12. CASE Read
  BY <1>12, <1>0 DEF Read
<1>13. CASE EndStream
  BY <1>13, <1>0 DEF EndStream
<1>14. CASE AuditResponse
  BY <1>14, <1>0 DEF AuditResponse
<1>15. CASE PassOn
  BY <1>15, <1>0 DEF PassOn
<1>. QED BY <1>1, <1>2, <1>3, <1>4, <1>5, <1>6, <1>7, <1>8, <1>9, <1>10,
            <1>11, <1>12, <1>13, <1>14, <1>15 DEF Next


(* The type invariant, kept. *)
LEMMA ModeTyped ==
    ASSUME IInv, Next
    PROVE  (mode \in {"strict", "fast", "audit", "unknown"} /\ demo \in BOOLEAN)'
<1>. USE DEF IInv, TypeOK, config
<1>1. CASE Arrive
  BY <1>1 DEF Arrive
<1>2. CASE Authenticate
  BY <1>2 DEF Authenticate
<1>3. CASE ParseBody
  BY <1>3 DEF ParseBody
<1>4. CASE CheckPolicy
  BY <1>4 DEF CheckPolicy
<1>5. CASE ScreenPrompt
  BY <1>5 DEF ScreenPrompt
<1>6. CASE CallVertex
  BY <1>6 DEF CallVertex
<1>7. CASE Receive
  BY <1>7 DEF Receive
<1>8. CASE ScreenReply
  BY <1>8 DEF ScreenReply
<1>9. CASE Release
  BY <1>9 DEF Release
<1>10. CASE Refuse
  BY <1>10 DEF Refuse
<1>11. CASE Write
  BY <1>11 DEF Write
<1>12. CASE Read
  BY <1>12 DEF Read
<1>13. CASE EndStream
  BY <1>13 DEF EndStream
<1>14. CASE AuditResponse
  BY <1>14 DEF AuditResponse
<1>15. CASE PassOn
  BY <1>15 DEF PassOn
<1>. QED BY <1>1, <1>2, <1>3, <1>4, <1>5, <1>6, <1>7, <1>8, <1>9, <1>10,
            <1>11, <1>12, <1>13, <1>14, <1>15 DEF Next


LEMMA StepTyped ==
    ASSUME IInv, Next
    PROVE  /\ (pc \in Step)'
           /\ (answer \in {"none", "unauthorised", "bad_request", "denied", "blocked", "error",
                           "empty", "delivered"})'
<1>. USE DEF IInv, TypeOK, Step, Goto, Respond, Log, Deliver
<1>1. CASE Arrive
  BY <1>1 DEF Arrive
<1>2. CASE Authenticate
  BY <1>2 DEF Authenticate
<1>3. CASE ParseBody
  BY <1>3 DEF ParseBody
<1>4. CASE CheckPolicy
  BY <1>4 DEF CheckPolicy
<1>5. CASE ScreenPrompt
  BY <1>5 DEF ScreenPrompt
<1>6. CASE CallVertex
  BY <1>6 DEF CallVertex
<1>7. CASE Receive
  BY <1>7 DEF Receive
<1>8. CASE ScreenReply
  BY <1>8 DEF ScreenReply
<1>9. CASE Release
  BY <1>9 DEF Release
<1>10. CASE Refuse
  BY <1>10 DEF Refuse
<1>11. CASE Write
  BY <1>11 DEF Write
<1>12. CASE Read
  BY <1>12 DEF Read
<1>13. CASE EndStream
  BY <1>13 DEF EndStream
<1>14. CASE AuditResponse
  BY <1>14 DEF AuditResponse
<1>15. CASE PassOn
  BY <1>15 DEF PassOn
<1>. QED BY <1>1, <1>2, <1>3, <1>4, <1>5, <1>6, <1>7, <1>8, <1>9, <1>10,
            <1>11, <1>12, <1>13, <1>14, <1>15 DEF Next


LEMMA RequestTyped ==
    ASSUME IInv, Next
    PROVE  (/\ format \in {"none", "openai", "anthropic", "native"} /\ stream \in BOOLEAN
            /\ prompt \in Seq(Piece) /\ sent \in Seq(Turns))'
<1>0. /\ format \in {"none", "openai", "anthropic", "native"} /\ stream \in BOOLEAN
      /\ prompt \in Seq(Piece) /\ sent \in Seq(Turns)
  BY DEF IInv, TypeOK, Turns
<1>. USE DEF request
<1>1. CASE Arrive
  BY <1>1, <1>0 DEF Arrive
<1>2. CASE Authenticate
  BY <1>2, <1>0 DEF Authenticate
<1>3. CASE ParseBody
  <2>1. CASE UNCHANGED <<request, sent>>
    BY <1>0, <2>1
  <2>2. CASE \E body \in Bodies :
                /\ stream' \in IF Native THEN {stream} ELSE BOOLEAN
                /\ prompt' = PromptOf(body) /\ sent' = TurnsOf(body) /\ UNCHANGED format
    <3>1. PICK body \in Bodies :
                /\ stream' \in IF Native THEN {stream} ELSE BOOLEAN
                /\ prompt' = PromptOf(body) /\ sent' = TurnsOf(body) /\ UNCHANGED format
      BY <2>2
    <3>2. PromptOf(body) \in Seq(Piece) /\ TurnsOf(body) \in Seq(Turns)
      BY PromptHolds, SentIsHeld
    <3>. QED BY <1>0, <3>1, <3>2
  <2>. QED BY <1>3, <2>1, <2>2 DEF ParseBody
<1>4. CASE CheckPolicy
  BY <1>4, <1>0 DEF CheckPolicy
<1>5. CASE ScreenPrompt
  BY <1>5, <1>0 DEF ScreenPrompt
<1>6. CASE CallVertex
  BY <1>6, <1>0 DEF CallVertex
<1>7. CASE Receive
  BY <1>7, <1>0 DEF Receive
<1>8. CASE ScreenReply
  BY <1>8, <1>0 DEF ScreenReply
<1>9. CASE Release
  BY <1>9, <1>0 DEF Release
<1>10. CASE Refuse
  BY <1>10, <1>0 DEF Refuse
<1>11. CASE Write
  BY <1>11, <1>0 DEF Write
<1>12. CASE Read
  BY <1>12, <1>0 DEF Read
<1>13. CASE EndStream
  BY <1>13, <1>0 DEF EndStream
<1>14. CASE AuditResponse
  BY <1>14, <1>0 DEF AuditResponse
<1>15. CASE PassOn
  BY <1>15, <1>0 DEF PassOn
<1>. QED BY <1>1, <1>2, <1>3, <1>4, <1>5, <1>6, <1>7, <1>8, <1>9, <1>10,
            <1>11, <1>12, <1>13, <1>14, <1>15 DEF Next


LEMMA ReplyTyped ==
    ASSUME IInv, Next
    PROVE  (reply \in ReplyType)'
<1>0. reply \in ReplyType
  BY DEF IInv, TypeOK, ReplyType
<1>. USE DEF response
<1>1. CASE Arrive
  BY <1>1, <1>0 DEF Arrive
<1>2. CASE Authenticate
  BY <1>2, <1>0 DEF Authenticate
<1>3. CASE ParseBody
  BY <1>3, <1>0 DEF ParseBody
<1>4. CASE CheckPolicy
  BY <1>4, <1>0 DEF CheckPolicy
<1>5. CASE ScreenPrompt
  BY <1>5, <1>0 DEF ScreenPrompt
<1>6. CASE CallVertex
  BY <1>6, <1>0 DEF CallVertex
<1>7. CASE Receive
  <2>1. reply' \in Answers \/ reply' = reply
    BY <1>7 DEF Receive
  <2>. QED BY <1>0, <2>1, AnswerKinds
<1>8. CASE ScreenReply
  BY <1>8, <1>0 DEF ScreenReply
<1>9. CASE Release
  BY <1>9, <1>0 DEF Release
<1>10. CASE Refuse
  BY <1>10, <1>0 DEF Refuse
<1>11. CASE Write
  BY <1>11, <1>0 DEF Write
<1>12. CASE Read
  BY <1>12, <1>0 DEF Read
<1>13. CASE EndStream
  BY <1>13, <1>0 DEF EndStream
<1>14. CASE AuditResponse
  BY <1>14, <1>0 DEF AuditResponse
<1>15. CASE PassOn
  BY <1>15, <1>0 DEF PassOn
<1>. QED BY <1>1, <1>2, <1>3, <1>4, <1>5, <1>6, <1>7, <1>8, <1>9, <1>10,
            <1>11, <1>12, <1>13, <1>14, <1>15 DEF Next

LEMMA OffsetTyped ==
    ASSUME IInv, Next
    PROVE  (offset \in 0..End(reply))'
<1>0. offset \in 0..End(reply)
  BY DEF IInv, TypeOK
<1>. USE DEF response, End
<1>1. CASE Arrive
  BY <1>1, <1>0 DEF Arrive
<1>2. CASE Authenticate
  BY <1>2, <1>0 DEF Authenticate
<1>3. CASE ParseBody
  BY <1>3, <1>0 DEF ParseBody
<1>4. CASE CheckPolicy
  BY <1>4, <1>0 DEF CheckPolicy
<1>5. CASE ScreenPrompt
  BY <1>5, <1>0 DEF ScreenPrompt
<1>6. CASE CallVertex
  BY <1>6, <1>0 DEF CallVertex
<1>7. CASE Receive
  <2>1. offset' = 0
    BY <1>7 DEF Receive, IInv, OffsetKnown, NothingEarly, Early, NoReply
  <2>2. Len(reply'.lines) \in Nat
    BY ReplyTyped, LenProperties DEF ReplyType
  <2>. QED BY <2>1, <2>2
<1>8. CASE ScreenReply
  BY <1>8, <1>0 DEF ScreenReply
<1>9. CASE Release
  BY <1>9, <1>0 DEF Release
<1>10. CASE Refuse
  BY <1>10, <1>0 DEF Refuse
<1>11. CASE Write
  BY <1>11, <1>0 DEF Write
<1>12. CASE Read
  <2>1. reply' = reply /\ offset' \in 0..End(reply)
    BY <1>12, ReadStep
  <2>. QED BY <2>1
<1>13. CASE EndStream
  BY <1>13, <1>0 DEF EndStream
<1>14. CASE AuditResponse
  BY <1>14, <1>0 DEF AuditResponse
<1>15. CASE PassOn
  BY <1>15, <1>0 DEF PassOn
<1>. QED BY <1>1, <1>2, <1>3, <1>4, <1>5, <1>6, <1>7, <1>8, <1>9, <1>10,
            <1>11, <1>12, <1>13, <1>14, <1>15 DEF Next


(* What is written when nothing has been: a refusal, or a whole reply. *)
LEMMA WrittenAtOnce ==
    ASSUME IInv, Refuse \/ Write
    PROVE  /\ writer = NewStream /\ passed = 0
           /\ writer' \in StreamState
           /\ Write => /\ OneObject(reply) /\ reply \in ReplyType
                       /\ format \in {"openai", "anthropic", "native"}
<1>1. writer = NewStream /\ reply.kind # "stream"
  BY KindTells DEF IInv, Refuse, Write, NothingEarly, ReplyKnown, WriterKnown
<1>2. passed = 0 /\ NewStream \in StreamState
  BY <1>1, NewStreamState, EmptySeq DEF IInv, TypeOK
<1>3. CASE Refuse
  <2>1. Event("error", <<>>) \in Written
    BY EventsAreWritten
  <2>2. <<Event("error", <<>>)>> \in Seq(Written)
    BY <2>1
  <2>3. writer' = [NewStream EXCEPT !.out = <<Event("error", <<>>)>>]
    BY <1>1, <1>3 DEF Refuse
  <2>. QED BY <1>1, <1>2, <1>3, <2>2, <2>3 DEF StreamState, Refuse, Write
<1>4. CASE Write
  <2>1. OneObject(reply) /\ reply \in ReplyType /\ format \in {"openai", "anthropic", "native"}
    BY <1>4, KindTells DEF IInv, TypeOK, ReplyType, NothingEarly, ReplyKnown, Write
  <2>2. ReplyText \in Seq(Piece) /\ WholeReply \in Seq(Written)
    BY <2>1, WholeReplyFacts
  <2>3. writer' = [NewStream EXCEPT !.out = WholeReply, !.accumulated = ReplyText]
    BY <1>1, <1>4 DEF Write
  <2>4. writer' \in StreamState
    BY <1>2, <2>2, <2>3 DEF StreamState
  <2>. QED BY <1>1, <1>2, <2>1, <2>4
<1>. QED BY <1>3, <1>4

LEMMA WriterTyped ==
    ASSUME IInv, Next
    PROVE  (writer \in StreamState /\ passed \in 0..Len(writer.out))'
<1>0. writer \in StreamState /\ passed \in 0..Len(writer.out)
  BY DEF IInv, TypeOK, StreamState
<1>. USE DEF response
<1>1. CASE Arrive
  BY <1>1, <1>0 DEF Arrive
<1>2. CASE Authenticate
  BY <1>2, <1>0 DEF Authenticate
<1>3. CASE ParseBody
  BY <1>3, <1>0 DEF ParseBody
<1>4. CASE CheckPolicy
  BY <1>4, <1>0 DEF CheckPolicy
<1>5. CASE ScreenPrompt
  BY <1>5, <1>0 DEF ScreenPrompt
<1>6. CASE CallVertex
  BY <1>6, <1>0 DEF CallVertex
<1>7. CASE Receive
  BY <1>7, <1>0 DEF Receive
<1>8. CASE ScreenReply
  BY <1>8, <1>0 DEF ScreenReply
<1>9. CASE Release
  BY <1>9, <1>0 DEF Release
<1>10. CASE Refuse
  <2>1. writer' \in StreamState /\ passed = 0 /\ passed' = passed
    BY <1>10, WrittenAtOnce DEF Refuse
  <2>2. Len(writer'.out) \in Nat
    BY <2>1, LenProperties DEF StreamState
  <2>. QED BY <2>1, <2>2
<1>11. CASE Write
  <2>1. writer' \in StreamState /\ passed = 0 /\ passed' = passed
    BY <1>11, WrittenAtOnce DEF Write
  <2>2. Len(writer'.out) \in Nat
    BY <2>1, LenProperties DEF StreamState
  <2>. QED BY <2>1, <2>2
<1>12. CASE Read
  <2>1. passed' = passed
    BY <1>12 DEF Read
  <2>2. writer' = writer \/ (writer' \in StreamState /\ Len(writer'.out) >= Len(writer.out))
    BY <1>12, ReadStep
  <2>3. Len(writer.out) \in Nat
    BY <1>0, LenProperties DEF StreamState
  <2>4. CASE writer' = writer
    BY <1>0, <2>1, <2>4
  <2>5. CASE writer' \in StreamState /\ Len(writer'.out) >= Len(writer.out)
    <3>1. Len(writer'.out) \in Nat
      BY <2>5, LenProperties DEF StreamState
    <3>. QED BY <1>0, <2>1, <2>3, <2>5, <3>1
  <2>. QED BY <2>2, <2>4, <2>5
<1>13. CASE EndStream
  BY <1>13, <1>0 DEF EndStream
<1>14. CASE AuditResponse
  BY <1>14, <1>0 DEF AuditResponse
<1>15. CASE PassOn
  <2>1. writer' = writer /\ passed' = Len(writer.out) /\ Len(writer.out) \in Nat
    BY <1>15, <1>0, LenProperties DEF PassOn, StreamState
  <2>. QED BY <1>0, <2>1
<1>. QED BY <1>1, <1>2, <1>3, <1>4, <1>5, <1>6, <1>7, <1>8, <1>9, <1>10,
            <1>11, <1>12, <1>13, <1>14, <1>15 DEF Next


LEMMA ScreenedTyped ==
    ASSUME IInv, Next
    PROVE  /\ (screened \in Seq(Piece))'
           /\ (logged \subseteq Notified \union {"MODEL_ARMOR_BLOCK", "ALLOW"})'
<1>0. screened \in Seq(Piece) /\ logged \subseteq Notified \union {"MODEL_ARMOR_BLOCK", "ALLOW"}
  BY DEF IInv, TypeOK
<1>. USE DEF response, Log, Notified
<1>1. CASE Arrive
  BY <1>1, <1>0 DEF Arrive
<1>2. CASE Authenticate
  BY <1>2, <1>0 DEF Authenticate
<1>3. CASE ParseBody
  BY <1>3, <1>0 DEF ParseBody
<1>4. CASE CheckPolicy
  BY <1>4, <1>0 DEF CheckPolicy
<1>5. CASE ScreenPrompt
  BY <1>5, <1>0 DEF ScreenPrompt
<1>6. CASE CallVertex
  BY <1>6, <1>0 DEF CallVertex
<1>7. CASE Receive
  BY <1>7, <1>0 DEF Receive
<1>8. CASE ScreenReply
  <2>1. ReplyText \in Seq(Piece)
    BY <1>8, KindTells, WholeReplyFacts
       DEF ScreenReply, IInv, TypeOK, ReplyType, NothingEarly, ReplyKnown
  <2>. QED BY <1>8, <1>0, <2>1 DEF ScreenReply
<1>9. CASE Release
  BY <1>9, <1>0 DEF Release
<1>10. CASE Refuse
  BY <1>10, <1>0 DEF Refuse
<1>11. CASE Write
  BY <1>11, <1>0 DEF Write
<1>12. CASE Read
  BY <1>12, <1>0 DEF Read
<1>13. CASE EndStream
  BY <1>13, <1>0 DEF EndStream
<1>14. CASE AuditResponse
  <2>1. writer.accumulated \in Seq(Piece)
    BY DEF IInv, TypeOK
  <2>. QED BY <1>14, <1>0, <2>1 DEF AuditResponse
<1>15. CASE PassOn
  BY <1>15, <1>0 DEF PassOn
<1>. QED BY <1>1, <1>2, <1>3, <1>4, <1>5, <1>6, <1>7, <1>8, <1>9, <1>10,
            <1>11, <1>12, <1>13, <1>14, <1>15 DEF Next


LEMMA TypesKept ==
    ASSUME IInv, Next PROVE TypeOK'
BY ModeTyped, StepTyped, RequestTyped, ReplyTyped, OffsetTyped, WriterTyped, ScreenedTyped
   DEF TypeOK, ReplyType, StreamState, Turns

(* The invariant as a whole. *)
LEMMA InitiallyIInv == Init => IInv
<1>. SUFFICES ASSUME Init PROVE IInv
  OBVIOUS
<1>1. TypeOK
  <2>1. <<>> \in Seq(Piece) /\ <<>> \in Seq(Turns) /\ <<>> \in Seq(Chunk) /\ Len(<<>>) = 0
    BY EmptySeq
  <2>2. NoReply \in ReplyType /\ End(NoReply) = 0
    BY <2>1 DEF NoReply, ReplyType, End
  <2>3. NewStream \in StreamState /\ NewStream.out = <<>>
    BY NewStreamState
  <2>4. /\ mode \in {"strict", "fast", "audit", "unknown"} /\ demo \in BOOLEAN /\ pc \in Step
        /\ format = "none" /\ stream \in BOOLEAN /\ prompt = <<>> /\ sent = <<>>
        /\ reply = NoReply /\ offset = 0 /\ writer = NewStream /\ passed = 0
        /\ screened = <<>> /\ logged = {} /\ answer = "none"
    BY DEF Init, Step
  <2>5. passed \in 0..Len(writer.out) /\ offset \in 0..End(reply)
    BY <2>1, <2>2, <2>3, <2>4
  <2>6. sent \in Seq([role : {"user", "model"}, text : Seq(Piece)])
    BY <2>1, <2>4 DEF Turns
  <2>7. writer \in [open : BOOLEAN, accumulated : Seq(Piece), out : Seq(Written)]
    BY <2>3, <2>4 DEF StreamState
  <2>8. reply \in [kind : {"none", "stream", "json", "armor_block", "garbled"},
                   lines : Seq(Chunk), cuts : SUBSET Nat]
    BY <2>2, <2>4 DEF ReplyType
  <2>. QED BY <2>1, <2>4, <2>5, <2>6, <2>7, <2>8 DEF TypeOK
<1>2. NothingEarly /\ LoggedKnown
  BY DEF Init, NothingEarly, Early, LoggedKnown
<1>3. TurnsHeld(sent, prompt)
  BY EmptySeq DEF Init, TurnsHeld
<1>4. PromptKnown
  BY <1>3 DEF Init, PromptKnown
<1>5. ReplyKnown /\ WriterKnown /\ ScreeningKnown
  BY DEF Init, ReplyKnown, WriterKnown, ScreeningKnown, NoReply
<1>6. OffsetKnown
  <2>1. 0 % 2 = 0
    OBVIOUS
  <2>. QED BY <2>1 DEF Init, OffsetKnown, NoReply
<1>. QED BY <1>1, <1>2, <1>4, <1>5, <1>6 DEF IInv

LEMMA Stutters ==
    ASSUME IInv, UNCHANGED vars PROVE IInv'
<1>. USE DEF vars, IInv
<1>1. TypeOK'
  BY DEF TypeOK, End
<1>2. NothingEarly' /\ LoggedKnown'
  BY DEF NothingEarly, LoggedKnown
<1>3. PromptKnown'
  BY DEF PromptKnown, TurnsHeld, Exempt
<1>4. ReplyKnown' /\ OffsetKnown'
  BY DEF ReplyKnown, Copies, Screens, Native, OffsetKnown, End
<1>5. WriterKnown'
  BY DEF WriterKnown, Whole, WholeReply, ReplyText, Native
<1>6. ScreeningKnown'
  BY DEF ScreeningKnown, Screens, Native, ReplyText
<1>. QED BY <1>1, <1>2, <1>3, <1>4, <1>5, <1>6

LEMMA ExchangeInvariant == Spec => []IInv
<1>1. IInv /\ [Next]_vars => IInv'
  <2>. SUFFICES ASSUME IInv, [Next]_vars PROVE IInv'
    OBVIOUS
  <2>1. CASE Next
    BY <2>1, TypesKept, NothingEarlyKept, PromptKept, ReplyKept, OffsetKept, WriterKept,
       ScreeningKept, LoggedKept DEF IInv
  <2>2. CASE UNCHANGED vars
    BY <2>2, Stutters
  <2>. QED BY <2>1, <2>2
<1>. QED BY InitiallyIInv, <1>1, PTL DEF Spec

-----------------------------------------------------------------------------
(* The types are right, whatever the bodies and the replies are: the states  *)
(* of a handler are the ones listed, a stream is read within its bounds, and *)
(* no more has left the buffer than was written (handler, streaming.go).     *)
THEOREM TypeCorrect == Spec => []TypeOK
<1>1. IInv => TypeOK
  BY DEF IInv
<1>. QED BY <1>1, ExchangeInvariant, PTL

LEMMA HeldOccurs ==
    ASSUME NEW P, NEW whole \in Seq(P), NEW part \in Seq(P), Holds(P, whole, part)
    PROVE  Occurs(part, whole)
<1>1. PICK a, b \in Seq(P) : whole = (a \o part) \o b
  BY DEF Holds
<1>2. Len(a) \in Nat /\ Len(b) \in Nat /\ Len(part) \in Nat
  BY LenProperties
<1>3. /\ a \o part \in Seq(P) /\ Len(a \o part) = Len(a) + Len(part)
      /\ \A k \in 1..Len(a) + Len(part) :
            (a \o part)[k] = IF k <= Len(a) THEN a[k] ELSE part[k - Len(a)]
  BY ConcatProperties
<1>. DEFINE front == a \o part
<1>. HIDE DEF front
<1>4. /\ Len(whole) = Len(front) + Len(b)
      /\ \A k \in 1..Len(front) + Len(b) :
            whole[k] = IF k <= Len(front) THEN front[k] ELSE b[k - Len(front)]
  BY <1>1, <1>3, ConcatProperties DEF front
<1>5. \A k \in 1..Len(part) : whole[Len(a) + k] = part[k]
  <2>. SUFFICES ASSUME NEW k \in 1..Len(part) PROVE whole[Len(a) + k] = part[k]
    OBVIOUS
  <2>1. Len(a) + k \in 1..Len(a) + Len(part) /\ ~(Len(a) + k <= Len(a)) /\ Len(a) + k - Len(a) = k
    BY <1>2
  <2>2. front[Len(a) + k] = part[k]
    BY <1>3, <2>1 DEF front
  <2>3. Len(a) + k \in 1..Len(front) + Len(b) /\ Len(a) + k <= Len(front)
    BY <1>2, <1>3, <2>1 DEF front
  <2>. QED BY <1>4, <2>2, <2>3
<1>. DEFINE cut == SubSeq(whole, Len(a) + 1, Len(a) + Len(part))
<1>6. cut = part
  <2>1. \A k \in Len(a) + 1..Len(a) + Len(part) : whole[k] \in P
    <3>. SUFFICES ASSUME NEW k \in Len(a) + 1..Len(a) + Len(part) PROVE whole[k] \in P
      OBVIOUS
    <3>1. k \in 1..Len(whole)
      BY <1>2, <1>3, <1>4 DEF front
    <3>. QED BY <3>1, ElementOfSeq
  <2>2. /\ cut \in Seq(P)
        /\ Len(cut) = IF Len(a) + 1 <= Len(a) + Len(part)
                      THEN Len(a) + Len(part) - (Len(a) + 1) + 1 ELSE 0
        /\ \A i \in 1..Len(a) + Len(part) - (Len(a) + 1) + 1 : cut[i] = whole[Len(a) + 1 + i - 1]
    <3>1. Len(a) + 1 \in Int /\ Len(a) + Len(part) \in Int
      BY <1>2
    <3>. QED BY <2>1, <3>1, SubSeqProperties
  <2>. HIDE DEF cut
  <2>3. Len(cut) = Len(part)
    BY <1>2, <2>2
  <2>4. \A i \in 1..Len(part) : cut[i] = whole[Len(a) + i]
    <3>1. \A i \in 1..Len(part) : i \in 1..Len(a) + Len(part) - (Len(a) + 1) + 1
                                  /\ Len(a) + 1 + i - 1 = Len(a) + i
      BY <1>2
    <3>. QED BY <2>2, <3>1
  <2>. QED BY <1>5, <2>2, <2>3, <2>4, SeqEqual
<1>7. Len(a) \in 0..Len(whole) - Len(part)
  BY <1>2, <1>3, <1>4 DEF front
<1>. QED BY <1>6, <1>7 DEF Occurs

(* What Gemini is called with was screened: every text that is sent occurs   *)
(* in a prompt that broke no rule, but for the acknowledgement of a system   *)
(* text and, of an Anthropic body, the system field - whatever the messages  *)
(* are, however many, and in any format (translate.go:24-112).               *)
THEOREM SentWasScreened == Spec => []ScreenedIsSent
<1>1. IInv => ScreenedIsSent
  <2>. SUFFICES ASSUME IInv, pc \in {"wait", "judge", "release", "read", "write"}
                PROVE  /\ ~Breaks(prompt)
                       /\ \A i \in DOMAIN sent :
                            \/ Occurs(sent[i].text, prompt)
                            \/ Acknowledged /\ (i = 2 \/ (i = 1 /\ format # "openai"))
    BY DEF ScreenedIsSent
  <2>1. ~Breaks(prompt)
    BY DEF IInv, PromptKnown
  <2>2. prompt \in Seq(Piece) /\ sent \in Seq(Turns) /\ TurnsHeld(sent, prompt)
    BY DEF IInv, TypeOK, Turns, PromptKnown
  <2>3. ASSUME NEW i \in DOMAIN sent
        PROVE  \/ Occurs(sent[i].text, prompt)
               \/ Acknowledged /\ (i = 2 \/ (i = 1 /\ format # "openai"))
    <3>1. i \in 1..Len(sent)
      BY <2>2, LenProperties
    <3>2. sent[i].text \in Seq(Piece)
      <4>1. sent[i] \in Turns
        BY <2>2, <3>1, ElementOfSeq
      <4>. QED BY <4>1 DEF Turns
    <3>3. Holds(Piece, prompt, sent[i].text) \/ Exempt(sent, i)
      BY <2>2, <3>1 DEF TurnsHeld
    <3>4. Exempt(sent, i) => Acknowledged /\ (i = 2 \/ (i = 1 /\ format # "openai"))
      BY DEF Exempt, Acknowledged, Acknowledgement
    <3>. QED BY <2>2, <3>2, <3>3, <3>4, HeldOccurs
  <2>. QED BY <2>1, <2>3
<1>. QED BY <1>1, ExchangeInvariant, PTL

(* What a translating loop has made of the lines it has seen.                *)
LEMMA StreamSoFar ==
    ASSUME IInv, reply.kind = "stream", ~Native
    PROVE  /\ Whole(offset \div 2) \in Seq(Chunk)
           /\ writer = StreamAs(format, NewStream, Whole(offset \div 2))
           /\ writer.accumulated = TextOf(Whole(offset \div 2))
           /\ ClientText(writer.out) = TextOf(Whole(offset \div 2))
           /\ ClientText(writer.out) = TextOf(Arrived)
<1>1. writer = StreamAs(format, NewStream, Whole(offset \div 2))
  BY DEF IInv, WriterKnown
<1>2. reply \in ReplyType /\ offset \in 0..End(reply)
  BY DEF IInv, TypeOK, ReplyType
<1>3. offset \div 2 \in 0..Len(reply.lines)
  <2>1. Len(reply.lines) \in Nat
    BY <1>2, LenProperties DEF ReplyType
  <2>. QED BY <1>2, <2>1 DEF End
<1>4. Whole(offset \div 2) \in Seq(Chunk)
  BY <1>2, <1>3, WholeType
<1>5. /\ writer.accumulated = TextOf(Whole(offset \div 2))
      /\ ClientText(writer.out) = TextOf(Whole(offset \div 2))
  BY <1>1, <1>4, StreamTexts
<1>6. TextOf(Arrived) = TextOf(Whole(offset \div 2))
  BY <1>4, SaidText DEF Arrived
<1>. QED BY <1>1, <1>4, <1>5, <1>6

(* A reply that was read as a whole, when it has been delivered.             *)
LEMMA WholeDelivered ==
    ASSUME IInv, reply.kind # "stream", answer = "delivered"
    PROVE  /\ reply \in ReplyType /\ OneObject(reply)
           /\ format \in {"openai", "anthropic", "native"}
           /\ writer.out = WholeReply /\ writer.accumulated = ReplyText
<1>1. pc \in {"audit", "done"} /\ format # "none"
  BY DEF IInv, NothingEarly
<1>2. reply.kind \in {"json", "armor_block"}
  BY DEF IInv, ReplyKnown
<1>3. OneObject(reply)
  BY <1>2, KindTells DEF IInv
<1>. QED BY <1>1, <1>3 DEF IInv, TypeOK, ReplyType, WriterKnown

(* A translated stream, however long and however its body is cut into reads, *)
(* has shown the client the texts of the lines that arrived whole, once and  *)
(* in order: only a line that a read ends in is lost (streaming.go:80-218).  *)
THEOREM LossesAreCuts == Spec => []LostOnlyAtCuts
<1>1. IInv => LostOnlyAtCuts
  BY StreamSoFar DEF LostOnlyAtCuts
<1>. QED BY <1>1, ExchangeInvariant, PTL

(* The events written are whole messages in the order of their protocol; a   *)
(* message is left open exactly by a stream whose last saying line had no    *)
(* finish reason, and what was screened as a whole is always closed          *)
(* (streaming.go:20-218).                                                    *)
THEOREM StreamsAreWellFormed == Spec => []WellFormedStream
<1>1. IInv => WellFormedStream
  <2>. SUFFICES ASSUME IInv PROVE WellFormedStream
    OBVIOUS
  <2>1. CASE reply.kind = "stream" /\ ~Native
    <3>. DEFINE lines == Whole(offset \div 2)
                s == StreamAs(format, NewStream, lines)
    <3>1. lines \in Seq(Chunk) /\ writer = s
      BY <2>1, StreamSoFar
    <3>. HIDE DEF lines
    <3>2. /\ InForm(format, s)
          /\ s.out = <<>> <=> Said(lines) = <<>>
          /\ Said(lines) # <<>> => s.open = (Last(Said(lines)).finish = "none")
      BY <3>1, StreamInForm
    <3>. HIDE DEF s
    <3>3. Arrived = Said(lines)
      BY DEF Arrived, lines
    <3>4. ~Screens
      BY <2>1, KindTells DEF IInv
    <3>5. Said(lines) # <<>> => (Closed(s.out) <=> Last(Said(lines)).finish # "none")
      <4>1. CASE s.open
        BY <3>2, <4>1 DEF InForm, Ends, OpenKinds, Closed
      <4>2. CASE ~s.open
        BY <3>2, <4>2 DEF InForm, Ends, ClosedKinds, Closed
      <4>. QED BY <4>1, <4>2
    <3>6. InOrder(s.out) /\ (s.out # <<>> => Head(s.out).event \in {"message_start", "role"})
      BY <3>2 DEF InForm, Sound, Starts
    <3>. QED BY <3>1, <3>3, <3>4, <3>5, <3>6 DEF WellFormedStream
  <2>2. CASE reply.kind = "stream" /\ Native
    <3>1. writer.out = <<>>
      BY <2>2, NewStreamState DEF IInv, WriterKnown
    <3>2. InOrder(writer.out)
      BY <3>1, EmptySeq DEF InOrder
    <3>3. ~Screens
      BY <2>2, KindTells DEF IInv
    <3>. QED BY <2>2, <3>1, <3>2, <3>3 DEF WellFormedStream
  <2>3. CASE reply.kind # "stream" /\ answer = "delivered"
    <3>1. WholeReply # <<>> /\ Head(WholeReply).event \in Heads /\ InOrder(WholeReply)
          /\ (stream /\ ~Native => Closed(WholeReply)) /\ writer.out = WholeReply
      BY <2>3, WholeDelivered, WholeReplyFacts
    <3>2. Screens /\ stream => ~Native
      BY DEF Screens
    <3>. QED BY <2>3, <3>1, <3>2 DEF WellFormedStream, Heads
  <2>4. CASE reply.kind # "stream" /\ answer \in {"denied", "blocked"}
    <3>1. writer.out = <<Event("error", <<>>)>> /\ Event("error", <<>>) \in Written
      BY <2>4, EventsAreWritten DEF IInv, WriterKnown
    <3>2. Event("error", <<>>).event = "error"
      BY DEF Event
    <3>3. InOrder(writer.out) /\ Head(writer.out).event = "error"
      BY <3>1, <3>2, OneEvent
    <3>. QED BY <2>4, <3>3 DEF WellFormedStream
  <2>5. CASE reply.kind # "stream" /\ answer \notin {"delivered", "denied", "blocked"}
    <3>1. writer.out = <<>>
      BY <2>5, NewStreamState DEF IInv, WriterKnown
    <3>2. InOrder(writer.out)
      BY <3>1, EmptySeq DEF InOrder
    <3>. QED BY <2>5, <3>1, <3>2 DEF WellFormedStream
  <2>. QED BY <2>1, <2>2, <2>3, <2>4, <2>5
<1>. QED BY <1>1, ExchangeInvariant, PTL

(* In strict mode a chat client is delivered exactly the text the chain      *)
(* passed, and in audit mode the audit screens exactly the text that was     *)
(* delivered, for every reply and every way of reading it                    *)
(* (openai.go:104-185, anthropic.go:90-171).                                 *)
THEOREM DeliveredIsScreened == Spec => []ScreenedIsDelivered
<1>1. IInv => ScreenedIsDelivered
  <2>. SUFFICES ASSUME IInv, pc = "done", answer = "delivered", ~Native,
                       mode \in {"strict", "audit"}
                PROVE  ClientText(writer.out) = screened
    BY DEF ScreenedIsDelivered
  <2>1. CASE reply.kind = "stream"
    <3>1. ~Screens
      BY <2>1, KindTells DEF IInv
    <3>2. mode = "audit"
      BY <3>1 DEF Screens
    <3>3. screened = writer.accumulated
      BY <3>2 DEF IInv, ScreeningKnown
    <3>. QED BY <2>1, <3>3, StreamSoFar
  <2>2. CASE reply.kind # "stream"
    <3>1. ClientText(writer.out) = ReplyText /\ writer.accumulated = ReplyText
      BY <2>2, WholeDelivered, WholeReplyFacts
    <3>2. screened = ReplyText
      BY <3>1 DEF IInv, ScreeningKnown, Screens
    <3>. QED BY <3>1, <3>2
  <2>. QED BY <2>1, <2>2
<1>. QED BY <1>1, ExchangeInvariant, PTL

-----------------------------------------------------------------------------
(* The request as Gateway sees it.                                           *)
Mapped == IF pc \in {"refuse", "read"} THEN "write" ELSE pc

Queued == IF logged \intersect Notified = {} THEN 0 ELSE 1

LEMMA OnlyOne ==
    /\ One = {"request"}
    /\ \A x : [r \in One |-> x]["request"] = x
    /\ \A x, y : [[r \in One |-> x] EXCEPT !["request"] = y] = [r \in One |-> y]
BY DEF One

(* Of a reply that was read as a whole, its text reaches the client. *)
LEMMA TextOfOne ==
    ASSUME NEW lines \in Seq(Chunk), Len(lines) = 1
    PROVE  TextOf(lines) = ExtractGeminiText(lines[1])
<1>. DEFINE line == lines[1]
<1>1. line \in Chunk
  BY ElementOfSeq
<1>2. <<>> \in Seq(Chunk) /\ Len(<<>>) = 0
  BY EmptySeq
<1>3. /\ Append(<<>>, line) \in Seq(Chunk) /\ Len(Append(<<>>, line)) = 1
      /\ Append(<<>>, line)[1] = line
  BY <1>1, <1>2, AppendProperties
<1>4. lines = Append(<<>>, line)
  BY <1>3, SeqEqual
<1>. HIDE DEF line
<1>5. TextOf(lines) = TextOf(<<>>) \o ExtractGeminiText(line)
  BY <1>1, <1>2, <1>4, TextAppend
<1>6. ExtractGeminiText(line) \in Seq(Piece)
  BY <1>1, LineText
<1>7. <<>> \o ExtractGeminiText(line) = ExtractGeminiText(line)
  BY <1>6, ConcatEmptySeq
<1>. QED BY <1>5, <1>7, TextEmpty DEF line

LEMMA WholeReaches ==
    ASSUME reply \in ReplyType, OneObject(reply)
    PROVE  ReachingText = ReplyText /\ ReplyText \in Seq(Piece)
<1>1. reply.lines \in Seq(Chunk) /\ Len(reply.lines) = 1 /\ reply.cuts = {}
  BY DEF ReplyType, OneObject
<1>2. Whole(1) \in Seq(Chunk) /\ Len(Whole(1)) = 1 /\ Whole(1)[1] = reply.lines[1]
  <2>1. 1 \in 0..Len(reply.lines) /\ 1 \in 1..1
    BY <1>1
  <2>. QED BY <1>1, <2>1, WholeType
<1>3. TextOf(reply.lines) = ReplyText /\ TextOf(Whole(1)) = ReplyText
  BY <1>1, <1>2, TextOfOne DEF ReplyText
<1>4. ReplyText \in Seq(Piece)
  <2>1. reply.lines[1] \in Chunk
    BY <1>1, ElementOfSeq
  <2>. QED BY <2>1, LineText DEF ReplyText
<1>. QED BY <1>1, <1>3, <1>4 DEF ReachingText

(* A screening decides by the class of a text what it decides by the text.   *)
LEMMA ClassDecides ==
    ASSUME NEW text
    PROVE  /\ Class(text) \in {"local", "clean"}
           /\ \A block \in Verdicts(text) : block \in AbstractGateway!Blocked(Class(text))
           /\ \A block \in ReplyVerdicts(text) : block \in AbstractGateway!Blocked(Class(text))
<1>1. Class(text) = "local" <=> Breaks(text)
  BY DEF Class
<1>2. Class(text) \in {"local", "clean"}
  BY DEF Class
<1>3. AbstractGateway!Blocked(Class(text)) = Verdicts(text)
  BY <1>1, <1>2 DEF AbstractGateway!Blocked, Verdicts
<1>4. ~Breaks(<<>>)
  <2>1. Len(<<>>) = 0
    BY EmptySeq
  <2>. QED BY <2>1 DEF Breaks
<1>5. \A block \in ReplyVerdicts(text) : block \in Verdicts(text)
  BY <1>4 DEF ReplyVerdicts, Verdicts
<1>. QED BY <1>2, <1>3, <1>5

(* What the audit screens is what has reached the client. *)
LEMMA AuditDecides ==
    ASSUME IInv, pc = "audit", NEW block \in ReplyVerdicts(writer.accumulated)
    PROVE  block \in AbstractGateway!Blocked(GatewayReply)
<1>1. answer = "delivered" /\ ~Native
  BY DEF IInv, ScreeningKnown
<1>2. CASE reply.kind = "stream"
  <2>1. reply \in ReplyType /\ offset = End(reply)
    BY <1>1, <1>2 DEF IInv, TypeOK, ReplyType, OffsetKnown
  <2>2. offset \div 2 = Len(reply.lines)
    <3>1. Len(reply.lines) \in Nat
      BY <2>1, LenProperties DEF ReplyType
    <3>2. \A n \in Nat : (2 * n) \div 2 = n
      OBVIOUS
    <3>. QED BY <2>1, <3>1, <3>2 DEF End
  <2>3. writer.accumulated = TextOf(Whole(Len(reply.lines)))
    BY <1>1, <1>2, <2>2, StreamSoFar
  <2>4. GatewayReply = Class(writer.accumulated)
    BY <1>1, <1>2, <2>3 DEF GatewayReply, ReachingText
  <2>. QED BY <2>4, ClassDecides
<1>3. CASE reply.kind # "stream"
  <2>1. /\ reply \in ReplyType /\ OneObject(reply) /\ writer.accumulated = ReplyText
        /\ ReachingText = ReplyText
    BY <1>1, <1>3, WholeDelivered, WholeReaches
  <2>2. CASE reply.kind = "json"
    <3>1. GatewayReply = Class(writer.accumulated)
      BY <2>1, <2>2 DEF GatewayReply
    <3>. QED BY <3>1, ClassDecides
  <2>3. CASE reply.kind = "armor_block"
    <3>1. reply.lines[1] = Silence
      BY <2>1, <2>3 DEF OneObject
    <3>2. ReplyText = <<>>
      BY <3>1 DEF ReplyText, ExtractGeminiText, Silence
    <3>3. block = FALSE
      BY <2>1, <3>2 DEF ReplyVerdicts
    <3>4. AbstractGateway!Blocked("armor_block") = {FALSE}
      BY DEF AbstractGateway!Blocked
    <3>. QED BY <2>3, <3>3, <3>4 DEF GatewayReply
  <2>. QED BY <1>1, <1>3, <2>2, <2>3 DEF IInv, ReplyKnown
<1>. QED BY <1>2, <1>3

(* What Gateway sees of a step that leaves the reply and the log alone. *)
LEMMA LeftAlone ==
    /\ reply' = reply /\ format' = format => GatewayReply' = GatewayReply
    /\ logged' = logged => GatewayPlan' = GatewayPlan /\ Queued' = Queued
BY DEF GatewayReply, ReachingText, Whole, Native, GatewayPlan, Queued

LEMMA RequestSeen ==
    ASSUME format # "none"
    PROVE  GatewayRequest = [format |-> IF Native THEN "native" ELSE "chat",
                             stream |-> stream,
                             prompt |-> IF Parsed THEN Class(prompt) ELSE "none"]
BY DEF GatewayRequest, Native

LEMMA SameRequest ==
    ASSUME format' = format, stream' = stream, prompt' = prompt, Parsed' <=> Parsed
    PROVE  GatewayRequest' = GatewayRequest
BY DEF GatewayRequest, Native

LEMMA ArriveMaps ==
    ASSUME IInv, Arrive PROVE AbstractGateway!Arrive("request", "other")
<1>1. pc = "idle" /\ answer = "none" /\ logged = {} /\ reply = NoReply
  BY DEF Arrive, IInv, NothingEarly, Early
<1>2. /\ pc' = "auth" /\ answer' = "none" /\ logged' = {} /\ reply' = NoReply /\ mode' = mode
      /\ format' \in {"openai", "anthropic", "native"}
      /\ stream' \in IF format' = "native" THEN BOOLEAN ELSE {FALSE}
  BY <1>1 DEF Arrive, config, response
<1>3. /\ GatewayReply' = "none" /\ GatewayPlan' = "none" /\ Queued' = Queued /\ logged' = logged
      /\ Mapped = "idle" /\ Mapped' = "auth"
  BY <1>1, <1>2 DEF GatewayReply, NoReply, GatewayPlan, Queued, Mapped
<1>4. \E f \in {"chat", "native"}, s \in BOOLEAN :
        (f = "chat" => ~s) /\ GatewayRequest' = [format |-> f, stream |-> s, prompt |-> "none"]
  <2>1. ~Parsed'
    BY <1>2 DEF Parsed
  <2>. DEFINE f == IF format' = "native" THEN "native" ELSE "chat"
  <2>2. GatewayRequest' = [format |-> f, stream |-> stream', prompt |-> "none"]
    BY <1>2, <2>1 DEF GatewayRequest, Native
  <2>3. f \in {"chat", "native"} /\ stream' \in BOOLEAN /\ (f = "chat" => ~stream')
    BY <1>2
  <2>. QED BY <2>2, <2>3
<1>. QED BY <1>1, <1>2, <1>3, <1>4, OnlyOne
     DEF AbstractGateway!Arrive, AbstractGateway!Carrying, Mapped, Queued

LEMMA AuthenticateMaps ==
    ASSUME IInv, Authenticate PROVE AbstractGateway!Authenticate("request")
<1>1. /\ pc = "auth" /\ (Respond("unauthorised") \/ Goto(IF Native THEN "policy" ELSE "parse"))
      /\ UNCHANGED <<mode, format, stream, prompt, reply, logged>> /\ answer = "none"
      /\ format # "none"
  BY DEF Authenticate, IInv, NothingEarly, config, request, response
<1>2. ~Parsed /\ ~Parsed'
  BY <1>1 DEF Parsed, Respond, Goto, Native
<1>3. GatewayRequest' = GatewayRequest /\ GatewayReply' = GatewayReply /\ GatewayPlan' = GatewayPlan
      /\ Queued' = Queued
  BY <1>1, <1>2, SameRequest, LeftAlone
<1>4. GatewayRequest.format = IF Native THEN "native" ELSE "chat"
  BY <1>1, RequestSeen
<1>. QED BY <1>1, <1>3, <1>4, OnlyOne
     DEF AbstractGateway!Authenticate, AbstractGateway!Respond, AbstractGateway!Goto, Respond, Goto,
         Mapped, Queued

LEMMA ParseBodyMaps ==
    ASSUME IInv, ParseBody PROVE AbstractGateway!ParseBody("request")
<1>1. /\ pc = "parse" /\ answer = "none" /\ logged = {} /\ format # "none"
      /\ UNCHANGED <<mode, reply, logged>>
      /\ stream \in BOOLEAN
  BY DEF ParseBody, IInv, TypeOK, NothingEarly, Early, config, response
<1>2. GatewayReply' = GatewayReply /\ GatewayPlan' = GatewayPlan /\ Queued' = Queued
  <2>1. format' = format
    BY DEF ParseBody, request
  <2>. QED BY <1>1, <2>1, LeftAlone
<1>3. GatewayRequest.format = (IF Native THEN "native" ELSE "chat") /\ GatewayRequest.stream = stream
  BY <1>1, RequestSeen
<1>4. CASE Respond("bad_request") /\ UNCHANGED <<request, sent>>
  <2>1. ~Parsed /\ ~Parsed' /\ UNCHANGED <<format, stream, prompt>>
    BY <1>1, <1>4 DEF Parsed, Respond, request
  <2>2. GatewayRequest' = GatewayRequest
    BY <2>1, SameRequest
  <2>. QED BY <1>1, <1>2, <1>4, <2>2, OnlyOne
       DEF AbstractGateway!ParseBody, AbstractGateway!Respond, Respond, Mapped, Queued
<1>5. CASE \E body \in Bodies :
            /\ stream' \in IF Native THEN {stream} ELSE BOOLEAN
            /\ Goto(IF Native THEN "screen" ELSE "policy")
            /\ UNCHANGED format
  <2>1. stream' \in BOOLEAN /\ (Native => stream' = stream) /\ format' = format
        /\ pc' = (IF Native THEN "screen" ELSE "policy") /\ answer' = "none"
    BY <1>1, <1>5 DEF Goto
  <2>2. Parsed'
    BY <1>1, <2>1 DEF Parsed, Native
  <2>3. GatewayRequest' = [format |-> GatewayRequest.format, stream |-> stream',
                           prompt |-> Class(prompt')]
    BY <1>1, <1>3, <2>1, <2>2 DEF GatewayRequest, Native, Class
  <2>4. Class(prompt') \in {"local", "clean"}
    BY ClassDecides
  <2>5. \E t \in {"local", "clean"}, s \in BOOLEAN :
            /\ GatewayRequest.format = "native" => s = GatewayRequest.stream
            /\ GatewayRequest' = AbstractGateway!Carrying(GatewayRequest.format, s, t)
    BY <1>3, <2>1, <2>3, <2>4 DEF AbstractGateway!Carrying
  <2>. QED BY <1>1, <1>2, <1>3, <2>1, <2>5, OnlyOne
       DEF AbstractGateway!ParseBody, AbstractGateway!Goto, AbstractGateway!Text, Mapped, Queued
<1>. QED BY <1>4, <1>5 DEF ParseBody

LEMMA CheckPolicyMaps ==
    ASSUME IInv, CheckPolicy PROVE AbstractGateway!CheckPolicy("request")
<1>1. /\ pc = "policy" /\ answer = "none" /\ logged = {} /\ format # "none"
      /\ UNCHANGED <<mode, format, stream, prompt, reply>>
  BY DEF CheckPolicy, IInv, NothingEarly, Early, config, request, response
<1>2. GatewayReply' = GatewayReply
  BY <1>1, LeftAlone
<1>3. Parsed <=> ~Native
  BY <1>1 DEF Parsed
<1>4. CASE Log("DENY_POLICY", "refuse")
  <2>1. pc' = "refuse" /\ answer' = "none" /\ logged' = {"DENY_POLICY"}
    BY <1>1, <1>4 DEF Log, Goto
  <2>2. GatewayRequest' = GatewayRequest
    <3>1. Parsed' <=> ~Native
      BY <1>1, <2>1 DEF Parsed, Native
    <3>. QED BY <1>1, <1>3, <3>1, SameRequest
  <2>3. GatewayPlan' = "denied" /\ Queued = 0 /\ Queued' = 1 /\ Mapped' = "write" /\ Mapped = "policy"
    BY <1>1, <2>1 DEF GatewayPlan, Queued, Notified, Mapped
  <2>. QED BY <1>1, <1>2, <2>1, <2>2, <2>3, OnlyOne
       DEF AbstractGateway!CheckPolicy, AbstractGateway!LogThenWrite, AbstractGateway!Log,
           AbstractGateway!Goto, AbstractGateway!Notified, Mapped, Queued
<1>5. CASE Goto(IF Native THEN "parse" ELSE "screen") /\ UNCHANGED logged
  <2>1. GatewayRequest' = GatewayRequest
    <3>1. Parsed' <=> ~Native
      BY <1>1, <1>5 DEF Parsed, Native, Goto
    <3>. QED BY <1>1, <1>3, <3>1, SameRequest
  <2>2. GatewayPlan' = GatewayPlan /\ Queued' = Queued
    BY <1>5, LeftAlone
  <2>3. GatewayRequest.format = IF Native THEN "native" ELSE "chat"
    BY <1>1, RequestSeen
  <2>. QED BY <1>1, <1>2, <1>5, <2>1, <2>2, <2>3, OnlyOne
       DEF AbstractGateway!CheckPolicy, AbstractGateway!Goto, Goto, Mapped, Queued
<1>. QED BY <1>4, <1>5 DEF CheckPolicy

LEMMA ScreenPromptMaps ==
    ASSUME IInv, ScreenPrompt PROVE AbstractGateway!ScreenPrompt("request")
<1>1. /\ pc = "screen" /\ answer = "none" /\ logged = {} /\ format # "none"
      /\ UNCHANGED <<mode, format, stream, prompt, reply>>
  BY DEF ScreenPrompt, IInv, NothingEarly, Early, config, request, response
<1>2. GatewayReply' = GatewayReply
  BY <1>1, LeftAlone
<1>3. Parsed
  BY <1>1 DEF Parsed
<1>4. PICK block \in Verdicts(prompt) :
        \/ block /\ Log("BLOCK_PROMPT", "refuse")
        \/ /\ ~block
           /\ IF mode = "unknown" /\ ~Native THEN Respond("empty") ELSE Goto("call")
           /\ UNCHANGED logged
  BY DEF ScreenPrompt
<1>5. /\ GatewayRequest.prompt = Class(prompt)
      /\ GatewayRequest.format = IF Native THEN "native" ELSE "chat"
  BY <1>1, <1>3, RequestSeen
<1>6. block \in AbstractGateway!Blocked(GatewayRequest.prompt)
  BY <1>5, ClassDecides
<1>7. CASE block /\ Log("BLOCK_PROMPT", "refuse")
  <2>1. pc' = "refuse" /\ answer' = "none" /\ logged' = {"BLOCK_PROMPT"}
    BY <1>1, <1>7 DEF Log, Goto
  <2>2. GatewayRequest' = GatewayRequest
    <3>1. Parsed'
      BY <1>1, <2>1 DEF Parsed, Native
    <3>. QED BY <1>1, <1>3, <3>1, SameRequest
  <2>3. GatewayPlan' = "blocked" /\ Queued = 0 /\ Queued' = 1 /\ Mapped' = "write" /\ Mapped = "screen"
    BY <1>1, <2>1 DEF GatewayPlan, Queued, Notified, Mapped
  <2>4. AbstractGateway!LogThenWrite("request", "BLOCK_PROMPT", "blocked")
    BY <1>1, <2>1, <2>3, OnlyOne
       DEF AbstractGateway!LogThenWrite, AbstractGateway!Log,
           AbstractGateway!Goto, AbstractGateway!Notified, Mapped, Queued
  <2>. QED BY <1>1, <1>2, <1>6, <1>7, <2>2, <2>3, <2>4, OnlyOne
       DEF AbstractGateway!ScreenPrompt, Mapped
<1>8. CASE /\ ~block
           /\ IF mode = "unknown" /\ ~Native THEN Respond("empty") ELSE Goto("call")
           /\ UNCHANGED logged
  <2>1. GatewayRequest' = GatewayRequest
    <3>1. Parsed'
      BY <1>1, <1>8 DEF Parsed, Native, Goto, Respond
    <3>. QED BY <1>1, <1>3, <3>1, SameRequest
  <2>2. GatewayPlan' = GatewayPlan /\ Queued' = Queued
    BY <1>8, LeftAlone
  <2>. QED BY <1>1, <1>2, <1>5, <1>6, <1>8, <2>1, <2>2, OnlyOne
       DEF AbstractGateway!ScreenPrompt, AbstractGateway!Goto, AbstractGateway!Respond,
           Goto, Respond, Mapped, Queued
<1>. QED BY <1>4, <1>7, <1>8

LEMMA CallVertexMaps ==
    ASSUME IInv, CallVertex PROVE AbstractGateway!CallVertex("request")
<1>1. /\ pc = "call" /\ pc' = "wait" /\ answer' = answer /\ answer = "none" /\ logged = {}
      /\ UNCHANGED <<mode, format, stream, prompt, reply, logged>>
  BY DEF CallVertex, Goto, IInv, NothingEarly, Early, config, request, response
<1>2. Parsed /\ Parsed'
  BY <1>1 DEF Parsed
<1>3. GatewayRequest' = GatewayRequest /\ GatewayReply' = GatewayReply /\ GatewayPlan' = GatewayPlan
      /\ Queued' = Queued
  BY <1>1, <1>2, SameRequest, LeftAlone
<1>. QED BY <1>1, <1>3, OnlyOne
     DEF AbstractGateway!CallVertex, AbstractGateway!Goto, AbstractGateway!Gate!Pass,
         AbstractGateway!Waiting, Mapped, Queued

LEMMA ReceiveMaps ==
    ASSUME IInv, Receive PROVE AbstractGateway!Receive("request")
<1>1. /\ pc = "wait" /\ answer = "none" /\ logged = {} /\ format # "none"
      /\ UNCHANGED <<mode, format, stream, prompt, logged>>
  BY DEF Receive, IInv, NothingEarly, Early, config, request
<1>2. GatewayPlan' = GatewayPlan /\ Queued' = Queued
  BY <1>1, LeftAlone
<1>3. Parsed
  BY <1>1 DEF Parsed
<1>4. /\ GatewayRequest.stream = stream
      /\ GatewayRequest.format = IF Native THEN "native" ELSE "chat"
  BY <1>1, RequestSeen
<1>5. AbstractGateway!Gate!Return("request") <=>
        "request" \in AbstractGateway!Waiting /\ AbstractGateway!Waiting' = AbstractGateway!Waiting \ {"request"}
  BY DEF AbstractGateway!Gate!Return
<1>6. ASSUME pc' \in {"done", "judge", "release"} PROVE AbstractGateway!Gate!Return("request")
  BY <1>1, <1>5, <1>6, OnlyOne DEF AbstractGateway!Waiting
<1>7. CASE Respond("error") /\ UNCHANGED reply
  <2>1. Parsed'
    BY <1>1, <1>7 DEF Parsed, Native, Respond
  <2>2. GatewayRequest' = GatewayRequest /\ GatewayReply' = GatewayReply
    BY <1>1, <1>3, <1>7, <2>1, SameRequest, LeftAlone
  <2>3. AbstractGateway!Gate!Return("request")
    BY <1>6, <1>7 DEF Respond
  <2>. QED BY <1>1, <1>2, <1>7, <2>2, <2>3, OnlyOne
       DEF AbstractGateway!Receive, AbstractGateway!Respond, AbstractGateway!Reply, Respond, Mapped, Queued
<1>8. CASE /\ reply' \in Answers
           /\ IF reply'.kind = "garbled" THEN Respond("error")
              ELSE Goto(IF Screens THEN "judge" ELSE "release")
  <2>1. Parsed'
    BY <1>1, <1>8 DEF Parsed, Native, Respond, Goto
  <2>2. GatewayRequest' = GatewayRequest
    BY <1>1, <1>3, <2>1, SameRequest
  <2>3. AbstractGateway!Gate!Return("request")
    BY <1>6, <1>8 DEF Respond, Goto
  <2>4. (Copies => AStream(reply')) /\ (~Copies => OneObject(reply'))
    BY <1>8, AnswerKinds
  <2>. DEFINE b == GatewayReply'
  <2>5. /\ b \in {"local", "clean", "armor_block", "garbled"}
        /\ b = "garbled" <=> reply'.kind = "garbled"
        /\ reply'.kind = "garbled" => ~Copies
    <3>1. reply'.kind \in {"stream", "json", "armor_block", "garbled"}
          /\ (reply'.kind = "garbled" => ~Copies)
      BY <2>4 DEF AStream, OneObject
    <3>2. \A text : Class(text) \in {"local", "clean"}
      BY ClassDecides
    <3>. QED BY <3>1, <3>2 DEF GatewayReply
  <2>6. /\ AbstractGateway!Screens("request") <=> Screens
        /\ AbstractGateway!Streams("request") <=> Copies
    BY <1>4, OnlyOne
       DEF AbstractGateway!Screens, AbstractGateway!Streams, Screens, Copies
  <2>. HIDE DEF b
  <2>7. /\ b \in AbstractGateway!Reply
        /\ [r \in One |-> GatewayReply]' = [[r \in One |-> GatewayReply] EXCEPT !["request"] = b]
    BY <2>5, OnlyOne DEF AbstractGateway!Reply, AbstractGateway!Text, b
  <2>8. IF b = "garbled" /\ ~AbstractGateway!Streams("request")
        THEN AbstractGateway!Respond("request", "error")
        ELSE AbstractGateway!Goto("request",
                IF AbstractGateway!Screens("request") THEN "judge" ELSE "release")
    <3>1. b = "garbled" /\ ~AbstractGateway!Streams("request") <=> reply'.kind = "garbled"
      BY <2>5, <2>6 DEF b
    <3>2. CASE reply'.kind = "garbled"
      <4>1. AbstractGateway!Respond("request", "error")
        BY <1>1, <1>8, <3>2, OnlyOne DEF AbstractGateway!Respond, Respond, Mapped
      <4>. QED BY <3>1, <3>2, <4>1
    <3>3. CASE reply'.kind # "garbled"
      <4>1. AbstractGateway!Goto("request",
                IF AbstractGateway!Screens("request") THEN "judge" ELSE "release")
        BY <1>1, <1>8, <2>6, <3>3, OnlyOne DEF AbstractGateway!Goto, Goto, Mapped
      <4>. QED BY <3>1, <3>3, <4>1
    <3>. QED BY <3>2, <3>3
  <2>. QED BY <1>1, <1>2, <2>2, <2>3, <2>7, <2>8, OnlyOne
       DEF AbstractGateway!Receive, Queued
<1>. QED BY <1>7, <1>8 DEF Receive

LEMMA ScreenReplyMaps ==
    ASSUME IInv, ScreenReply PROVE AbstractGateway!ScreenReply("request")
<1>1. /\ pc = "judge" /\ answer = "none" /\ logged = {} /\ format # "none"
      /\ UNCHANGED <<mode, format, stream, prompt, reply>>
  BY DEF ScreenReply, IInv, NothingEarly, Early, config, request
<1>2. GatewayReply' = GatewayReply
  BY <1>1, LeftAlone
<1>3. Parsed
  BY <1>1 DEF Parsed
<1>4. CASE reply.kind = "armor_block" /\ Log("MODEL_ARMOR_BLOCK", "refuse")
  <2>1. pc' = "refuse" /\ answer' = "none" /\ logged' = {"MODEL_ARMOR_BLOCK"}
    BY <1>1, <1>4 DEF Log, Goto
  <2>2. Parsed'
    BY <1>1, <2>1 DEF Parsed, Native
  <2>3. GatewayRequest' = GatewayRequest
    BY <1>1, <1>3, <2>2, SameRequest
  <2>4. /\ GatewayPlan' = "blocked" /\ Queued = 0 /\ Queued' = 0
        /\ Mapped' = "write" /\ Mapped = "judge" /\ GatewayReply = "armor_block"
    BY <1>1, <1>4, <2>1 DEF GatewayPlan, Queued, Notified, Mapped, GatewayReply
  <2>5. AbstractGateway!LogThenWrite("request", "MODEL_ARMOR_BLOCK", "blocked")
    BY <1>1, <2>1, <2>4, OnlyOne
       DEF AbstractGateway!LogThenWrite, AbstractGateway!Log,
           AbstractGateway!Goto, AbstractGateway!Notified, Mapped, Queued
  <2>. QED BY <1>1, <1>2, <2>3, <2>4, <2>5, OnlyOne DEF AbstractGateway!ScreenReply, Mapped
<1>5. CASE /\ reply.kind = "json"
           /\ \E block \in ReplyVerdicts(ReplyText) :
                IF block THEN Log("BLOCK_RESPONSE", "refuse") ELSE Log("ALLOW", "write")
  <2>1. PICK block \in ReplyVerdicts(ReplyText) :
            IF block THEN Log("BLOCK_RESPONSE", "refuse") ELSE Log("ALLOW", "write")
    BY <1>5
  <2>2. reply \in ReplyType /\ OneObject(reply)
    BY <1>5, KindTells DEF IInv, TypeOK, ReplyType
  <2>3. GatewayReply = Class(ReplyText)
    BY <1>5, <2>2, WholeReaches DEF GatewayReply
  <2>4. block \in AbstractGateway!Blocked(GatewayReply) /\ GatewayReply # "armor_block"
    BY <2>3, ClassDecides
  <2>5. CASE block
    <3>1. pc' = "refuse" /\ answer' = "none" /\ logged' = {"BLOCK_RESPONSE"}
      BY <1>1, <2>1, <2>5 DEF Log, Goto
    <3>2. Parsed'
      BY <1>1, <3>1 DEF Parsed, Native
    <3>3. GatewayRequest' = GatewayRequest
      BY <1>1, <1>3, <3>2, SameRequest
    <3>4. /\ GatewayPlan' = "blocked" /\ Queued = 0 /\ Queued' = 1
          /\ Mapped' = "write" /\ Mapped = "judge"
      BY <1>1, <3>1 DEF GatewayPlan, Queued, Notified, Mapped
    <3>5. AbstractGateway!LogThenWrite("request", "BLOCK_RESPONSE", "blocked")
      BY <1>1, <3>1, <3>4, OnlyOne
         DEF AbstractGateway!LogThenWrite, AbstractGateway!Log,
             AbstractGateway!Goto, AbstractGateway!Notified, Mapped, Queued
    <3>. QED BY <1>1, <1>2, <2>4, <2>5, <3>3, <3>4, <3>5, OnlyOne
         DEF AbstractGateway!ScreenReply, Mapped
  <2>6. CASE ~block
    <3>1. pc' = "write" /\ answer' = "none" /\ logged' = {"ALLOW"}
      BY <1>1, <2>1, <2>6 DEF Log, Goto
    <3>2. Parsed'
      BY <1>1, <3>1 DEF Parsed, Native
    <3>3. GatewayRequest' = GatewayRequest
      BY <1>1, <1>3, <3>2, SameRequest
    <3>4. /\ GatewayPlan' = "delivered" /\ Queued = 0 /\ Queued' = 0
          /\ Mapped' = "write" /\ Mapped = "judge"
      BY <1>1, <3>1 DEF GatewayPlan, Queued, Notified, Mapped
    <3>5. AbstractGateway!LogThenWrite("request", "ALLOW", "delivered")
      BY <1>1, <3>1, <3>4, OnlyOne
         DEF AbstractGateway!LogThenWrite, AbstractGateway!Log,
             AbstractGateway!Goto, AbstractGateway!Notified, Mapped, Queued
    <3>. QED BY <1>1, <1>2, <2>4, <2>6, <3>3, <3>4, <3>5, OnlyOne
         DEF AbstractGateway!ScreenReply, Mapped
  <2>. QED BY <2>5, <2>6
<1>. QED BY <1>4, <1>5 DEF ScreenReply

LEMMA ReleaseMaps ==
    ASSUME IInv, Release PROVE AbstractGateway!Release("request")
<1>1. /\ pc = "release" /\ answer = "none" /\ logged = {} /\ format # "none"
      /\ UNCHANGED <<mode, format, stream, prompt, reply>>
  BY DEF Release, IInv, NothingEarly, Early, config, request, response
<1>2. pc' \in {"read", "write"} /\ answer' = "none" /\ logged' = {"ALLOW"}
  BY <1>1 DEF Release, Log, Goto
<1>3. Parsed /\ Parsed'
  BY <1>1, <1>2 DEF Parsed, Native
<1>4. GatewayRequest' = GatewayRequest /\ GatewayReply' = GatewayReply
  BY <1>1, <1>3, SameRequest, LeftAlone
<1>5. /\ GatewayPlan' = "delivered" /\ Queued = 0 /\ Queued' = 0
      /\ Mapped' = "write" /\ Mapped = "release"
  BY <1>1, <1>2 DEF GatewayPlan, Queued, Notified, Mapped
<1>6. AbstractGateway!LogThenWrite("request", "ALLOW", "delivered")
  BY <1>1, <1>2, <1>5, OnlyOne
     DEF AbstractGateway!LogThenWrite, AbstractGateway!Log,
         AbstractGateway!Goto, AbstractGateway!Notified, Mapped, Queued
<1>. QED BY <1>1, <1>4, <1>5, <1>6, OnlyOne DEF AbstractGateway!Release, Mapped

(* What has been decided is written: a refusal, a whole reply or the end of  *)
(* a stream. *)
LEMMA WriteMaps ==
    ASSUME IInv, Refuse \/ Write \/ EndStream PROVE AbstractGateway!Write("request")
<1>1. /\ pc \in {"refuse", "write", "read"} /\ answer = "none" /\ format # "none"
      /\ UNCHANGED <<mode, format, stream, prompt, reply, logged>>
  BY DEF Refuse, Write, EndStream, IInv, NothingEarly, config, request, response
<1>2. GatewayReply' = GatewayReply /\ GatewayPlan' = GatewayPlan /\ Queued' = Queued
  BY <1>1, LeftAlone
<1>3. /\ answer' = GatewayPlan
      /\ pc' = IF mode = "audit" /\ ~Native /\ GatewayPlan = "delivered" THEN "audit" ELSE "done"
  <2>1. CASE Refuse
    <3>1. PICK a \in Refusals : logged = {a}
      BY <2>1 DEF Refuse, IInv, LoggedKnown
    <3>. QED BY <2>1, <3>1 DEF Refuse, Respond, Refusals, GatewayPlan
  <2>2. CASE Write \/ EndStream
    <3>1. logged = {"ALLOW"}
      BY <2>2 DEF Write, EndStream, IInv, LoggedKnown
    <3>. QED BY <2>2, <3>1 DEF Write, EndStream, Deliver, GatewayPlan
  <2>. QED BY <2>1, <2>2
<1>4. Parsed' <=> Parsed
  <2>1. answer' \in {"none", "denied", "blocked", "delivered"}
    BY <1>3 DEF GatewayPlan
  <2>2. pc' \in {"done", "audit"}
    BY <1>3
  <2>. QED BY <1>1, <2>1, <2>2 DEF Parsed, Native
<1>5. GatewayRequest' = GatewayRequest
  BY <1>1, <1>4, SameRequest
<1>6. GatewayRequest.format = (IF Native THEN "native" ELSE "chat")
      /\ Mapped = "write" /\ Mapped' = pc'
  BY <1>1, <1>3, RequestSeen DEF Mapped
<1>. QED BY <1>1, <1>2, <1>3, <1>5, <1>6, OnlyOne DEF AbstractGateway!Write, Mapped, Queued

LEMMA AuditResponseMaps ==
    ASSUME IInv, AuditResponse PROVE AbstractGateway!AuditResponse("request")
<1>1. /\ pc = "audit" /\ logged = {"ALLOW"} /\ answer = "delivered" /\ ~Native
      /\ UNCHANGED <<mode, format, stream, prompt, reply>>
  BY DEF AuditResponse, IInv, LoggedKnown, ScreeningKnown, config, request
<1>2. PICK block \in ReplyVerdicts(writer.accumulated) :
        IF block THEN Log("BLOCK_RESPONSE_AUDIT", "done") ELSE Goto("done") /\ UNCHANGED logged
  BY DEF AuditResponse
<1>3. block \in AbstractGateway!Blocked(GatewayReply)
  BY <1>1, AuditDecides
<1>4. pc' = "done" /\ answer' = answer
      /\ logged' = IF block THEN {"ALLOW", "BLOCK_RESPONSE_AUDIT"} ELSE {"ALLOW"}
  BY <1>1, <1>2 DEF Log, Goto
<1>5. GatewayReply' = GatewayReply
  BY <1>1, LeftAlone
<1>6. Parsed /\ Parsed'
  BY <1>1, <1>4 DEF Parsed, Native
<1>7. GatewayRequest' = GatewayRequest
  BY <1>1, <1>6, SameRequest
<1>8. /\ GatewayPlan = "delivered" /\ GatewayPlan' = "delivered"
      /\ Queued = 0 /\ Queued' = (IF block THEN 1 ELSE 0)
      /\ Mapped = "audit" /\ Mapped' = "done"
  BY <1>1, <1>4 DEF GatewayPlan, Queued, Notified, Mapped
<1>9. AbstractGateway!Goto("request", "done")
  BY <1>4, <1>8, OnlyOne DEF AbstractGateway!Goto, Mapped
<1>10. CASE block
  <2>1. AbstractGateway!Log("request", "BLOCK_RESPONSE_AUDIT")
    BY <1>1, <1>4, <1>8, <1>10, OnlyOne
       DEF AbstractGateway!Log, AbstractGateway!Notified, Queued
  <2>. QED BY <1>1, <1>3, <1>5, <1>7, <1>8, <1>9, <1>10, <2>1, OnlyOne
       DEF AbstractGateway!AuditResponse, Mapped
<1>11. CASE ~block
  <2>1. UNCHANGED <<[r \in One |-> logged], Queued>>
    BY <1>1, <1>4, <1>8, <1>11
  <2>. QED BY <1>1, <1>3, <1>5, <1>7, <1>8, <1>9, <1>11, <2>1, OnlyOne
       DEF AbstractGateway!AuditResponse, Mapped, Queued
<1>. QED BY <1>10, <1>11

(* Gateway does not see a stream being read, nor the buffer. *)
LEMMA UnseenMaps ==
    ASSUME IInv, Read \/ PassOn \/ UNCHANGED vars PROVE UNCHANGED AbstractGateway!vars
<1>1. UNCHANGED <<mode, pc, format, stream, prompt, reply, logged, answer>>
  BY DEF Read, PassOn, vars, config, request
<1>2. Parsed' <=> Parsed
  BY <1>1 DEF Parsed, Native
<1>3. /\ GatewayRequest' = GatewayRequest /\ GatewayReply' = GatewayReply
      /\ GatewayPlan' = GatewayPlan /\ Queued' = Queued
  BY <1>1, <1>2, SameRequest, LeftAlone
<1>. QED BY <1>1, <1>3 DEF AbstractGateway!vars, Queued

(* A request with all it carries takes the steps Gateway says it takes, for  *)
(* every body and every reply: that a text breaks a rule or does not decides *)
(* every branch as the text itself does (openai.go, anthropic.go,            *)
(* vertex.go).                                                               *)
THEOREM GatewayImplemented == Spec => ImplementsGateway
<1>1. Init => AbstractGateway!Init
  <2>. SUFFICES ASSUME Init PROVE AbstractGateway!Init
    OBVIOUS
  <2>1. /\ mode \in {"strict", "fast", "audit", "unknown"} /\ pc = "idle" /\ format = "none"
        /\ stream = FALSE /\ reply.kind = "none" /\ logged = {} /\ answer = "none"
    BY DEF Init, NoReply
  <2>2. /\ GatewayRequest = [format |-> "none", stream |-> FALSE, prompt |-> "none"]
        /\ GatewayReply = "none" /\ GatewayPlan = "none" /\ Queued = 0 /\ Mapped = "idle"
    BY <2>1 DEF GatewayRequest, Native, Parsed, GatewayReply, GatewayPlan, Queued, Mapped
  <2>3. AbstractGateway!Waiting = {}
    BY <2>1, OnlyOne DEF AbstractGateway!Waiting
  <2>. QED BY <2>1, <2>2, <2>3
       DEF AbstractGateway!Init, AbstractGateway!Mode, AbstractGateway!NoRequest,
           AbstractGateway!Carrying, AbstractGateway!Gate!GateInit, Mapped, Queued
<1>2. IInv /\ [Next]_vars => [AbstractGateway!Next]_(AbstractGateway!vars)
  <2>. SUFFICES ASSUME IInv, [Next]_vars
                PROVE  AbstractGateway!Next \/ UNCHANGED AbstractGateway!vars
    OBVIOUS
  <2>1. CASE Arrive
    <3>1. "request" \in One /\ "other" \in AbstractGateway!Credential
      BY DEF One, AbstractGateway!Credential
    <3>. QED BY <2>1, <3>1, ArriveMaps DEF AbstractGateway!Next
  <2>2. CASE \/ Authenticate \/ ParseBody \/ CheckPolicy \/ ScreenPrompt \/ CallVertex \/ Receive
             \/ ScreenReply \/ Release \/ Refuse \/ Write \/ EndStream \/ AuditResponse
    <3>1. AbstractGateway!Serve("request")
      BY <2>2, AuthenticateMaps, ParseBodyMaps, CheckPolicyMaps, ScreenPromptMaps, CallVertexMaps,
         ReceiveMaps, ScreenReplyMaps, ReleaseMaps, WriteMaps, AuditResponseMaps
         DEF AbstractGateway!Serve
    <3>2. "request" \in One
      BY DEF One
    <3>. QED BY <3>1, <3>2 DEF AbstractGateway!Next
  <2>3. CASE Read \/ PassOn \/ UNCHANGED vars
    BY <2>3, UnseenMaps
  <2>. QED BY <2>1, <2>2, <2>3 DEF Next
<1>. QED BY <1>1, <1>2, ExchangeInvariant, PTL
     DEF ImplementsGateway, AbstractGateway!Safety, Spec
=============================================================================
