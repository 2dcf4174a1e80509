----------------------------- MODULE MCExchange -----------------------------
(* Exchange for TLC: bodies and replies with a secret, its halves apart, and *)
(* what makes the formats differ.                                            *)
EXTENDS Exchange

word == <<"word">>
head == <<"head">>
tail == <<"tail">>
secret == <<"head", "tail">>

User(text) == Saying("user", text)
System(text) == Saying("system", text)
Block(text) == [text |-> TRUE, says |-> text]
Image == [text |-> FALSE, says |-> secret]
Blocks(role, blocks) == [role |-> role, form |-> "list", blocks |-> blocks]

ChatBody(messages, system) ==
    [messages |-> messages, system |-> system, contents |-> <<>>, anthropicVersion |-> TRUE]
GeminiBody(contents) ==
    [messages |-> <<>>, system |-> <<>>, contents |-> contents, anthropicVersion |-> FALSE]

MCBodies == {
    ChatBody(<<User(secret)>>, <<>>),
    ChatBody(<<User(head), Saying("assistant", <<>>), User(tail)>>, word),
    ChatBody(<<Blocks("user", <<Block(head), Image, Block(tail)>>)>>, <<>>),
    ChatBody(<<Blocks("user", <<Block(word), Block(secret)>>)>>, <<>>),
    ChatBody(<<System(secret), System(word), User(word)>>, <<>>),
    ChatBody(<<System(head), User(tail)>>, <<>>),
    ChatBody(<<System(word), Blocks("system", <<Block(head)>>), User(word)>>, secret),
    GeminiBody(<<<<secret>>>>),
    GeminiBody(<<<<head, word>>, <<tail>>>>)}

Line(parts, finish) == [parts |-> parts, finish |-> finish]

MCObjects == {
    Silence, Line(<<<<>>>>, "STOP"), Line(<<word>>, "MAX_TOKENS"),
    Line(<<word, secret>>, "STOP"), Line(<<secret>>, "SAFETY")}

(* Every body of up to two lines with every way to cut it, and of three      *)
(* lines of fewer kinds.                                                     *)
CutInReads(Lines, n) ==
    [lines : [1..n -> Lines], cuts : SUBSET (1..2 * n - 1)]

MCStreamedReplies ==
    LET lines == {Silence, Line(<<word>>, "none"), Line(<<head>>, "none"),
                  Line(<<tail>>, "STOP"), Line(<<>>, "MAX_TOKENS")}
    IN  {[lines |-> <<>>, cuts |-> {}]}
        \union UNION {CutInReads(lines, n) : n \in 1..2}
        \union CutInReads({Line(<<head>>, "none"), Line(<<word>>, "SAFETY"),
                           Line(<<tail>>, "none")}, 3)
=============================================================================
