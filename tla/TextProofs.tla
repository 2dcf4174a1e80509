----------------------------- MODULE TextProofs -----------------------------
(* Lemmas about Translate and Streaming, for texts, bodies and streams of    *)
(* any length: what is flattened, spaced, translated and streamed.  The      *)
(* inductions are over the set of the numbers, or of the sequences, for      *)
(* which a fact holds.                                                       *)
EXTENDS Streaming, SequenceTheorems, WellFoundedInduction, TLAPS

LEMMA SetInduction ==
    ASSUME NEW S, 0 \in S, \A n \in Nat : n \in S => n + 1 \in S
    PROVE  Nat \subseteq S
<1>. DEFINE T == Nat \ S
<1>. SUFFICES ASSUME T # {} PROVE FALSE
  OBVIOUS
<1>1. PICK x \in T : \A y \in T : ~ (<<y, x>> \in OpToRel(<, Nat))
  BY NatLessThanWellFounded, WFMin
<1>2. \A y \in T : ~(y < x)
  BY <1>1 DEF OpToRel
<1>3. x - 1 \in Nat /\ x - 1 \notin T
  BY <1>2
<1>. QED BY <1>3

LEMMA SeqInduction ==
    ASSUME NEW X, NEW S, <<>> \in S,
           \A s \in Seq(X), x \in X : s \in S => Append(s, x) \in S
    PROVE  Seq(X) \subseteq S
<1>. DEFINE T == {n \in Nat : \A s \in Seq(X) : Len(s) = n => s \in S}
<1>1. 0 \in T
  BY EmptySeq
<1>2. ASSUME NEW n \in Nat, n \in T PROVE n + 1 \in T
  <2>. SUFFICES ASSUME NEW s \in Seq(X), Len(s) = n + 1 PROVE s \in S
    OBVIOUS
  <2>1. s # <<>>
    BY EmptySeq
  <2>2. PICK t \in Seq(X), x \in X : s = Append(t, x)
    BY <2>1, SequenceEmptyOrAppend
  <2>3. Len(t) = n
    BY <2>2, AppendProperties, LenProperties
  <2>. QED BY <1>2, <2>2, <2>3
<1>3. Nat \subseteq T
  BY <1>1, <1>2, SetInduction
<1>. QED BY <1>3, LenProperties

-----------------------------------------------------------------------------
(* FlattenSeq is the last value of a function that concatenates.             *)
IsFlattening(f, n, seqs) ==
    f = [i \in 1..n |-> IF i = 1 THEN seqs[i] ELSE f[i-1] \o seqs[i]]

LEMMA FlatteningExists ==
    ASSUME NEW seqs, NEW n \in Nat
    PROVE  \E f : IsFlattening(f, n, seqs)
<1>. DEFINE S == {m \in Nat : \E f : IsFlattening(f, m, seqs)}
<1>1. 0 \in S
  <2>1. IsFlattening([i \in {} |-> 0], 0, seqs)
    BY DEF IsFlattening
  <2>. QED BY <2>1
<1>2. ASSUME NEW m \in Nat, m \in S PROVE m + 1 \in S
  <2>1. PICK f : IsFlattening(f, m, seqs)
    BY <1>2
  <2>. DEFINE Value(h, i) == IF i = 1 THEN seqs[i] ELSE h[i-1] \o seqs[i]
              g == [i \in 1..(m+1) |-> Value(f, i)]
  <2>2. f = [i \in 1..m |-> Value(f, i)]
    BY <2>1 DEF IsFlattening
  <2>. HIDE DEF Value
  <2>3. \A i \in 1..m : g[i] = f[i]
    BY <2>2
  <2>4. ASSUME NEW i \in 1..(m+1) PROVE Value(f, i) = Value(g, i)
    <3>1. CASE i = 1
      BY <3>1 DEF Value
    <3>2. CASE i # 1
      <4>1. i - 1 \in 1..m
        BY <3>2
      <4>2. g[i-1] = f[i-1]
        BY <2>3, <4>1
      <4>. QED BY <3>2, <4>2 DEF Value
    <3>. QED BY <3>1, <3>2
  <2>5. g = [i \in 1..(m+1) |-> Value(g, i)]
    BY <2>4
  <2>6. IsFlattening(g, m + 1, seqs)
    BY <2>5 DEF IsFlattening, Value
  <2>. QED BY <2>6
<1>. QED BY <1>1, <1>2, SetInduction

LEMMA FlattenAsFunction ==
    ASSUME NEW seqs, Len(seqs) \in Nat \ {0}
    PROVE  \E f : /\ FlattenSeq(seqs) = f[Len(seqs)]
                  /\ f[1] = seqs[1]
                  /\ \A i \in 1..Len(seqs) - 1 : f[i+1] = f[i] \o seqs[i+1]
<1>. DEFINE h == CHOOSE f : IsFlattening(f, Len(seqs), seqs)
<1>1. IsFlattening(h, Len(seqs), seqs)
  BY FlatteningExists
<1>2. FlattenSeq(seqs) = h[Len(seqs)]
  BY DEF FlattenSeq, IsFlattening
<1>. DEFINE Value(i) == IF i = 1 THEN seqs[i] ELSE h[i-1] \o seqs[i]
<1>3. h = [i \in 1..Len(seqs) |-> Value(i)]
  BY <1>1 DEF IsFlattening
<1>. HIDE DEF h, Value
<1>4. \A i \in 1..Len(seqs) : h[i] = Value(i)
  BY <1>3
<1>5. h[1] = seqs[1]
  BY <1>4 DEF Value
<1>6. ASSUME NEW i \in 1..Len(seqs) - 1 PROVE h[i+1] = h[i] \o seqs[i+1]
  <2>1. i + 1 \in 1..Len(seqs) /\ i + 1 # 1 /\ (i + 1) - 1 = i
    OBVIOUS
  <2>. QED BY <1>4, <2>1 DEF Value
<1>. QED BY <1>2, <1>5, <1>6

LEMMA FlattenEmpty == FlattenSeq(<<>>) = <<>>
BY EmptySeq DEF FlattenSeq

LEMMA FlattenAppend ==
    ASSUME NEW P, NEW seqs \in Seq(Seq(P)), NEW x \in Seq(P)
    PROVE  FlattenSeq(Append(seqs, x)) = FlattenSeq(seqs) \o x
<1>. DEFINE n == Len(seqs)
            more == Append(seqs, x)
<1>1. more \in Seq(Seq(P)) /\ Len(more) = n + 1 /\ more[n + 1] = x
      /\ \A i \in 1..n : more[i] = seqs[i]
  BY AppendProperties
<1>2. n \in Nat
  BY LenProperties
<1>3. n = 0 => seqs = <<>>
  BY EmptySeq
<1>4. n # 0 => \E f : /\ FlattenSeq(seqs) = f[n] /\ f[1] = seqs[1]
                      /\ \A i \in 1..n - 1 : f[i+1] = f[i] \o seqs[i+1]
  BY <1>2, FlattenAsFunction
<1>. HIDE DEF more, n
<1>5. PICK g : /\ FlattenSeq(more) = g[n + 1] /\ g[1] = more[1]
               /\ \A i \in 1..n : g[i+1] = g[i] \o more[i+1]
  <2>1. Len(more) \in Nat \ {0} /\ 1..Len(more) - 1 = 1..n
    BY <1>1, <1>2
  <2>2. \E f : /\ FlattenSeq(more) = f[Len(more)] /\ f[1] = more[1]
               /\ \A i \in 1..Len(more) - 1 : f[i+1] = f[i] \o more[i+1]
    BY <2>1, FlattenAsFunction
  <2>. QED BY <1>1, <2>1, <2>2
<1>6. CASE n = 0
  <2>1. seqs = <<>> /\ FlattenSeq(more) = x
    BY <1>1, <1>3, <1>5, <1>6
  <2>2. FlattenSeq(seqs) \o x = x
    BY <2>1, FlattenEmpty, ConcatEmptySeq
  <2>. QED BY <2>1, <2>2 DEF more
<1>7. CASE n # 0
  <2>1. PICK f : /\ FlattenSeq(seqs) = f[n] /\ f[1] = seqs[1]
                 /\ \A i \in 1..n - 1 : f[i+1] = f[i] \o seqs[i+1]
    BY <1>4, <1>7
  <2>. DEFINE S == {m \in Nat : m \in 1..n => g[m] = f[m]}
  <2>2. 0 \in S
    OBVIOUS
  <2>3. ASSUME NEW m \in Nat, m \in S PROVE m + 1 \in S
    <3>1. CASE m = 0
      <4>1. more[1] = seqs[1]
        BY <1>1, <1>2, <1>7
      <4>. QED BY <1>5, <2>1, <3>1, <4>1
    <3>2. CASE m # 0 /\ m + 1 \in 1..n
      <4>1. m \in 1..n /\ m \in 1..n - 1 /\ more[m+1] = seqs[m+1]
        BY <1>1, <1>2, <3>2
      <4>2. g[m+1] = g[m] \o more[m+1] /\ f[m+1] = f[m] \o seqs[m+1] /\ g[m] = f[m]
        BY <1>5, <2>1, <2>3, <4>1
      <4>3. g[m+1] = f[m+1]
        BY <4>1, <4>2
      <4>. QED BY <4>3
    <3>. QED BY <3>1, <3>2
  <2>4. n \in S
    <3>. HIDE DEF S
    <3>. QED BY <1>2, <2>2, <2>3, SetInduction
  <2>5. n \in 1..n
    BY <1>2, <1>7
  <2>6. g[n] = f[n] /\ g[n + 1] = g[n] \o x
    BY <1>1, <1>5, <2>4, <2>5
  <2>. QED BY <1>5, <2>1, <2>6 DEF more
<1>. QED BY <1>6, <1>7

LEMMA FlattenType ==
    ASSUME NEW P, NEW seqs \in Seq(Seq(P))
    PROVE  FlattenSeq(seqs) \in Seq(P)
<1>. DEFINE S == {s \in Seq(Seq(P)) : FlattenSeq(s) \in Seq(P)}
<1>1. <<>> \in S
  BY FlattenEmpty, EmptySeq
<1>2. ASSUME NEW s \in Seq(Seq(P)), NEW x \in Seq(P), s \in S PROVE Append(s, x) \in S
  BY <1>2, FlattenAppend, AppendProperties, ConcatProperties
<1>. QED BY <1>1, <1>2, SeqInduction

LEMMA FlattenOne ==
    ASSUME NEW P, NEW x \in Seq(P)
    PROVE  FlattenSeq(<<x>>) = x
<1>1. <<>> \in Seq(Seq(P)) /\ <<x>> = Append(<<>>, x)
  BY EmptySeq
<1>2. FlattenSeq(Append(<<>>, x)) = FlattenSeq(<<>>) \o x
  BY <1>1, FlattenAppend
<1>3. FlattenSeq(<<>>) \o x = x
  BY FlattenEmpty, ConcatEmptySeq
<1>. QED BY <1>1, <1>2, <1>3

LEMMA Regroup ==
    ASSUME NEW P, NEW a \in Seq(P), NEW b \in Seq(P), NEW c \in Seq(P)
    PROVE  (a \o b) \o c = a \o (b \o c)
BY ConcatAssociative

(* A sequence holds a part. *)
Holds(P, whole, part) == \E a, b \in Seq(P) : whole = (a \o part) \o b

LEMMA HoldsLonger ==
    ASSUME NEW P, NEW whole \in Seq(P), NEW part \in Seq(P), NEW x \in Seq(P),
           Holds(P, whole, part)
    PROVE  Holds(P, whole \o x, part)
<1>. PICK a, b \in Seq(P) : whole = (a \o part) \o b
  BY DEF Holds
<1>. DEFINE front == a \o part
<1>1. front \in Seq(P) /\ b \o x \in Seq(P)
  BY ConcatProperties
<1>. HIDE DEF front
<1>2. (front \o b) \o x = front \o (b \o x)
  BY <1>1, Regroup
<1>3. whole \o x = (a \o part) \o (b \o x)
  BY <1>2 DEF front
<1>. QED BY <1>1, <1>3, Zenon DEF Holds

(* Every part lies in the whole. *)
LEMMA FlattenParts ==
    ASSUME NEW P, NEW seqs \in Seq(Seq(P)), NEW i \in 1..Len(seqs)
    PROVE  Holds(P, FlattenSeq(seqs), seqs[i])
<1>. DEFINE Within(s) == \A j \in 1..Len(s) : Holds(P, FlattenSeq(s), s[j])
            S == {s \in Seq(Seq(P)) : Within(s)}
<1>1. <<>> \in S
  BY EmptySeq
<1>2. ASSUME NEW s \in Seq(Seq(P)), NEW x \in Seq(P), s \in S PROVE Append(s, x) \in S
  <2>. DEFINE t == Append(s, x)
  <2>1. t \in Seq(Seq(P)) /\ Len(t) = Len(s) + 1
        /\ t[Len(s) + 1] = x /\ \A j \in 1..Len(s) : t[j] = s[j]
    BY AppendProperties
  <2>2. FlattenSeq(t) = FlattenSeq(s) \o x /\ FlattenSeq(s) \in Seq(P)
    BY FlattenAppend, FlattenType
  <2>. HIDE DEF t
  <2>3. ASSUME NEW j \in 1..Len(t)
        PROVE  Holds(P, FlattenSeq(t), t[j])
    <3>0. Len(s) \in Nat
      BY LenProperties
    <3>1. CASE j = Len(s) + 1
      <4>1. FlattenSeq(t) = (FlattenSeq(s) \o t[j]) \o <<>> /\ <<>> \in Seq(P)
        BY <2>1, <2>2, <3>1, ConcatProperties, ConcatEmptySeq, EmptySeq
      <4>. QED BY <2>2, <4>1, Zenon DEF Holds
    <3>2. CASE j \in 1..Len(s)
      <4>1. Holds(P, FlattenSeq(s), s[j]) /\ s[j] \in Seq(P) /\ t[j] = s[j]
        BY <1>2, <2>1, <3>2, ElementOfSeq
      <4>. QED BY <2>2, <4>1, HoldsLonger
    <3>3. j = Len(s) + 1 \/ j \in 1..Len(s)
      BY <2>1, <3>0
    <3>. QED BY <3>1, <3>2, <3>3, Zenon
  <2>4. t \in S
    BY <2>1, <2>3
  <2>. QED BY <2>4 DEF t
<1>3. seqs \in S
  BY <1>1, <1>2, SeqInduction
<1>. QED BY <1>3

(* Every element of the whole is one of a part. *)
LEMMA FlattenElements ==
    ASSUME NEW P, NEW seqs \in Seq(Seq(P)), NEW j \in 1..Len(FlattenSeq(seqs))
    PROVE  \E i \in 1..Len(seqs) : \E k \in 1..Len(seqs[i]) : FlattenSeq(seqs)[j] = seqs[i][k]
<1>. DEFINE From(s) == \A l \in 1..Len(FlattenSeq(s)) :
                \E i \in 1..Len(s) : \E k \in 1..Len(s[i]) : FlattenSeq(s)[l] = s[i][k]
            S == {s \in Seq(Seq(P)) : From(s)}
<1>1. <<>> \in S
  BY EmptySeq, FlattenEmpty
<1>2. ASSUME NEW s \in Seq(Seq(P)), NEW x \in Seq(P), s \in S PROVE Append(s, x) \in S
  <2>. DEFINE t == Append(s, x)
  <2>1. t \in Seq(Seq(P)) /\ Len(t) = Len(s) + 1
        /\ t[Len(s) + 1] = x /\ \A m \in 1..Len(s) : t[m] = s[m]
    BY AppendProperties
  <2>2. FlattenSeq(t) = FlattenSeq(s) \o x /\ FlattenSeq(s) \in Seq(P)
    BY FlattenAppend, FlattenType
  <2>. HIDE DEF t
  <2>3. ASSUME NEW l \in 1..Len(FlattenSeq(t))
        PROVE  \E i \in 1..Len(t) : \E k \in 1..Len(t[i]) : FlattenSeq(t)[l] = t[i][k]
    <3>. DEFINE n == Len(FlattenSeq(s))
    <3>1. n \in Nat /\ Len(x) \in Nat /\ Len(s) \in Nat /\ Len(FlattenSeq(t)) = n + Len(x)
      BY <2>2, LenProperties, ConcatProperties
    <3>2. CASE l \in 1..n
      <4>1. FlattenSeq(t)[l] = FlattenSeq(s)[l]
        BY <2>2, <3>1, <3>2, ConcatProperties
      <4>2. PICK i \in 1..Len(s) : \E k \in 1..Len(s[i]) : FlattenSeq(s)[l] = s[i][k]
        BY <1>2, <3>2
      <4>3. i \in 1..Len(t) /\ t[i] = s[i]
        BY <2>1, <3>1
      <4>. QED BY <4>1, <4>2, <4>3
    <3>3. CASE l \notin 1..n
      <4>1. l - n \in 1..Len(x) /\ FlattenSeq(t)[l] = x[l - n]
        BY <2>2, <3>1, <3>3, ConcatProperties
      <4>2. Len(s) + 1 \in 1..Len(t) /\ t[Len(s) + 1] = x
        BY <2>1, <3>1
      <4>. QED BY <4>1, <4>2
    <3>. QED BY <3>2, <3>3
  <2>4. t \in S
    BY <2>1, <2>3
  <2>. QED BY <2>4 DEF t
<1>3. seqs \in S
  BY <1>1, <1>2, SeqInduction
<1>. QED BY <1>3

LEMMA HoldsWithin ==
    ASSUME NEW P, NEW whole \in Seq(P), NEW front \in Seq(P), NEW part \in Seq(P),
           Holds(P, whole, front \o part)
    PROVE  Holds(P, whole, part)
<1>. PICK a, b \in Seq(P) : whole = (a \o (front \o part)) \o b
  BY DEF Holds
<1>1. a \o (front \o part) = (a \o front) \o part
  BY Regroup
<1>2. a \o front \in Seq(P)
  BY ConcatProperties
<1>. QED BY <1>1, <1>2, Zenon DEF Holds

-----------------------------------------------------------------------------
(* The elements of a sequence at the places of a set, in order: what Those   *)
(* is for the places that pass its test.                                     *)
PickedParts(s, D) == [i \in DOMAIN s |-> IF i \in D THEN <<s[i]>> ELSE <<>>]

Picked(s, D) == FlattenSeq(PickedParts(s, D))

LEMMA PartsOfPicked ==
    ASSUME NEW P, NEW s \in Seq(P), NEW D
    PROVE  /\ PickedParts(s, D) \in Seq(Seq(P)) /\ Len(PickedParts(s, D)) = Len(s)
           /\ \A i \in 1..Len(s) : PickedParts(s, D)[i] = IF i \in D THEN <<s[i]>> ELSE <<>>
<1>1. Len(s) \in Nat /\ DOMAIN s = 1..Len(s)
  BY LenProperties
<1>2. \A i \in 1..Len(s) : s[i] \in P
  BY ElementOfSeq
<1>. QED BY <1>1, <1>2 DEF PickedParts

LEMMA PickedType ==
    ASSUME NEW P, NEW s \in Seq(P), NEW D
    PROVE  Picked(s, D) \in Seq(P)
BY PartsOfPicked, FlattenType DEF Picked

LEMMA PickedElements ==
    ASSUME NEW P, NEW s \in Seq(P), NEW D, NEW j \in 1..Len(Picked(s, D))
    PROVE  \E i \in 1..Len(s) : i \in D /\ Picked(s, D)[j] = s[i]
<1>. DEFINE parts == PickedParts(s, D)
<1>1. /\ parts \in Seq(Seq(P)) /\ Len(parts) = Len(s)
      /\ \A i \in 1..Len(s) : parts[i] = IF i \in D THEN <<s[i]>> ELSE <<>>
  BY PartsOfPicked
<1>2. Picked(s, D) = FlattenSeq(parts)
  BY DEF Picked
<1>. HIDE DEF parts
<1>3. PICK i \in 1..Len(parts) : \E k \in 1..Len(parts[i]) : FlattenSeq(parts)[j] = parts[i][k]
  BY <1>1, <1>2, FlattenElements
<1>4. PICK k \in 1..Len(parts[i]) : FlattenSeq(parts)[j] = parts[i][k]
  BY <1>3
<1>5. i \in 1..Len(s) /\ parts[i] = IF i \in D THEN <<s[i]>> ELSE <<>>
  BY <1>1
<1>6. i \in D /\ k = 1
  BY <1>5
<1>. QED BY <1>2, <1>4, <1>5, <1>6

LEMMA PickedAppend ==
    ASSUME NEW P, NEW s \in Seq(P), NEW x \in P, NEW D
    PROVE  Picked(Append(s, x), D) =
             Picked(s, D) \o IF Len(s) + 1 \in D THEN <<x>> ELSE <<>>
<1>. DEFINE t == Append(s, x)
            parts == PickedParts(s, D)
            more == PickedParts(t, D)
            last == IF Len(s) + 1 \in D THEN <<x>> ELSE <<>>
            longer == Append(parts, last)
<1>1. t \in Seq(P) /\ Len(t) = Len(s) + 1 /\ t[Len(s) + 1] = x
      /\ \A i \in 1..Len(s) : t[i] = s[i]
  BY AppendProperties
<1>2. /\ parts \in Seq(Seq(P)) /\ Len(parts) = Len(s)
      /\ \A i \in 1..Len(s) : parts[i] = IF i \in D THEN <<s[i]>> ELSE <<>>
  BY PartsOfPicked
<1>. HIDE DEF t
<1>3. /\ more \in Seq(Seq(P)) /\ Len(more) = Len(t)
      /\ \A i \in 1..Len(t) : more[i] = IF i \in D THEN <<t[i]>> ELSE <<>>
  BY <1>1, PartsOfPicked
<1>4. last \in Seq(P) /\ Len(s) \in Nat
  BY LenProperties
<1>. HIDE DEF parts, more
<1>5. /\ longer \in Seq(Seq(P)) /\ Len(longer) = Len(s) + 1
      /\ longer[Len(s) + 1] = last
      /\ \A i \in 1..Len(s) : longer[i] = parts[i]
  <2>. HIDE DEF last
  <2>. QED BY <1>2, <1>4, AppendProperties
<1>. HIDE DEF longer
<1>6. \A i \in 1..Len(s) + 1 : more[i] = longer[i]
  <2>1. more[Len(s) + 1] = longer[Len(s) + 1]
    BY <1>1, <1>3, <1>4, <1>5
  <2>2. ASSUME NEW i \in 1..Len(s) PROVE more[i] = longer[i]
    <3>1. i \in 1..Len(t)
      BY <1>1, <1>4
    <3>2. more[i] = (IF i \in D THEN <<t[i]>> ELSE <<>>) /\ t[i] = s[i]
      BY <1>1, <1>3, <3>1
    <3>3. longer[i] = IF i \in D THEN <<s[i]>> ELSE <<>>
      BY <1>2, <1>5
    <3>. QED BY <3>2, <3>3
  <2>. QED BY <1>4, <2>1, <2>2
<1>7. longer \in Seq(Seq(P)) /\ Len(longer) = Len(more)
  BY <1>1, <1>3, <1>5
<1>8. more = longer
  BY <1>1, <1>3, <1>6, <1>7, SeqEqual
<1>9. FlattenSeq(longer) = FlattenSeq(parts) \o last
  BY <1>2, <1>4, FlattenAppend DEF longer
<1>. QED BY <1>8, <1>9 DEF Picked, parts, more, t

-----------------------------------------------------------------------------
(* Texts joined with spaces are pieces, and hold each of the texts.          *)
LEMMA SpacedHolds ==
    ASSUME NEW texts \in Seq(Seq(Piece))
    PROVE  /\ Spaced(texts) \in Seq(Piece)
           /\ \A i \in 1..Len(texts) : Holds(Piece, Spaced(texts), texts[i])
<1>. DEFINE Part(i) == IF i = 1 THEN texts[i] ELSE <<"gap">> \o texts[i]
            parts == [i \in DOMAIN texts |-> Part(i)]
<1>1. Len(texts) \in Nat /\ DOMAIN texts = 1..Len(texts)
  BY LenProperties
<1>2. \A i \in 1..Len(texts) : texts[i] \in Seq(Piece)
  BY ElementOfSeq
<1>3. <<"gap">> \in Seq(Piece)
  BY DEF Piece
<1>4. \A i \in 1..Len(texts) : Part(i) \in Seq(Piece)
  BY <1>2, <1>3, ConcatProperties
<1>5. Spaced(texts) = FlattenSeq(parts)
  BY DEF Spaced
<1>. HIDE DEF Part
<1>6. parts \in Seq(Seq(Piece)) /\ Len(parts) = Len(texts)
      /\ \A i \in 1..Len(texts) : parts[i] = Part(i)
  BY <1>1, <1>4
<1>. HIDE DEF parts
<1>7. FlattenSeq(parts) \in Seq(Piece)
  BY <1>6, FlattenType
<1>8. ASSUME NEW i \in 1..Len(texts) PROVE Holds(Piece, FlattenSeq(parts), texts[i])
  <2>1. Holds(Piece, FlattenSeq(parts), Part(i))
    BY <1>6, FlattenParts
  <2>2. texts[i] \in Seq(Piece)
    BY <1>2
  <2>3. CASE i = 1
    BY <2>1, <2>3 DEF Part
  <2>4. CASE i # 1
    <3>1. Part(i) = <<"gap">> \o texts[i]
      BY <2>4 DEF Part
    <3>. QED BY <1>3, <1>7, <2>1, <2>2, <3>1, HoldsWithin
  <2>. QED BY <2>3, <2>4
<1>. QED BY <1>5, <1>7, <1>8

-----------------------------------------------------------------------------
(* What a handler extracts from a body to screen it holds what it sends.     *)
ContentBlock == [text : BOOLEAN, says : Seq(Piece)]

LEMMA MessageText ==
    ASSUME NEW message \in Message
    PROVE  ExtractMessageText(message) \in Seq(Piece)
<1>. DEFINE blocks == message.blocks
            texts == Picked(blocks, {i \in 1..Len(blocks) : blocks[i].text})
<1>1. blocks \in Seq(ContentBlock)
  BY DEF Message, ContentBlock
<1>2. texts \in Seq(ContentBlock)
  BY <1>1, PickedType
<1>3. Those(blocks, LAMBDA block : block.text) = texts
  <2>1. DOMAIN blocks = 1..Len(blocks)
    BY <1>1, LenProperties
  <2>. QED BY <2>1 DEF Those, Picked, PickedParts
<1>. HIDE DEF texts
<1>. DEFINE says == [i \in DOMAIN texts |-> texts[i].says]
<1>4. says \in Seq(Seq(Piece))
  <2>1. Len(texts) \in Nat /\ DOMAIN texts = 1..Len(texts)
    BY <1>2, LenProperties
  <2>2. \A i \in 1..Len(texts) : texts[i] \in ContentBlock
    BY <1>2, ElementOfSeq
  <2>3. \A i \in 1..Len(texts) : texts[i].says \in Seq(Piece)
    BY <2>2 DEF ContentBlock
  <2>. QED BY <2>1, <2>3
<1>5. ExtractMessageText(message) = Spaced(says)
  BY <1>3 DEF ExtractMessageText
<1>. QED BY <1>4, <1>5, SpacedHolds

LEMMA MessagesHeld ==
    ASSUME NEW body \in Body
    PROVE  /\ ExtractAnthropicPrompt(body) \in Seq(Piece)
           /\ \A i \in 1..Len(body.messages) :
                Holds(Piece, ExtractAnthropicPrompt(body), ExtractMessageText(body.messages[i]))
<1>. DEFINE messages == body.messages
            texts == [i \in DOMAIN messages |-> ExtractMessageText(messages[i])]
<1>1. messages \in Seq(Message)
  BY DEF Body
<1>2. Len(messages) \in Nat /\ DOMAIN messages = 1..Len(messages)
  BY <1>1, LenProperties
<1>3. \A i \in 1..Len(messages) : ExtractMessageText(messages[i]) \in Seq(Piece)
  BY <1>1, ElementOfSeq, MessageText
<1>4. texts \in Seq(Seq(Piece)) /\ Len(texts) = Len(messages)
      /\ \A i \in 1..Len(messages) : texts[i] = ExtractMessageText(messages[i])
  BY <1>2, <1>3
<1>5. ExtractAnthropicPrompt(body) = Spaced(texts)
  BY DEF ExtractAnthropicPrompt
<1>. HIDE DEF texts
<1>. QED BY <1>4, <1>5, SpacedHolds

LEMMA ContentsHeld ==
    ASSUME NEW body \in Body, body.messages = <<>>
    PROVE  LET texts == FlattenSeq(body.contents)
           IN  /\ ExtractOpenAIPrompt(body) \in Seq(Piece) /\ texts \in Seq(Seq(Piece))
               /\ \A i \in 1..Len(texts) : Holds(Piece, ExtractOpenAIPrompt(body), texts[i])
<1>. DEFINE texts == FlattenSeq(body.contents)
<1>1. texts \in Seq(Seq(Piece))
  BY FlattenType DEF Body
<1>2. ExtractOpenAIPrompt(body) = Spaced(texts)
  BY DEF ExtractOpenAIPrompt
<1>. HIDE DEF texts
<1>3. /\ Spaced(texts) \in Seq(Piece)
      /\ \A i \in 1..Len(texts) : Holds(Piece, Spaced(texts), texts[i])
  BY <1>1, SpacedHolds
<1>. QED BY <1>1, <1>2, <1>3 DEF texts

Turns == [role : {"user", "model"}, text : Seq(Piece)]

Acknowledgement == Turn("model", <<"word">>)

(* The turns are the texts of the messages, after those of a system text. *)
LEMMA TurnsSent ==
    ASSUME NEW messages \in Seq(Message), NEW system \in Seq(Piece)
    PROVE  LET sent == TranslateToGemini(messages, system)
           IN  /\ sent \in Seq(Turns)
               /\ \A i \in 1..Len(sent) :
                    \/ \E m \in 1..Len(messages) : sent[i].text = ExtractMessageText(messages[m])
                    \/ /\ system # <<>> /\ Len(sent) >= 2 /\ sent[2] = Acknowledgement
                       /\ i = 2 \/ (i = 1 /\ sent[i].text = system)
<1>. DEFINE Role(m) == IF messages[m].role = "assistant" THEN "model" ELSE "user"
            turns == [m \in DOMAIN messages |-> Turn(Role(m), ExtractMessageText(messages[m]))]
            places == {m \in 1..Len(turns) : turns[m].text # <<>>}
            kept == Picked(turns, places)
            opening == IF system = <<>> THEN <<>> ELSE <<Turn("user", system), Acknowledgement>>
            sent == TranslateToGemini(messages, system)
<1>1. Len(messages) \in Nat /\ DOMAIN messages = 1..Len(messages)
  BY LenProperties
<1>2. \A m \in 1..Len(messages) : ExtractMessageText(messages[m]) \in Seq(Piece)
  BY ElementOfSeq, MessageText
<1>3. /\ turns \in Seq(Turns) /\ Len(turns) = Len(messages)
      /\ \A m \in 1..Len(messages) : turns[m].text = ExtractMessageText(messages[m])
  <2>1. \A m \in 1..Len(messages) : Turn(Role(m), ExtractMessageText(messages[m])) \in Turns
    BY <1>2 DEF Turn, Turns
  <2>2. \A m \in 1..Len(messages) :
            Turn(Role(m), ExtractMessageText(messages[m])).text = ExtractMessageText(messages[m])
    BY DEF Turn
  <2>. HIDE DEF Role
  <2>. QED BY <1>1, <2>1, <2>2
<1>4. Those(turns, LAMBDA turn : turn.text # <<>>) = kept
  <2>1. DOMAIN turns = 1..Len(turns)
    BY <1>3, LenProperties
  <2>. HIDE DEF turns
  <2>. QED BY <2>1 DEF Those, Picked, PickedParts
<1>5. sent = opening \o kept
  BY <1>4 DEF TranslateToGemini, Acknowledgement
<1>. HIDE DEF turns, places
<1>6. kept \in Seq(Turns)
  BY <1>3, PickedType
<1>7. \A j \in 1..Len(kept) :
        \E m \in 1..Len(messages) : kept[j].text = ExtractMessageText(messages[m])
  <2>. SUFFICES ASSUME NEW j \in 1..Len(kept)
                PROVE  \E m \in 1..Len(messages) :
                            kept[j].text = ExtractMessageText(messages[m])
    OBVIOUS
  <2>1. PICK m \in 1..Len(turns) : kept[j] = turns[m]
    BY <1>3, PickedElements
  <2>. QED BY <1>3, <2>1
<1>8. <<"word">> \in Seq(Piece)
  BY DEF Piece
<1>9. /\ opening \in Seq(Turns)
      /\ Len(opening) = IF system = <<>> THEN 0 ELSE 2
      /\ system # <<>> => opening[1].text = system /\ opening[2] = Acknowledgement
  <2>1. CASE system = <<>>
    BY <2>1, EmptySeq
  <2>2. CASE system # <<>>
    <3>1. Turn("user", system) \in Turns /\ Acknowledgement \in Turns
          /\ Turn("user", system).text = system
      BY <1>8 DEF Turn, Turns, Acknowledgement
    <3>2. opening = <<Turn("user", system), Acknowledgement>>
      BY <2>2
    <3>. QED BY <2>2, <3>1, <3>2
  <2>. QED BY <2>1, <2>2
<1>. HIDE DEF kept, opening, sent
<1>10. /\ sent \in Seq(Turns) /\ Len(sent) = Len(opening) + Len(kept)
       /\ \A i \in 1..Len(opening) + Len(kept) :
            sent[i] = IF i <= Len(opening) THEN opening[i] ELSE kept[i - Len(opening)]
  BY <1>5, <1>6, <1>9, ConcatProperties
<1>11. Len(kept) \in Nat
  BY <1>6, LenProperties
<1>12. ASSUME NEW i \in 1..Len(sent)
       PROVE  \/ \E m \in 1..Len(messages) : sent[i].text = ExtractMessageText(messages[m])
              \/ /\ system # <<>> /\ Len(sent) >= 2 /\ sent[2] = Acknowledgement
                 /\ i = 2 \/ (i = 1 /\ sent[i].text = system)
  <2>1. CASE i <= Len(opening)
    <3>1. system # <<>> /\ Len(opening) = 2
      BY <1>9, <2>1
    <3>2. Len(sent) >= 2 /\ sent[1] = opening[1] /\ sent[2] = opening[2] /\ i \in {1, 2}
      BY <1>10, <1>11, <2>1, <3>1
    <3>. QED BY <1>9, <3>1, <3>2
  <2>2. CASE ~(i <= Len(opening))
    <3>1. i - Len(opening) \in 1..Len(kept) /\ sent[i] = kept[i - Len(opening)]
      BY <1>9, <1>10, <1>11, <2>2
    <3>. QED BY <1>7, <3>1
  <2>. QED BY <2>1, <2>2
<1>. QED BY <1>10, <1>12 DEF sent

-----------------------------------------------------------------------------
(* What the client reads in a sequence of events, and what lines say, one    *)
(* event or line at a time.                                                  *)
LEMMA FlattenExtended ==
    ASSUME NEW P, NEW parts \in Seq(Seq(P)), NEW more \in Seq(Seq(P)),
           Len(more) = Len(parts) + 1, \A i \in 1..Len(parts) : more[i] = parts[i]
    PROVE  FlattenSeq(more) = FlattenSeq(parts) \o more[Len(more)]
<1>1. Len(parts) \in Nat /\ more[Len(more)] \in Seq(P)
  <2>1. Len(parts) \in Nat
    BY LenProperties
  <2>2. Len(more) \in 1..Len(more)
    BY <2>1
  <2>. QED BY <2>1, <2>2, ElementOfSeq
<1>. DEFINE last == more[Len(more)]
            longer == Append(parts, last)
<1>2. /\ longer \in Seq(Seq(P)) /\ Len(longer) = Len(parts) + 1
      /\ longer[Len(parts) + 1] = last
      /\ \A i \in 1..Len(parts) : longer[i] = parts[i]
  <2>. HIDE DEF last
  <2>1. last \in Seq(P)
    BY <1>1 DEF last
  <2>. QED BY <2>1, AppendProperties
<1>. HIDE DEF longer
<1>3. \A i \in 1..Len(more) : more[i] = longer[i]
  <2>. SUFFICES ASSUME NEW i \in 1..Len(more) PROVE more[i] = longer[i]
    OBVIOUS
  <2>1. CASE i = Len(parts) + 1
    BY <1>2, <2>1
  <2>2. CASE i \in 1..Len(parts)
    <3>1. more[i] = parts[i] /\ longer[i] = parts[i]
      BY <1>2, <2>2
    <3>. QED BY <3>1
  <2>. QED BY <1>1, <2>1, <2>2
<1>4. more = longer
  BY <1>2, <1>3, SeqEqual
<1>. HIDE DEF last
<1>5. last \in Seq(P)
  BY <1>1 DEF last
<1>. QED BY <1>4, <1>5, FlattenAppend DEF longer, last

Shown(event) == IF event.event \in TextEvents THEN event.data ELSE <<>>

LEMMA ShownIsText ==
    ASSUME NEW event \in Written
    PROVE  Shown(event) \in Seq(Piece)
<1>1. <<>> \in Seq(Piece)
  BY EmptySeq
<1>. QED BY <1>1 DEF Shown, Written, TextEvents

LEMMA ClientTextParts ==
    ASSUME NEW out \in Seq(Written)
    PROVE  /\ [i \in DOMAIN out |-> Shown(out[i])] \in Seq(Seq(Piece))
           /\ Len([i \in DOMAIN out |-> Shown(out[i])]) = Len(out)
           /\ ClientText(out) = FlattenSeq([i \in DOMAIN out |-> Shown(out[i])])
<1>1. Len(out) \in Nat /\ DOMAIN out = 1..Len(out)
  BY LenProperties
<1>2. \A i \in 1..Len(out) : Shown(out[i]) \in Seq(Piece)
  BY ElementOfSeq, ShownIsText
<1>3. ClientText(out) = FlattenSeq([i \in DOMAIN out |-> Shown(out[i])])
  BY DEF ClientText, Shown
<1>. QED BY <1>1, <1>2, <1>3

LEMMA ClientTextType ==
    ASSUME NEW out \in Seq(Written)
    PROVE  ClientText(out) \in Seq(Piece)
BY ClientTextParts, FlattenType

LEMMA ClientTextEmpty == ClientText(<<>>) = <<>>
<1>1. [i \in DOMAIN <<>> |-> Shown(<<>>[i])] = <<>>
  BY EmptySeq
<1>2. <<>> \in Seq(Written)
  BY EmptySeq
<1>. QED BY <1>1, <1>2, ClientTextParts, FlattenEmpty

LEMMA ClientTextAppend ==
    ASSUME NEW out \in Seq(Written), NEW event \in Written
    PROVE  ClientText(Append(out, event)) = ClientText(out) \o Shown(event)
<1>. DEFINE longer == Append(out, event)
            parts == [i \in DOMAIN out |-> Shown(out[i])]
            more == [i \in DOMAIN longer |-> Shown(longer[i])]
<1>1. longer \in Seq(Written) /\ Len(longer) = Len(out) + 1 /\ longer[Len(out) + 1] = event
      /\ \A i \in 1..Len(out) : longer[i] = out[i]
  BY AppendProperties
<1>2. Len(out) \in Nat /\ DOMAIN out = 1..Len(out)
  BY LenProperties
<1>. HIDE DEF longer
<1>3. DOMAIN longer = 1..Len(longer)
  BY <1>1, LenProperties
<1>4. /\ parts \in Seq(Seq(Piece)) /\ Len(parts) = Len(out) /\ ClientText(out) = FlattenSeq(parts)
      /\ more \in Seq(Seq(Piece)) /\ Len(more) = Len(longer)
      /\ ClientText(longer) = FlattenSeq(more)
  BY <1>1, ClientTextParts
<1>5. \A i \in 1..Len(parts) : more[i] = parts[i]
  BY <1>1, <1>2, <1>3, <1>4
<1>6. more[Len(more)] = Shown(event)
  BY <1>1, <1>2, <1>3, <1>4
<1>. HIDE DEF parts, more
<1>7. FlattenSeq(more) = FlattenSeq(parts) \o more[Len(more)]
  BY <1>1, <1>4, <1>5, FlattenExtended
<1>. QED BY <1>4, <1>6, <1>7 DEF longer

LEMMA LineText ==
    ASSUME NEW line \in Chunk
    PROVE  ExtractGeminiText(line) \in Seq(Piece)
<1>1. line.parts \in Seq(Seq(Piece))
  BY DEF Chunk
<1>2. <<>> \in Seq(Piece)
  BY EmptySeq
<1>. QED BY <1>1, <1>2, HeadTailProperties DEF ExtractGeminiText

LEMMA TextParts ==
    ASSUME NEW lines \in Seq(Chunk)
    PROVE  /\ [i \in DOMAIN lines |-> ExtractGeminiText(lines[i])] \in Seq(Seq(Piece))
           /\ Len([i \in DOMAIN lines |-> ExtractGeminiText(lines[i])]) = Len(lines)
<1>1. Len(lines) \in Nat /\ DOMAIN lines = 1..Len(lines)
  BY LenProperties
<1>2. \A i \in 1..Len(lines) : ExtractGeminiText(lines[i]) \in Seq(Piece)
  BY ElementOfSeq, LineText
<1>. QED BY <1>1, <1>2

LEMMA TextType ==
    ASSUME NEW lines \in Seq(Chunk)
    PROVE  TextOf(lines) \in Seq(Piece)
BY TextParts, FlattenType DEF TextOf

LEMMA TextEmpty == TextOf(<<>>) = <<>>
<1>1. [i \in DOMAIN <<>> |-> ExtractGeminiText(<<>>[i])] = <<>>
  BY EmptySeq
<1>. QED BY <1>1, FlattenEmpty DEF TextOf

LEMMA TextAppend ==
    ASSUME NEW lines \in Seq(Chunk), NEW line \in Chunk
    PROVE  TextOf(Append(lines, line)) = TextOf(lines) \o ExtractGeminiText(line)
<1>. DEFINE longer == Append(lines, line)
            parts == [i \in DOMAIN lines |-> ExtractGeminiText(lines[i])]
            more == [i \in DOMAIN longer |-> ExtractGeminiText(longer[i])]
<1>1. longer \in Seq(Chunk) /\ Len(longer) = Len(lines) + 1 /\ longer[Len(lines) + 1] = line
      /\ \A i \in 1..Len(lines) : longer[i] = lines[i]
  BY AppendProperties
<1>2. Len(lines) \in Nat /\ DOMAIN lines = 1..Len(lines)
  BY LenProperties
<1>. HIDE DEF longer
<1>3. DOMAIN longer = 1..Len(longer)
  BY <1>1, LenProperties
<1>4. /\ parts \in Seq(Seq(Piece)) /\ Len(parts) = Len(lines)
      /\ more \in Seq(Seq(Piece)) /\ Len(more) = Len(longer)
  BY <1>1, TextParts
<1>5. \A i \in 1..Len(parts) : more[i] = parts[i]
  BY <1>1, <1>2, <1>3, <1>4
<1>6. more[Len(more)] = ExtractGeminiText(line)
  BY <1>1, <1>2, <1>3, <1>4
<1>. HIDE DEF parts, more
<1>7. FlattenSeq(more) = FlattenSeq(parts) \o more[Len(more)]
  BY <1>1, <1>4, <1>5, FlattenExtended
<1>. QED BY <1>6, <1>7 DEF TextOf, parts, more, longer

-----------------------------------------------------------------------------
(* The two translating loops, told apart by the format.                      *)
LineAs(format, s, line) ==
    IF format = "anthropic" THEN LineAsAnthropic(s, line) ELSE LineAsOpenAI(s, line)

StreamAs(format, s, lines) ==
    IF format = "anthropic" THEN StreamGeminiAsAnthropic(s, lines)
                            ELSE StreamGeminiAsOpenAI(s, lines)

Loops(h, format, s, lines, n) ==
    h = [i \in 0..n |-> IF i = 0 THEN s ELSE LineAs(format, h[i-1], lines[i])]

LEMMA LoopExists ==
    ASSUME NEW format, NEW s, NEW lines, NEW n \in Nat
    PROVE  \E h : Loops(h, format, s, lines, n)
<1>. DEFINE S == {m \in Nat : \E h : Loops(h, format, s, lines, m)}
<1>1. 0 \in S
  <2>. DEFINE h == [i \in 0..0 |-> s]
  <2>1. h = [i \in 0..0 |-> IF i = 0 THEN s ELSE LineAs(format, h[i-1], lines[i])]
    OBVIOUS
  <2>. QED BY <2>1 DEF Loops
<1>2. ASSUME NEW m \in Nat, m \in S PROVE m + 1 \in S
  <2>1. PICK f : Loops(f, format, s, lines, m)
    BY <1>2
  <2>. DEFINE Value(h, i) == IF i = 0 THEN s ELSE LineAs(format, h[i-1], lines[i])
              g == [i \in 0..(m+1) |-> Value(f, i)]
  <2>2. f = [i \in 0..m |-> Value(f, i)]
    BY <2>1 DEF Loops
  <2>. HIDE DEF Value
  <2>3. \A i \in 0..m : g[i] = f[i]
    BY <2>2
  <2>4. ASSUME NEW i \in 0..(m+1) PROVE Value(f, i) = Value(g, i)
    <3>1. CASE i = 0
      BY <3>1 DEF Value
    <3>2. CASE i # 0
      <4>1. i - 1 \in 0..m
        BY <3>2
      <4>2. g[i-1] = f[i-1]
        BY <2>3, <4>1
      <4>. QED BY <3>2, <4>2 DEF Value
    <3>. QED BY <3>1, <3>2
  <2>5. g = [i \in 0..(m+1) |-> Value(g, i)]
    BY <2>4
  <2>6. Loops(g, format, s, lines, m + 1)
    BY <2>5 DEF Loops, Value
  <2>. QED BY <2>6
<1>. QED BY <1>1, <1>2, SetInduction

LEMMA StreamAsFunction ==
    ASSUME NEW format, NEW s, NEW lines, Len(lines) \in Nat
    PROVE  \E h : /\ StreamAs(format, s, lines) = h[Len(lines)]
                  /\ h[0] = s
                  /\ \A i \in 0..Len(lines) - 1 : h[i+1] = LineAs(format, h[i], lines[i+1])
<1>. DEFINE anthropic == CHOOSE h : h = [i \in 0..Len(lines) |->
                            IF i = 0 THEN s ELSE LineAsAnthropic(h[i-1], lines[i])]
            openai == CHOOSE h : h = [i \in 0..Len(lines) |->
                            IF i = 0 THEN s ELSE LineAsOpenAI(h[i-1], lines[i])]
            loop == IF format = "anthropic" THEN anthropic ELSE openai
<1>1. StreamAs(format, s, lines) = loop[Len(lines)]
  BY DEF StreamAs, StreamGeminiAsAnthropic, StreamGeminiAsOpenAI
<1>2. \E h : Loops(h, format, s, lines, Len(lines))
  BY LoopExists
<1>3. Loops(loop, format, s, lines, Len(lines))
  <2>1. CASE format = "anthropic"
    <3>1. \E h : h = [i \in 0..Len(lines) |->
                            IF i = 0 THEN s ELSE LineAsAnthropic(h[i-1], lines[i])]
      BY <1>2, <2>1 DEF Loops, LineAs
    <3>2. anthropic = [i \in 0..Len(lines) |->
                            IF i = 0 THEN s ELSE LineAsAnthropic(anthropic[i-1], lines[i])]
      BY <3>1
    <3>. HIDE DEF anthropic
    <3>. QED BY <2>1, <3>2 DEF Loops, LineAs
  <2>2. CASE format # "anthropic"
    <3>1. \E h : h = [i \in 0..Len(lines) |->
                            IF i = 0 THEN s ELSE LineAsOpenAI(h[i-1], lines[i])]
      BY <1>2, <2>2 DEF Loops, LineAs
    <3>2. openai = [i \in 0..Len(lines) |->
                            IF i = 0 THEN s ELSE LineAsOpenAI(openai[i-1], lines[i])]
      BY <3>1
    <3>. HIDE DEF openai
    <3>. QED BY <2>2, <3>2 DEF Loops, LineAs
  <2>. QED BY <2>1, <2>2
<1>. HIDE DEF loop
<1>. DEFINE Value(i) == IF i = 0 THEN s ELSE LineAs(format, loop[i-1], lines[i])
<1>4. loop = [i \in 0..Len(lines) |-> Value(i)]
  BY <1>3 DEF Loops
<1>. HIDE DEF Value
<1>5. \A i \in 0..Len(lines) : loop[i] = Value(i)
  BY <1>4
<1>6. loop[0] = s
  BY <1>5 DEF Value
<1>7. ASSUME NEW i \in 0..Len(lines) - 1
      PROVE  loop[i+1] = LineAs(format, loop[i], lines[i+1])
  <2>1. i + 1 \in 0..Len(lines) /\ i + 1 # 0 /\ (i + 1) - 1 = i
    OBVIOUS
  <2>. QED BY <1>5, <2>1 DEF Value
<1>. QED BY <1>1, <1>6, <1>7

LEMMA StreamEmpty ==
    ASSUME NEW format, NEW s
    PROVE  StreamAs(format, s, <<>>) = s
BY EmptySeq, StreamAsFunction

LEMMA StreamAppend ==
    ASSUME NEW format, NEW s, NEW lines \in Seq(Chunk), NEW line \in Chunk
    PROVE  StreamAs(format, s, Append(lines, line)) =
             LineAs(format, StreamAs(format, s, lines), line)
<1>. DEFINE n == Len(lines)
            longer == Append(lines, line)
<1>1. Len(longer) = n + 1 /\ longer[n + 1] = line /\ \A i \in 1..n : longer[i] = lines[i]
  BY AppendProperties
<1>2. n \in Nat /\ Len(longer) \in Nat
  BY <1>1, LenProperties
<1>. HIDE DEF longer
<1>3. PICK f : /\ StreamAs(format, s, lines) = f[n] /\ f[0] = s
               /\ \A i \in 0..n - 1 : f[i+1] = LineAs(format, f[i], lines[i+1])
  BY <1>2, StreamAsFunction
<1>. HIDE DEF n
<1>4. PICK g : /\ StreamAs(format, s, longer) = g[n + 1] /\ g[0] = s
               /\ \A i \in 0..n : g[i+1] = LineAs(format, g[i], longer[i+1])
  <2>1. \E g : /\ StreamAs(format, s, longer) = g[Len(longer)] /\ g[0] = s
               /\ \A i \in 0..Len(longer) - 1 : g[i+1] = LineAs(format, g[i], longer[i+1])
    BY <1>2, StreamAsFunction
  <2>2. 0..Len(longer) - 1 = 0..n
    BY <1>1, <1>2
  <2>. QED BY <1>1, <2>1, <2>2
<1>. DEFINE S == {m \in Nat : m \in 0..n => g[m] = f[m]}
<1>5. 0 \in S
  BY <1>3, <1>4
<1>6. ASSUME NEW m \in Nat, m \in S PROVE m + 1 \in S
  <2>. SUFFICES ASSUME m + 1 \in 0..n PROVE g[m+1] = f[m+1]
    OBVIOUS
  <2>1. m \in 0..n - 1 /\ m \in 0..n /\ longer[m+1] = lines[m+1]
    BY <1>1, <1>2
  <2>. QED BY <1>3, <1>4, <1>6, <2>1
<1>7. n \in S
  <2>. HIDE DEF S
  <2>. QED BY <1>2, <1>5, <1>6, SetInduction
<1>8. g[n] = f[n] /\ g[n + 1] = LineAs(format, g[n], line)
  BY <1>1, <1>2, <1>4, <1>7
<1>. QED BY <1>3, <1>4, <1>8 DEF longer

(* What is read in two reads is translated as in one. *)
LEMMA StreamConcat ==
    ASSUME NEW format, NEW s, NEW first \in Seq(Chunk), NEW second \in Seq(Chunk)
    PROVE  StreamAs(format, s, first \o second) =
             StreamAs(format, StreamAs(format, s, first), second)
<1>. DEFINE S == {r \in Seq(Chunk) : StreamAs(format, s, first \o r) =
                                       StreamAs(format, StreamAs(format, s, first), r)}
<1>1. <<>> \in S
  BY EmptySeq, ConcatEmptySeq, StreamEmpty
<1>2. ASSUME NEW r \in Seq(Chunk), NEW line \in Chunk, r \in S PROVE Append(r, line) \in S
  <2>1. first \o Append(r, line) = Append(first \o r, line)
    <3>1. Append(r, line) = r \o <<line>> /\ <<line>> \in Seq(Chunk)
      BY AppendIsConcat
    <3>2. first \o r \in Seq(Chunk)
      BY ConcatProperties
    <3>3. Append(first \o r, line) = (first \o r) \o <<line>>
      BY <3>2, AppendIsConcat
    <3>. QED BY <3>1, <3>3, Regroup
  <2>2. first \o r \in Seq(Chunk) /\ Append(r, line) \in Seq(Chunk)
    BY ConcatProperties, AppendProperties
  <2>3. StreamAs(format, s, Append(first \o r, line)) =
          LineAs(format, StreamAs(format, s, first \o r), line)
    BY <2>2, StreamAppend
  <2>4. StreamAs(format, StreamAs(format, s, first), Append(r, line)) =
          LineAs(format, StreamAs(format, StreamAs(format, s, first), r), line)
    BY StreamAppend
  <2>5. StreamAs(format, s, first \o r) = StreamAs(format, StreamAs(format, s, first), r)
    BY <1>2
  <2>6. StreamAs(format, s, first \o Append(r, line)) =
          StreamAs(format, StreamAs(format, s, first), Append(r, line))
    BY <2>1, <2>3, <2>4, <2>5
  <2>. QED BY <2>2, <2>6
<1>. QED BY <1>1, <1>2, SeqInduction

-----------------------------------------------------------------------------
(* One line through a loop, in the three parts it can write.                 *)
StreamState == [open : BOOLEAN, accumulated : Seq(Piece), out : Seq(Written)]

Opening(format) ==
    IF format = "anthropic"
    THEN <<Event("message_start", <<>>), Event("content_block_start", <<>>)>>
    ELSE <<Event("role", <<>>)>>

Text(format, line) ==
    Event(IF format = "anthropic" THEN "content_block_delta" ELSE "content",
          ExtractGeminiText(line))

Closing(format, line) ==
    IF format = "anthropic"
    THEN <<Event("content_block_stop", <<>>),
           Event("message_delta", <<AnthropicStop(line.finish)>>), Event("message_stop", <<>>)>>
    ELSE <<Event("finish", <<OpenAIStop(line.finish)>>), Event("[DONE]", <<>>)>>

LEMMA LineInParts ==
    ASSUME NEW format, NEW s, NEW line, ~Silent(line)
    PROVE  LineAs(format, s, line) =
             [open |-> line.finish = "none",
              accumulated |-> s.accumulated \o ExtractGeminiText(line),
              out |-> s.out \o (IF s.open THEN <<>> ELSE Opening(format))
                            \o Delta(line, Text(format, line))
                            \o (IF line.finish = "none" THEN <<>> ELSE Closing(format, line))]
<1>1. CASE format = "anthropic"
  BY <1>1 DEF LineAs, LineAsAnthropic, StreamLine, OpenAfter, Accumulated, Opening, Text, Closing
<1>2. CASE format # "anthropic"
  BY <1>2 DEF LineAs, LineAsOpenAI, StreamLine, OpenAfter, Accumulated, Opening, Text, Closing
<1>. QED BY <1>1, <1>2

LEMMA SilentLine ==
    ASSUME NEW format, NEW s, NEW line, Silent(line)
    PROVE  LineAs(format, s, line) = s
BY DEF LineAs, LineAsAnthropic, LineAsOpenAI, StreamLine

LEMMA ClientTextConcat ==
    ASSUME NEW out \in Seq(Written), NEW more \in Seq(Written)
    PROVE  ClientText(out \o more) = ClientText(out) \o ClientText(more)
<1>. DEFINE S == {r \in Seq(Written) : ClientText(out \o r) = ClientText(out) \o ClientText(r)}
<1>1. <<>> \in S
  <2>1. ClientText(out) \in Seq(Piece)
    BY ClientTextType
  <2>2. ClientText(out) \o <<>> = ClientText(out) /\ out \o <<>> = out
    BY <2>1, ConcatEmptySeq
  <2>. QED BY <2>2, ClientTextEmpty, EmptySeq
<1>2. ASSUME NEW r \in Seq(Written), NEW event \in Written, r \in S
      PROVE  Append(r, event) \in S
  <2>1. out \o Append(r, event) = Append(out \o r, event)
    <3>1. Append(r, event) = r \o <<event>> /\ <<event>> \in Seq(Written)
      BY AppendIsConcat
    <3>2. out \o r \in Seq(Written)
      BY ConcatProperties
    <3>3. Append(out \o r, event) = (out \o r) \o <<event>>
      BY <3>2, AppendIsConcat
    <3>. QED BY <3>1, <3>3, Regroup
  <2>2. out \o r \in Seq(Written) /\ Append(r, event) \in Seq(Written)
    BY ConcatProperties, AppendProperties
  <2>3. ClientText(Append(out \o r, event)) = ClientText(out \o r) \o Shown(event)
    BY <2>2, ClientTextAppend
  <2>4. ClientText(Append(r, event)) = ClientText(r) \o Shown(event)
    BY ClientTextAppend
  <2>5. /\ ClientText(out) \in Seq(Piece) /\ ClientText(r) \in Seq(Piece)
        /\ Shown(event) \in Seq(Piece)
    BY ClientTextType, ShownIsText
  <2>6. (ClientText(out) \o ClientText(r)) \o Shown(event) =
          ClientText(out) \o (ClientText(r) \o Shown(event))
    BY <2>5, Regroup
  <2>7. ClientText(out \o Append(r, event)) = ClientText(out) \o ClientText(Append(r, event))
    BY <1>2, <2>1, <2>3, <2>4, <2>6
  <2>. QED BY <2>2, <2>7
<1>. QED BY <1>1, <1>2, SeqInduction

LEMMA QuietMore ==
    ASSUME NEW out \in Seq(Written), NEW more \in Seq(Written), ClientText(more) = <<>>
    PROVE  out \o more \in Seq(Written) /\ ClientText(out \o more) = ClientText(out)
<1>1. ClientText(out \o more) = ClientText(out) \o <<>>
  BY ClientTextConcat
<1>2. ClientText(out) \in Seq(Piece)
  BY ClientTextType
<1>3. ClientText(out) \o <<>> = ClientText(out)
  BY <1>2, ConcatEmptySeq
<1>. QED BY <1>1, <1>3, ConcatProperties

LEMMA ClientTextOne ==
    ASSUME NEW event \in Written
    PROVE  ClientText(<<event>>) = Shown(event)
<1>1. <<event>> = Append(<<>>, event) /\ <<>> \in Seq(Written)
  BY EmptySeq
<1>2. ClientText(Append(<<>>, event)) = <<>> \o Shown(event)
  BY <1>1, ClientTextAppend, ClientTextEmpty
<1>3. Shown(event) \in Seq(Piece)
  BY ShownIsText
<1>. QED BY <1>1, <1>2, <1>3, ConcatEmptySeq

LEMMA QuietTwo ==
    ASSUME NEW e \in Written, NEW f \in Written, Shown(e) = <<>>, Shown(f) = <<>>
    PROVE  ClientText(<<e, f>>) = <<>>
<1>1. <<e, f>> = <<e>> \o <<f>> /\ <<e>> \in Seq(Written) /\ <<f>> \in Seq(Written)
  <2>1. <<e>> \in Seq(Written) /\ <<f>> \in Seq(Written) /\ <<e, f>> = Append(<<e>>, f)
    OBVIOUS
  <2>. QED BY <2>1, AppendIsConcat
<1>2. ClientText(<<e, f>>) = ClientText(<<e>>) \o ClientText(<<f>>)
  BY <1>1, ClientTextConcat
<1>. QED BY <1>2, ClientTextOne, ConcatEmptySeq, EmptySeq

LEMMA QuietThree ==
    ASSUME NEW e \in Written, NEW f \in Written, NEW g \in Written,
           Shown(e) = <<>>, Shown(f) = <<>>, Shown(g) = <<>>
    PROVE  ClientText(<<e, f, g>>) = <<>>
<1>1. <<e, f, g>> = <<e, f>> \o <<g>> /\ <<e, f>> \in Seq(Written) /\ <<g>> \in Seq(Written)
  OBVIOUS
<1>2. ClientText(<<e, f, g>>) = ClientText(<<e, f>>) \o ClientText(<<g>>)
  BY <1>1, ClientTextConcat
<1>. QED BY <1>2, QuietTwo, ClientTextOne, ConcatEmptySeq, EmptySeq

LEMMA EventsAreWritten ==
    /\ \A kind \in {"message_start", "content_block_start", "content_block_stop",
                    "message_stop", "[DONE]", "error"} :
            Event(kind, <<>>) \in Written /\ Shown(Event(kind, <<>>)) = <<>>
    /\ \A reason \in Reasons : \A kind \in {"message_delta", "finish"} :
            Event(kind, <<reason>>) \in Written /\ Shown(Event(kind, <<reason>>)) = <<>>
    /\ \A kind \in TextEvents : \A text \in Seq(Piece) :
            Event(kind, text) \in Written /\ Shown(Event(kind, text)) = text
    /\ \A finish : AnthropicStop(finish) \in Reasons /\ OpenAIStop(finish) \in Reasons
<1>1. \A kind \in {"message_start", "content_block_start", "content_block_stop",
                   "message_stop", "[DONE]", "error"} :
            Event(kind, <<>>) \in Written /\ Shown(Event(kind, <<>>)) = <<>>
  BY DEF Event, Written, Shown, TextEvents
<1>2. \A reason \in Reasons : \A kind \in {"message_delta", "finish"} :
            Event(kind, <<reason>>) \in Written /\ Shown(Event(kind, <<reason>>)) = <<>>
  <2>1. \A reason \in Reasons : <<reason>> \in Seq(Reasons)
    OBVIOUS
  <2>. QED BY <2>1 DEF Event, Written, Shown, TextEvents
<1>3. \A kind \in TextEvents : \A text \in Seq(Piece) :
            Event(kind, text) \in Written /\ Shown(Event(kind, text)) = text
  BY DEF Event, Written, Shown, TextEvents
<1>4. \A finish : AnthropicStop(finish) \in Reasons /\ OpenAIStop(finish) \in Reasons
  BY DEF AnthropicStop, OpenAIStop, Reasons
<1>. QED BY <1>1, <1>2, <1>3, <1>4

LEMMA PartsOfLine ==
    ASSUME NEW format, NEW line \in Chunk
    PROVE  /\ Opening(format) \in Seq(Written) /\ ClientText(Opening(format)) = <<>>
           /\ Closing(format, line) \in Seq(Written) /\ ClientText(Closing(format, line)) = <<>>
           /\ Delta(line, Text(format, line)) \in Seq(Written)
           /\ ClientText(Delta(line, Text(format, line))) = ExtractGeminiText(line)
<1>0. <<>> \in Seq(Piece) /\ <<>> \in Seq(Written)
  BY EmptySeq
<1>1. Opening(format) \in Seq(Written) /\ ClientText(Opening(format)) = <<>>
  <2>1. CASE format = "anthropic"
    BY <2>1, EventsAreWritten, QuietTwo DEF Opening
  <2>2. CASE format # "anthropic"
    <3>1. Event("role", <<>>) \in Written /\ Shown(Event("role", <<>>)) = <<>>
      BY <1>0, EventsAreWritten DEF TextEvents
    <3>. QED BY <2>2, <3>1, ClientTextOne DEF Opening
  <2>. QED BY <2>1, <2>2
<1>2. Closing(format, line) \in Seq(Written) /\ ClientText(Closing(format, line)) = <<>>
  <2>1. CASE format = "anthropic"
    BY <2>1, EventsAreWritten, QuietThree DEF Closing
  <2>2. CASE format # "anthropic"
    BY <2>2, EventsAreWritten, QuietTwo DEF Closing
  <2>. QED BY <2>1, <2>2
<1>3. /\ Delta(line, Text(format, line)) \in Seq(Written)
      /\ ClientText(Delta(line, Text(format, line))) = ExtractGeminiText(line)
  <2>1. CASE ExtractGeminiText(line) = <<>>
    BY <1>0, <2>1, ClientTextEmpty DEF Delta
  <2>2. CASE ExtractGeminiText(line) # <<>>
    <3>1. Text(format, line) \in Written /\ Shown(Text(format, line)) = ExtractGeminiText(line)
      BY LineText, EventsAreWritten DEF Text, TextEvents
    <3>. QED BY <2>2, <3>1, ClientTextOne DEF Delta
  <2>. QED BY <2>1, <2>2
<1>. QED BY <1>1, <1>2, <1>3

(* What the client is shown and what is accumulated grow by a line's text.   *)
LEMMA LineTexts ==
    ASSUME NEW format, NEW s \in StreamState, NEW line \in Chunk
    PROVE  LET next == LineAs(format, s, line)
           IN  /\ next \in StreamState
               /\ next.accumulated = s.accumulated \o ExtractGeminiText(line)
               /\ ClientText(next.out) = ClientText(s.out) \o ExtractGeminiText(line)
<1>. DEFINE next == LineAs(format, s, line)
            text == ExtractGeminiText(line)
<1>0. /\ s.out \in Seq(Written) /\ s.accumulated \in Seq(Piece) /\ text \in Seq(Piece)
      /\ ClientText(s.out) \in Seq(Piece)
  BY LineText, ClientTextType DEF StreamState
<1>1. CASE Silent(line)
  <2>1. next = s /\ text = <<>>
    BY <1>1, SilentLine DEF Silent
  <2>. HIDE DEF next, text
  <2>2. s.accumulated \o text = s.accumulated /\ ClientText(s.out) \o text = ClientText(s.out)
    BY <1>0, <2>1, ConcatEmptySeq
  <2>3. next \in StreamState /\ next.accumulated = s.accumulated \o text
        /\ ClientText(next.out) = ClientText(s.out) \o text
    BY <2>1, <2>2
  <2>. QED BY <2>3 DEF next, text
<1>2. CASE ~Silent(line)
  <2>. DEFINE opening == IF s.open THEN <<>> ELSE Opening(format)
              delta == Delta(line, Text(format, line))
              closing == IF line.finish = "none" THEN <<>> ELSE Closing(format, line)
  <2>1. next = [open |-> line.finish = "none", accumulated |-> s.accumulated \o text,
                out |-> s.out \o opening \o delta \o closing]
    BY <1>2, LineInParts
  <2>2. /\ opening \in Seq(Written) /\ ClientText(opening) = <<>>
        /\ delta \in Seq(Written) /\ ClientText(delta) = text
        /\ closing \in Seq(Written) /\ ClientText(closing) = <<>>
    BY PartsOfLine, ClientTextEmpty, EmptySeq
  <2>. HIDE DEF opening, delta, closing, next, text
  <2>. DEFINE opened == s.out \o opening
              shown == opened \o delta
              closed == shown \o closing
  <2>3. opened \in Seq(Written) /\ ClientText(opened) = ClientText(s.out)
    BY <1>0, <2>2, QuietMore
  <2>. HIDE DEF opened
  <2>4. shown \in Seq(Written) /\ ClientText(shown) = ClientText(s.out) \o text
    BY <2>2, <2>3, ConcatProperties, ClientTextConcat
  <2>5. ClientText(s.out) \o text \in Seq(Piece) /\ s.accumulated \o text \in Seq(Piece)
    BY <1>0, ConcatProperties
  <2>. HIDE DEF shown
  <2>6. closed \in Seq(Written) /\ ClientText(closed) = ClientText(s.out) \o text
    BY <2>2, <2>4, QuietMore
  <2>7. next.out = closed /\ next.accumulated = s.accumulated \o text
        /\ next.open = (line.finish = "none")
    BY <2>1 DEF closed, shown, opened
  <2>8. next \in StreamState
    <3>. HIDE DEF closed
    <3>1. next = [open |-> line.finish = "none", accumulated |-> s.accumulated \o text,
                  out |-> closed]
      BY <2>1 DEF closed, shown, opened
    <3>. QED BY <2>5, <2>6, <3>1 DEF StreamState
  <2>. QED BY <2>6, <2>7, <2>8 DEF next, text
<1>. QED BY <1>1, <1>2

LEMMA NewStreamState ==
    NewStream \in StreamState /\ NewStream.accumulated = <<>> /\ NewStream.out = <<>>
BY EmptySeq DEF NewStream, StreamState

(* A reply is shown and accumulated line by line, nothing lost or doubled.   *)
LEMMA StreamTexts ==
    ASSUME NEW format, NEW lines \in Seq(Chunk)
    PROVE  LET s == StreamAs(format, NewStream, lines)
           IN  /\ s \in StreamState
               /\ s.accumulated = TextOf(lines) /\ ClientText(s.out) = TextOf(lines)
<1>. DEFINE Shows(r) == LET s == StreamAs(format, NewStream, r)
                        IN  /\ s \in StreamState
                            /\ s.accumulated = TextOf(r) /\ ClientText(s.out) = TextOf(r)
            S == {r \in Seq(Chunk) : Shows(r)}
<1>1. <<>> \in S
  BY EmptySeq, StreamEmpty, NewStreamState, TextEmpty, ClientTextEmpty
<1>2. ASSUME NEW r \in Seq(Chunk), NEW line \in Chunk, r \in S PROVE Append(r, line) \in S
  <2>. DEFINE s == StreamAs(format, NewStream, r)
              next == StreamAs(format, NewStream, Append(r, line))
  <2>1. s \in StreamState /\ s.accumulated = TextOf(r) /\ ClientText(s.out) = TextOf(r)
    BY <1>2
  <2>2. next = LineAs(format, s, line)
    BY StreamAppend
  <2>. HIDE DEF s, next
  <2>3. /\ next \in StreamState
        /\ next.accumulated = s.accumulated \o ExtractGeminiText(line)
        /\ ClientText(next.out) = ClientText(s.out) \o ExtractGeminiText(line)
    BY <2>1, <2>2, LineTexts
  <2>4. TextOf(Append(r, line)) = TextOf(r) \o ExtractGeminiText(line)
        /\ Append(r, line) \in Seq(Chunk)
    BY TextAppend, AppendProperties
  <2>5. /\ next \in StreamState /\ next.accumulated = TextOf(Append(r, line))
        /\ ClientText(next.out) = TextOf(Append(r, line))
    BY <2>1, <2>3, <2>4
  <2>. QED BY <2>4, <2>5 DEF next
<1>. QED BY <1>1, <1>2, SeqInduction

-----------------------------------------------------------------------------
(* The lines that say something, one line at a time.                         *)
LEMMA SaidEmpty == Said(<<>>) = <<>>
<1>1. [i \in DOMAIN <<>> |-> IF ~Silent(<<>>[i]) THEN <<<<>>[i]>> ELSE <<>>] = <<>>
  BY EmptySeq
<1>. QED BY <1>1, FlattenEmpty DEF Said, Those

LEMMA SaidAppend ==
    ASSUME NEW lines \in Seq(Chunk), NEW line \in Chunk
    PROVE  /\ Said(lines) \in Seq(Chunk)
           /\ Said(Append(lines, line)) =
                IF Silent(line) THEN Said(lines) ELSE Append(Said(lines), line)
<1>. DEFINE longer == Append(lines, line)
            places == {i \in 1..Len(longer) : ~Silent(longer[i])}
<1>1. longer \in Seq(Chunk) /\ Len(longer) = Len(lines) + 1 /\ longer[Len(lines) + 1] = line
      /\ \A i \in 1..Len(lines) : longer[i] = lines[i]
  BY AppendProperties
<1>2. Len(lines) \in Nat /\ DOMAIN lines = 1..Len(lines)
  BY LenProperties
<1>. HIDE DEF longer
<1>3. DOMAIN longer = 1..Len(longer)
  BY <1>1, LenProperties
<1>4. Said(longer) = Picked(longer, places)
  BY <1>3 DEF Said, Those, Picked, PickedParts
<1>5. Said(lines) = Picked(lines, places)
  <2>1. \A i \in DOMAIN lines : i \in places <=> ~Silent(lines[i])
    BY <1>1, <1>2
  <2>. HIDE DEF places
  <2>. QED BY <2>1 DEF Said, Those, Picked, PickedParts
<1>6. Len(lines) + 1 \in places <=> ~Silent(line)
  BY <1>1, <1>2
<1>. HIDE DEF places
<1>7. Picked(longer, places) =
        Picked(lines, places) \o IF Len(lines) + 1 \in places THEN <<line>> ELSE <<>>
  BY PickedAppend DEF longer
<1>8. Said(lines) \in Seq(Chunk)
  BY <1>5, PickedType
<1>9. Said(longer) = IF Silent(line) THEN Said(lines) ELSE Append(Said(lines), line)
  <2>1. CASE Silent(line)
    BY <1>4, <1>5, <1>6, <1>7, <1>8, <2>1, ConcatEmptySeq
  <2>2. CASE ~Silent(line)
    BY <1>4, <1>5, <1>6, <1>7, <1>8, <2>2, AppendIsConcat
  <2>. QED BY <2>1, <2>2
<1>. QED BY <1>8, <1>9 DEF longer

(* They say all that the lines say.                                          *)
LEMMA SaidText ==
    ASSUME NEW lines \in Seq(Chunk)
    PROVE  TextOf(Said(lines)) = TextOf(lines)
<1>. DEFINE S == {r \in Seq(Chunk) : TextOf(Said(r)) = TextOf(r)}
<1>1. <<>> \in S
  BY EmptySeq, SaidEmpty
<1>2. ASSUME NEW r \in Seq(Chunk), NEW line \in Chunk, r \in S PROVE Append(r, line) \in S
  <2>1. /\ TextOf(Append(r, line)) = TextOf(r) \o ExtractGeminiText(line)
        /\ Append(r, line) \in Seq(Chunk) /\ Said(r) \in Seq(Chunk)
    BY TextAppend, AppendProperties, SaidAppend
  <2>2. CASE Silent(line)
    <3>1. ExtractGeminiText(line) = <<>> /\ Said(Append(r, line)) = Said(r)
      BY <2>2, SaidAppend DEF Silent
    <3>2. TextOf(r) \o <<>> = TextOf(r)
      BY TextType, ConcatEmptySeq
    <3>. QED BY <1>2, <2>1, <3>1, <3>2
  <2>3. CASE ~Silent(line)
    <3>1. Said(Append(r, line)) = Append(Said(r), line)
      BY <2>3, SaidAppend
    <3>2. TextOf(Append(Said(r), line)) = TextOf(Said(r)) \o ExtractGeminiText(line)
      BY <2>1, TextAppend
    <3>. QED BY <1>2, <2>1, <3>1, <3>2
  <2>. QED BY <2>2, <2>3
<1>. QED BY <1>1, <1>2, SeqInduction

-----------------------------------------------------------------------------
(* A stream is in order: each event may follow the one before.               *)
Ends(out, kinds) == out # <<>> /\ Last(out).event \in kinds

Starts(out) == out # <<>> => Head(out).event \in {"message_start", "role"}

LEMMA OneMore ==
    ASSUME NEW out \in Seq(Written), NEW event \in Written, InOrder(out), Starts(out),
           \/ out = <<>> /\ event.event \in {"message_start", "role"}
           \/ out # <<>> /\ <<Last(out).event, event.event>> \in Follows
    PROVE  /\ Append(out, event) \in Seq(Written)
           /\ InOrder(Append(out, event)) /\ Starts(Append(out, event))
           /\ Append(out, event) # <<>> /\ Last(Append(out, event)) = event
<1>. DEFINE more == Append(out, event)
<1>1. more \in Seq(Written) /\ Len(more) = Len(out) + 1 /\ more[Len(out) + 1] = event
      /\ (\A i \in 1..Len(out) : more[i] = out[i]) /\ more # <<>>
  BY AppendProperties
<1>2. Len(out) \in Nat /\ (out # <<>> => Len(out) # 0)
  BY LenProperties, EmptySeq
<1>. HIDE DEF more
<1>3. InOrder(more)
  <2>. SUFFICES ASSUME NEW i \in 1..Len(more) - 1
                PROVE  <<more[i].event, more[i + 1].event>> \in Follows
    BY DEF InOrder
  <2>1. CASE i = Len(out)
    <3>1. out # <<>> /\ more[i] = Last(out) /\ more[i + 1] = event
      BY <1>1, <1>2, <2>1, EmptySeq DEF Last
    <3>. QED BY <3>1
  <2>2. CASE i # Len(out)
    <3>1. i \in 1..Len(out) - 1 /\ more[i] = out[i] /\ more[i + 1] = out[i + 1]
      BY <1>1, <1>2, <2>2
    <3>. QED BY <3>1 DEF InOrder
  <2>. QED BY <2>1, <2>2
<1>4. Last(more) = event
  BY <1>1 DEF Last
<1>5. Starts(more)
  <2>1. CASE out = <<>>
    <3>1. Head(more) = event
      BY <2>1 DEF more
    <3>. QED BY <2>1, <3>1 DEF Starts
  <2>2. CASE out # <<>>
    <3>1. Head(more) = Head(out)
      BY <2>2, HeadTailAppend DEF more
    <3>. QED BY <2>2, <3>1 DEF Starts
  <2>. QED BY <2>1, <2>2
<1>. QED BY <1>1, <1>3, <1>4, <1>5 DEF more

LEMMA AppendTwo ==
    ASSUME NEW P, NEW out \in Seq(P), NEW e \in P, NEW f \in P
    PROVE  out \o <<e, f>> = Append(Append(out, e), f)
<1>1. <<e>> \in Seq(P) /\ <<f>> \in Seq(P) /\ <<e, f>> = Append(<<e>>, f)
  OBVIOUS
<1>2. <<e, f>> = <<e>> \o <<f>>
  BY <1>1, AppendIsConcat
<1>3. out \o <<e, f>> = (out \o <<e>>) \o <<f>>
  BY <1>1, <1>2, Regroup
<1>4. Append(out, e) = out \o <<e>> /\ Append(out, e) \in Seq(P)
  BY AppendIsConcat, AppendProperties
<1>5. Append(Append(out, e), f) = Append(out, e) \o <<f>>
  BY <1>4, AppendIsConcat
<1>. QED BY <1>3, <1>4, <1>5

LEMMA AppendThree ==
    ASSUME NEW P, NEW out \in Seq(P), NEW e \in P, NEW f \in P, NEW g \in P
    PROVE  out \o <<e, f, g>> = Append(Append(Append(out, e), f), g)
<1>1. <<e, f>> \in Seq(P) /\ <<g>> \in Seq(P) /\ <<e, f, g>> = Append(<<e, f>>, g)
  OBVIOUS
<1>2. <<e, f, g>> = <<e, f>> \o <<g>>
  BY <1>1, AppendIsConcat
<1>3. out \o <<e, f, g>> = (out \o <<e, f>>) \o <<g>>
  BY <1>1, <1>2, Regroup
<1>4. out \o <<e, f>> = Append(Append(out, e), f) /\ Append(Append(out, e), f) \in Seq(P)
  BY AppendTwo, AppendProperties
<1>5. Append(Append(Append(out, e), f), g) = Append(Append(out, e), f) \o <<g>>
  BY <1>4, AppendIsConcat
<1>. QED BY <1>3, <1>4, <1>5

(* The events an open message and a closed one end with.                     *)
OpenKinds(format) ==
    IF format = "anthropic" THEN {"content_block_start", "content_block_delta"}
                            ELSE {"role", "content"}

ClosedKinds(format) == IF format = "anthropic" THEN {"message_stop"} ELSE {"[DONE]"}

Sound(out) == out \in Seq(Written) /\ InOrder(out) /\ Starts(out)

InForm(format, s) ==
    /\ Sound(s.out)
    /\ s.open => Ends(s.out, OpenKinds(format))
    /\ ~s.open => s.out = <<>> \/ Ends(s.out, ClosedKinds(format))

LEMMA OpeningInForm ==
    ASSUME NEW format, NEW out, Sound(out),
           out = <<>> \/ Ends(out, ClosedKinds(format))
    PROVE  Sound(out \o Opening(format)) /\ Ends(out \o Opening(format), OpenKinds(format))
<1>0. \A kind \in {"message_start", "content_block_start"} : Event(kind, <<>>) \in Written
  BY EventsAreWritten
<1>1. CASE format = "anthropic"
  <2>. DEFINE e == Event("message_start", <<>>)
              f == Event("content_block_start", <<>>)
              one == Append(out, e)
  <2>1. e \in Written /\ f \in Written /\ e.event = "message_start"
        /\ f.event = "content_block_start" /\ Opening(format) = <<e, f>>
    BY <1>0, <1>1 DEF Opening, Event
  <2>. HIDE DEF e, f
  <2>2. Sound(one) /\ one # <<>> /\ Last(one) = e
    <3>1. out # <<>> => <<Last(out).event, e.event>> \in Follows
      BY <1>1, <2>1 DEF Ends, ClosedKinds, Follows
    <3>. QED BY <2>1, <3>1, OneMore DEF Sound
  <2>. HIDE DEF one
  <2>3. Sound(Append(one, f)) /\ Append(one, f) # <<>> /\ Last(Append(one, f)) = f
    <3>1. <<Last(one).event, f.event>> \in Follows
      BY <2>1, <2>2 DEF Follows
    <3>. QED BY <2>1, <2>2, <3>1, OneMore DEF Sound
  <2>4. out \o <<e, f>> = Append(one, f)
    BY <2>1, AppendTwo DEF one, Sound
  <2>. QED BY <1>1, <2>1, <2>3, <2>4 DEF Ends, OpenKinds
<1>2. CASE format # "anthropic"
  <2>. DEFINE e == Event("role", <<>>)
  <2>1. e \in Written /\ e.event = "role" /\ Opening(format) = <<e>>
    <3>1. <<>> \in Seq(Piece)
      BY EmptySeq
    <3>. QED BY <1>2, <3>1, EventsAreWritten DEF Opening, Event, TextEvents
  <2>. HIDE DEF e
  <2>2. out # <<>> => <<Last(out).event, e.event>> \in Follows
    BY <1>2, <2>1 DEF Ends, ClosedKinds, Follows
  <2>3. Sound(Append(out, e)) /\ Append(out, e) # <<>> /\ Last(Append(out, e)) = e
    BY <2>1, <2>2, OneMore DEF Sound
  <2>4. out \o <<e>> = Append(out, e)
    BY <2>1, AppendIsConcat DEF Sound
  <2>. QED BY <1>2, <2>1, <2>3, <2>4 DEF Ends, OpenKinds
<1>. QED BY <1>1, <1>2

LEMMA DeltaInForm ==
    ASSUME NEW format, NEW line \in Chunk, NEW out, Sound(out), Ends(out, OpenKinds(format))
    PROVE  /\ Sound(out \o Delta(line, Text(format, line)))
           /\ Ends(out \o Delta(line, Text(format, line)), OpenKinds(format))
<1>1. CASE ExtractGeminiText(line) = <<>>
  <2>1. out \o <<>> = out
    BY ConcatEmptySeq DEF Sound
  <2>. QED BY <1>1, <2>1 DEF Delta
<1>2. CASE ExtractGeminiText(line) # <<>>
  <2>. DEFINE e == Text(format, line)
  <2>1. e \in Written /\ Delta(line, e) = <<e>>
        /\ e.event = IF format = "anthropic" THEN "content_block_delta" ELSE "content"
    BY <1>2, LineText, EventsAreWritten DEF Text, Event, TextEvents, Delta
  <2>. HIDE DEF e
  <2>2. <<Last(out).event, e.event>> \in Follows /\ out # <<>> /\ e.event \in OpenKinds(format)
    BY <2>1 DEF Ends, OpenKinds, Follows
  <2>3. Sound(Append(out, e)) /\ Append(out, e) # <<>> /\ Last(Append(out, e)) = e
    BY <2>1, <2>2, OneMore DEF Sound
  <2>4. out \o <<e>> = Append(out, e)
    BY <2>1, AppendIsConcat DEF Sound
  <2>. QED BY <2>1, <2>2, <2>3, <2>4 DEF Ends, e
<1>. QED BY <1>1, <1>2

LEMMA ClosingInForm ==
    ASSUME NEW format, NEW line, NEW out, Sound(out), Ends(out, OpenKinds(format))
    PROVE  /\ Sound(out \o Closing(format, line))
           /\ Ends(out \o Closing(format, line), ClosedKinds(format))
<1>1. CASE format = "anthropic"
  <2>. DEFINE e == Event("content_block_stop", <<>>)
              f == Event("message_delta", <<AnthropicStop(line.finish)>>)
              g == Event("message_stop", <<>>)
              one == Append(out, e)
              two == Append(one, f)
  <2>1. /\ e \in Written /\ f \in Written /\ g \in Written
        /\ e.event = "content_block_stop" /\ f.event = "message_delta"
        /\ g.event = "message_stop" /\ Closing(format, line) = <<e, f, g>>
    BY <1>1, EventsAreWritten DEF Closing, Event
  <2>. HIDE DEF e, f, g
  <2>2. Sound(one) /\ one # <<>> /\ Last(one) = e
    <3>1. out # <<>> /\ <<Last(out).event, e.event>> \in Follows
      BY <1>1, <2>1 DEF Ends, OpenKinds, Follows
    <3>. QED BY <2>1, <3>1, OneMore DEF Sound
  <2>. HIDE DEF one
  <2>3. Sound(two) /\ two # <<>> /\ Last(two) = f
    <3>1. <<Last(one).event, f.event>> \in Follows
      BY <2>1, <2>2 DEF Follows
    <3>. QED BY <2>1, <2>2, <3>1, OneMore DEF Sound
  <2>. HIDE DEF two
  <2>4. Sound(Append(two, g)) /\ Append(two, g) # <<>> /\ Last(Append(two, g)) = g
    <3>1. <<Last(two).event, g.event>> \in Follows
      BY <2>1, <2>3 DEF Follows
    <3>. QED BY <2>1, <2>3, <3>1, OneMore DEF Sound
  <2>5. out \o <<e, f, g>> = Append(two, g)
    BY <2>1, AppendThree DEF one, two, Sound
  <2>. QED BY <1>1, <2>1, <2>4, <2>5 DEF Ends, ClosedKinds
<1>2. CASE format # "anthropic"
  <2>. DEFINE e == Event("finish", <<OpenAIStop(line.finish)>>)
              f == Event("[DONE]", <<>>)
              one == Append(out, e)
  <2>1. /\ e \in Written /\ f \in Written
        /\ e.event = "finish" /\ f.event = "[DONE]" /\ Closing(format, line) = <<e, f>>
    BY <1>2, EventsAreWritten DEF Closing, Event
  <2>. HIDE DEF e, f
  <2>2. Sound(one) /\ one # <<>> /\ Last(one) = e
    <3>1. out # <<>> /\ <<Last(out).event, e.event>> \in Follows
      BY <1>2, <2>1 DEF Ends, OpenKinds, Follows
    <3>. QED BY <2>1, <3>1, OneMore DEF Sound
  <2>. HIDE DEF one
  <2>3. Sound(Append(one, f)) /\ Append(one, f) # <<>> /\ Last(Append(one, f)) = f
    <3>1. <<Last(one).event, f.event>> \in Follows
      BY <2>1, <2>2 DEF Follows
    <3>. QED BY <2>1, <2>2, <3>1, OneMore DEF Sound
  <2>4. out \o <<e, f>> = Append(one, f)
    BY <2>1, AppendTwo DEF one, Sound
  <2>. QED BY <1>2, <2>1, <2>3, <2>4 DEF Ends, ClosedKinds
<1>. QED BY <1>1, <1>2

LEMMA LineInForm ==
    ASSUME NEW format, NEW s \in StreamState, NEW line \in Chunk,
           InForm(format, s), ~Silent(line)
    PROVE  LET next == LineAs(format, s, line)
           IN  /\ InForm(format, next) /\ next.out # <<>>
               /\ next.open = (line.finish = "none")
<1>. DEFINE opening == IF s.open THEN <<>> ELSE Opening(format)
            delta == Delta(line, Text(format, line))
            closing == IF line.finish = "none" THEN <<>> ELSE Closing(format, line)
            opened == s.out \o opening
            shown == opened \o delta
            closed == shown \o closing
            next == LineAs(format, s, line)
<1>1. next.out = closed /\ next.open = (line.finish = "none")
  <2>1. next = [open |-> line.finish = "none",
                accumulated |-> s.accumulated \o ExtractGeminiText(line),
                out |-> s.out \o opening \o delta \o closing]
    BY LineInParts
  <2>. HIDE DEF opening, delta, closing, next
  <2>. QED BY <2>1
<1>2. Sound(opened) /\ Ends(opened, OpenKinds(format))
  <2>1. CASE s.open
    <3>1. s.out \o <<>> = s.out
      BY ConcatEmptySeq DEF StreamState
    <3>. QED BY <2>1, <3>1 DEF InForm
  <2>2. CASE ~s.open
    BY <2>2, OpeningInForm DEF InForm
  <2>. QED BY <2>1, <2>2
<1>. HIDE DEF opened
<1>3. Sound(shown) /\ Ends(shown, OpenKinds(format))
  BY <1>2, DeltaInForm
<1>. HIDE DEF shown
<1>4. CASE line.finish = "none"
  <2>1. shown \o <<>> = shown
    BY <1>3, ConcatEmptySeq DEF Sound
  <2>2. closed = shown
    BY <1>4, <2>1
  <2>3. InForm(format, next) /\ next.out # <<>>
    BY <1>1, <1>3, <1>4, <2>2 DEF InForm, Ends
  <2>. QED BY <1>1, <2>3
<1>5. CASE line.finish # "none"
  <2>1. Sound(closed) /\ Ends(closed, ClosedKinds(format))
    BY <1>3, <1>5, ClosingInForm
  <2>. HIDE DEF closed
  <2>2. InForm(format, next) /\ next.out # <<>>
    BY <1>1, <1>5, <2>1 DEF InForm, Ends
  <2>. QED BY <1>1, <2>2
<1>. QED BY <1>4, <1>5

(* A streamed reply is whole messages, the last of which is open exactly if  *)
(* the last line that said something had no finish reason.                   *)
LEMMA StreamInForm ==
    ASSUME NEW format, NEW lines \in Seq(Chunk)
    PROVE  LET s == StreamAs(format, NewStream, lines)
           IN  /\ InForm(format, s)
               /\ s.out = <<>> <=> Said(lines) = <<>>
               /\ Said(lines) # <<>> => s.open = (Last(Said(lines)).finish = "none")
<1>. DEFINE Formed(s, r) == /\ InForm(format, s)
                            /\ s.out = <<>> <=> Said(r) = <<>>
                            /\ Said(r) # <<>> => s.open = (Last(Said(r)).finish = "none")
            S == {r \in Seq(Chunk) : Formed(StreamAs(format, NewStream, r), r)}
<1>1. <<>> \in S
  <2>1. StreamAs(format, NewStream, <<>>) = NewStream
    BY StreamEmpty
  <2>2. Sound(<<>>)
    BY EmptySeq DEF Sound, InOrder, Starts
  <2>3. Formed(NewStream, <<>>)
    BY <2>2, SaidEmpty DEF NewStream, InForm
  <2>. QED BY <2>1, <2>3, EmptySeq
<1>2. ASSUME NEW r \in Seq(Chunk), NEW line \in Chunk, r \in S PROVE Append(r, line) \in S
  <2>. DEFINE s == StreamAs(format, NewStream, r)
              next == StreamAs(format, NewStream, Append(r, line))
  <2>1. Formed(s, r) /\ s \in StreamState
    BY <1>2, StreamTexts
  <2>2. next = LineAs(format, s, line)
    BY StreamAppend
  <2>3. Append(r, line) \in Seq(Chunk) /\ Said(r) \in Seq(Chunk)
    BY AppendProperties, SaidAppend
  <2>. HIDE DEF s, next
  <2>4. CASE Silent(line)
    <3>1. next = s /\ Said(Append(r, line)) = Said(r)
      BY <2>2, <2>4, SilentLine, SaidAppend
    <3>2. Formed(next, Append(r, line))
      BY <2>1, <3>1
    <3>. QED BY <2>3, <3>2 DEF next
  <2>5. CASE ~Silent(line)
    <3>1. Said(Append(r, line)) = Append(Said(r), line)
      BY <2>5, SaidAppend
    <3>2. Append(Said(r), line) # <<>> /\ Last(Append(Said(r), line)) = line
      BY <2>3, AppendProperties DEF Last
    <3>3. InForm(format, next) /\ next.out # <<>> /\ next.open = (line.finish = "none")
      BY <2>1, <2>2, <2>5, LineInForm
    <3>4. Formed(next, Append(r, line))
      BY <3>1, <3>2, <3>3
    <3>. QED BY <2>3, <3>4 DEF next
  <2>. QED BY <2>4, <2>5
<1>3. lines \in S
  BY <1>1, <1>2, SeqInduction
<1>. QED BY <1>3

(* Events are only added.                                                    *)
LEMMA StreamGrows ==
    ASSUME NEW format, NEW s \in StreamState, NEW lines \in Seq(Chunk)
    PROVE  /\ StreamAs(format, s, lines) \in StreamState
           /\ Len(StreamAs(format, s, lines).out) >= Len(s.out)
<1>. DEFINE Grown(t) == t \in StreamState /\ Len(t.out) >= Len(s.out)
            S == {r \in Seq(Chunk) : Grown(StreamAs(format, s, r))}
<1>0. Len(s.out) \in Nat
  BY LenProperties DEF StreamState
<1>1. <<>> \in S
  BY <1>0, EmptySeq, StreamEmpty
<1>2. ASSUME NEW r \in Seq(Chunk), NEW line \in Chunk, r \in S PROVE Append(r, line) \in S
  <2>. DEFINE t == StreamAs(format, s, r)
              next == LineAs(format, t, line)
  <2>1. StreamAs(format, s, Append(r, line)) = next /\ Append(r, line) \in Seq(Chunk)
    BY StreamAppend, AppendProperties
  <2>2. t \in StreamState /\ Len(t.out) >= Len(s.out)
    BY <1>2
  <2>. HIDE DEF t
  <2>3. next \in StreamState
    BY <2>2, LineTexts
  <2>4. Len(next.out) >= Len(t.out)
    <3>1. CASE Silent(line)
      <4>1. next = t
        BY <3>1, SilentLine
      <4>2. Len(t.out) \in Nat
        BY <2>2, LenProperties DEF StreamState
      <4>. QED BY <4>1, <4>2
    <3>2. CASE ~Silent(line)
      <4>. DEFINE opening == IF t.open THEN <<>> ELSE Opening(format)
                  delta == Delta(line, Text(format, line))
                  closing == IF line.finish = "none" THEN <<>> ELSE Closing(format, line)
                  opened == t.out \o opening
                  shown == opened \o delta
      <4>1. next.out = t.out \o opening \o delta \o closing
        <5>1. next = [open |-> line.finish = "none",
                      accumulated |-> t.accumulated \o ExtractGeminiText(line),
                      out |-> t.out \o opening \o delta \o closing]
          BY <3>2, LineInParts
        <5>. HIDE DEF opening, delta, closing, next
        <5>. QED BY <5>1
      <4>2. t.out \in Seq(Written) /\ opening \in Seq(Written) /\ delta \in Seq(Written)
            /\ closing \in Seq(Written)
        BY <2>2, PartsOfLine, EmptySeq DEF StreamState
      <4>. HIDE DEF opening, delta, closing, next
      <4>3. opened \in Seq(Written) /\ Len(opened) >= Len(t.out)
        BY <4>2, ConcatProperties, LenProperties
      <4>. HIDE DEF opened
      <4>4. shown \in Seq(Written) /\ Len(shown) >= Len(opened)
        BY <4>2, <4>3, ConcatProperties, LenProperties
      <4>. HIDE DEF shown
      <4>5. next.out = shown \o closing
        BY <4>1 DEF shown, opened
      <4>6. Len(next.out) >= Len(shown)
        BY <4>2, <4>4, <4>5, ConcatProperties, LenProperties
      <4>7. Len(next.out) \in Nat /\ Len(shown) \in Nat /\ Len(opened) \in Nat
            /\ Len(t.out) \in Nat
        BY <2>2, <2>3, <4>3, <4>4, LenProperties DEF StreamState, next
      <4>. QED BY <4>3, <4>4, <4>6, <4>7
    <3>. QED BY <3>1, <3>2
  <2>5. Len(next.out) \in Nat /\ Len(t.out) \in Nat
    BY <2>2, <2>3, LenProperties DEF StreamState
  <2>6. Grown(next)
    BY <1>0, <2>2, <2>3, <2>4, <2>5
  <2>. QED BY <2>1, <2>6
<1>. QED BY <1>1, <1>2, SeqInduction

-----------------------------------------------------------------------------
(* A complete reply as a stream is one whole message with the reply's text.  *)
LEMMA WholeAsAnthropic ==
    ASSUME NEW text \in Seq(Piece), NEW stop \in Reasons
    PROVE  LET out == WriteAnthropicSSE([text |-> text, stop |-> stop])
           IN  Sound(out) /\ Closed(out) /\ ClientText(out) = text
<1>. DEFINE a == Event("message_start", <<>>)
            b == Event("content_block_start", <<>>)
            c == Event("content_block_delta", text)
            d == Event("content_block_stop", <<>>)
            e == Event("message_delta", <<stop>>)
            f == Event("message_stop", <<>>)
            out == WriteAnthropicSSE([text |-> text, stop |-> stop])
<1>1. out = <<a, b, c, d, e, f>>
  BY DEF WriteAnthropicSSE
<1>2. /\ a \in Written /\ b \in Written /\ c \in Written
      /\ d \in Written /\ e \in Written /\ f \in Written
      /\ Shown(a) = <<>> /\ Shown(b) = <<>> /\ Shown(c) = text
      /\ Shown(d) = <<>> /\ Shown(e) = <<>> /\ Shown(f) = <<>>
  BY EventsAreWritten DEF TextEvents
<1>3. /\ a.event = "message_start" /\ b.event = "content_block_start"
      /\ c.event = "content_block_delta" /\ d.event = "content_block_stop"
      /\ e.event = "message_delta" /\ f.event = "message_stop"
  BY DEF Event
<1>. HIDE DEF a, b, c, d, e, f, out
<1>4. out \in Seq(Written) /\ Len(out) = 6 /\ Head(out) = a /\ Last(out) = f /\ out # <<>>
  BY <1>1, <1>2 DEF Last
<1>5. InOrder(out)
  <2>0. 1..Len(out) - 1 = 1..5
    BY <1>4
  <2>. SUFFICES ASSUME NEW i \in 1..5 PROVE <<out[i].event, out[i + 1].event>> \in Follows
    BY <2>0, Zenon DEF InOrder
  <2>1. i = 1 \/ i = 2 \/ i = 3 \/ i = 4 \/ i = 5
    OBVIOUS
  <2>2. out[1] = a /\ out[2] = b /\ out[3] = c /\ out[4] = d /\ out[5] = e /\ out[6] = f
    BY <1>1
  <2>3. /\ <<a.event, b.event>> \in Follows /\ <<b.event, c.event>> \in Follows
        /\ <<c.event, d.event>> \in Follows /\ <<d.event, e.event>> \in Follows
        /\ <<e.event, f.event>> \in Follows
    BY <1>3 DEF Follows
  <2>4. 1 + 1 = 2 /\ 2 + 1 = 3 /\ 3 + 1 = 4 /\ 4 + 1 = 5 /\ 5 + 1 = 6
    OBVIOUS
  <2>. QED BY <2>1, <2>2, <2>3, <2>4, Zenon
<1>6. ClientText(out) = text
  <2>1. <<a, b>> \in Seq(Written) /\ <<c>> \in Seq(Written) /\ <<d, e, f>> \in Seq(Written)
    BY <1>2
  <2>2. out = Append(Append(Append(Append(<<a, b>>, c), d), e), f)
    BY <1>1
  <2>3. Append(<<a, b>>, c) \in Seq(Written)
    BY <1>2
  <2>4. Append(<<a, b>>, c) \o <<d, e, f>> = out
    BY <1>2, <2>2, <2>3, AppendThree
  <2>5. ClientText(Append(<<a, b>>, c)) = <<>> \o text
    BY <1>2, <2>1, ClientTextAppend, QuietTwo
  <2>6. <<>> \o text = text
    BY ConcatEmptySeq
  <2>7. ClientText(<<d, e, f>>) = <<>>
    BY <1>2, QuietThree
  <2>. QED BY <2>1, <2>3, <2>4, <2>5, <2>6, <2>7, QuietMore
<1>7. Sound(out) /\ Closed(out)
  BY <1>3, <1>4, <1>5 DEF Sound, Starts, Closed
<1>. QED BY <1>6, <1>7 DEF out

LEMMA WholeAsOpenAI ==
    ASSUME NEW text \in Seq(Piece), NEW stop \in Reasons
    PROVE  LET out == WriteOpenAISSE([text |-> text, stop |-> stop])
           IN  Sound(out) /\ Closed(out) /\ ClientText(out) = text
<1>. DEFINE a == Event("role", text)
            b == Event("finish", <<stop>>)
            c == Event("[DONE]", <<>>)
            out == WriteOpenAISSE([text |-> text, stop |-> stop])
<1>1. out = <<a, b, c>>
  BY DEF WriteOpenAISSE
<1>2. /\ a \in Written /\ b \in Written /\ c \in Written
      /\ Shown(a) = text /\ Shown(b) = <<>> /\ Shown(c) = <<>>
  BY EventsAreWritten DEF TextEvents
<1>3. a.event = "role" /\ b.event = "finish" /\ c.event = "[DONE]"
  BY DEF Event
<1>. HIDE DEF a, b, c, out
<1>4. out \in Seq(Written) /\ Len(out) = 3 /\ Head(out) = a /\ Last(out) = c /\ out # <<>>
  BY <1>1, <1>2 DEF Last
<1>5. InOrder(out)
  <2>. SUFFICES ASSUME NEW i \in 1..2 PROVE <<out[i].event, out[i + 1].event>> \in Follows
    BY <1>4 DEF InOrder
  <2>1. i = 1 \/ i = 2
    OBVIOUS
  <2>. QED BY <1>1, <1>3, <2>1 DEF Follows
<1>6. ClientText(out) = text
  <2>1. <<a>> \in Seq(Written) /\ <<b, c>> \in Seq(Written) /\ out = Append(Append(<<a>>, b), c)
    BY <1>1, <1>2
  <2>2. out = <<a>> \o <<b, c>>
    BY <1>2, <2>1, AppendTwo
  <2>3. ClientText(<<a>>) = text /\ ClientText(<<b, c>>) = <<>>
    BY <1>2, ClientTextOne, QuietTwo
  <2>. QED BY <2>1, <2>2, <2>3, QuietMore
<1>7. Sound(out) /\ Closed(out)
  BY <1>3, <1>4, <1>5 DEF Sound, Starts, Closed
<1>. QED BY <1>6, <1>7 DEF out
=============================================================================
