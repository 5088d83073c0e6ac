-------------------------- MODULE FlattenSeqProofs --------------------------
(***************************************************************************)
(* Lemmas about the texts of this project: sequences of characters, cut    *)
(* and put together with \o, and the sequences of such texts that          *)
(* FlattenSeq joins.  FlattenSeq is defined by recursion over its argument;*)
(* what it does with one text more, at either end, is proved here by       *)
(* induction, from the least-number principle that the well-foundedness of *)
(* < on Nat gives.                                                         *)
(***************************************************************************)
EXTENDS Integers, Sequences, SequencesExt, SequenceTheorems,
        WellFoundedInduction, TLAPS

(* A set of numbers that is not empty has a least one.                     *)
LEMMA LeastNumber ==
  ASSUME NEW S \in SUBSET Nat, S # {}
  PROVE  \E n \in S : \A m \in S : n <= m
<1>1. PICK n \in S : \A m \in S : <<m, n>> \notin OpToRel(<, Nat)
  BY NatLessThanWellFounded, WFMin, Zenon
<1>2. \A m \in S : ~ (m < n)
  BY <1>1 DEF OpToRel
<1> QED  BY <1>2

(* A set that holds 0 and the successor of each of its members holds Nat.  *)
LEMMA Induction ==
  ASSUME NEW S \in SUBSET Nat, 0 \in S, \A n \in S : n + 1 \in S
  PROVE  \A n \in Nat : n \in S
<1> SUFFICES ASSUME Nat \ S # {} PROVE FALSE
  OBVIOUS
<1>1. PICK n \in Nat \ S : \A m \in Nat \ S : n <= m
  BY LeastNumber
<1>2. n # 0 /\ n - 1 \in Nat /\ n - 1 \in S
  BY <1>1
<1> QED  BY <1>2

(* What FlattenSeq computes on the way: g[i] is the first i texts together. *)
Joins(g, seqs) ==
  \A i \in DOMAIN g : g[i] = IF i = 1 THEN seqs[i] ELSE g[i - 1] \o seqs[i]

(* A step of the recursion, counted from 0.                                *)
LEMMA JoinsAt ==
  ASSUME NEW seqs, NEW g, Joins(g, seqs), NEW n \in Nat, n + 1 \in DOMAIN g
  PROVE  g[n + 1] = IF n = 0 THEN seqs[n + 1] ELSE g[n] \o seqs[n + 1]
<1>1. n + 1 - 1 = n /\ (n + 1 = 1 <=> n = 0)
  OBVIOUS
<1> DEFINE k == n + 1
<1>2. g[k] = IF k = 1 THEN seqs[k] ELSE g[k - 1] \o seqs[k]
  <2>1. k \in DOMAIN g
    BY <1>1
  <2> HIDE DEF k
  <2> QED  BY <2>1, Zenon DEF Joins
<1> QED  BY <1>1, <1>2

(* One step of the recursion more.                                         *)
LEMMA JoinOneMore ==
  ASSUME NEW E, NEW seqs \in Seq(Seq(E)), NEW n \in Nat, n + 1 <= Len(seqs),
         NEW g \in [1..n -> Seq(E)], Joins(g, seqs)
  PROVE  \E h \in [1..(n + 1) -> Seq(E)] : Joins(h, seqs)
<1> DEFINE v == IF n = 0 THEN seqs[1] ELSE g[n] \o seqs[n + 1]
           h == [i \in 1..(n + 1) |-> IF i = n + 1 THEN v ELSE g[i]]
<1>1. seqs[n + 1] \in Seq(E)
  OBVIOUS
<1>2. v \in Seq(E)
  BY <1>1
<1>3. h \in [1..(n + 1) -> Seq(E)]
  BY <1>2
<1>4. ASSUME NEW i \in 1..(n + 1)
      PROVE  h[i] = IF i = 1 THEN seqs[i] ELSE h[i - 1] \o seqs[i]
  <2>1. CASE i = n + 1 /\ n # 0
    <3>1. h[i] = g[n] \o seqs[n + 1]
      BY <2>1
    <3>2. i - 1 = n /\ n \in 1..(n + 1) /\ n # n + 1 /\ i # 1
      BY <2>1
    <3>3. h[i - 1] = g[n]
      BY <3>2
    <3> HIDE DEF h
    <3> QED  BY <3>1, <3>2, <3>3, <2>1
  <2>2. CASE i = n + 1 /\ n = 0
    BY <2>2
  <2>3. CASE i # n + 1
    <3>1. i \in 1..n /\ h[i] = g[i] /\ (i # 1 => h[i - 1] = g[i - 1])
      BY <2>3
    <3>2. g[i] = IF i = 1 THEN seqs[i] ELSE g[i - 1] \o seqs[i]
      BY <3>1 DEF Joins
    <3> HIDE DEF h
    <3> QED  BY <3>1, <3>2
  <2> QED  BY <2>1, <2>2, <2>3
<1>5. Joins(h, seqs)
  BY <1>3, <1>4 DEF Joins
<1> HIDE DEF h
<1> QED  BY <1>3, <1>5

(* The recursion has a value at every place.                               *)
LEMMA JoinsExist ==
  ASSUME NEW E, NEW seqs \in Seq(Seq(E))
  PROVE  \A n \in Nat : n <= Len(seqs) =>
           \E g \in [1..n -> Seq(E)] : Joins(g, seqs)
<1> DEFINE S == {n \in Nat : n <= Len(seqs) =>
                   \E g \in [1..n -> Seq(E)] : Joins(g, seqs)}
<1>1. 0 \in S
  <2> DEFINE g == [i \in 1..0 |-> <<>>]
  <2>1. g \in [1..0 -> Seq(E)] /\ DOMAIN g = {}
    OBVIOUS
  <2>2. Joins(g, seqs)
    BY <2>1 DEF Joins
  <2> HIDE DEF g
  <2> QED  BY <2>1, <2>2
<1>2. ASSUME NEW n \in S PROVE n + 1 \in S
  <2>1. n \in Nat /\ n + 1 \in Nat
    OBVIOUS
  <2>2. ASSUME n + 1 <= Len(seqs)
        PROVE  \E g \in [1..(n + 1) -> Seq(E)] : Joins(g, seqs)
    <3>1. PICK g \in [1..n -> Seq(E)] : Joins(g, seqs)
      BY <2>2
    <3> QED  BY <2>1, <2>2, <3>1, JoinOneMore
  <2> QED  BY <2>1, <2>2
<1>3. S \in SUBSET Nat
  OBVIOUS
<1> HIDE DEF S
<1>4. \A n \in Nat : n \in S
  BY <1>1, <1>2, <1>3, Induction
<1> QED  BY <1>4 DEF S

(* FlattenSeq is the last of these values.                                 *)
LEMMA FlattenIs ==
  ASSUME NEW E, NEW seqs \in Seq(Seq(E)), Len(seqs) # 0
  PROVE  \E g \in [1..Len(seqs) -> Seq(E)] :
           Joins(g, seqs) /\ FlattenSeq(seqs) = g[Len(seqs)]
<1> DEFINE Body(g) == [i \in 1..Len(seqs) |->
                         IF i = 1 THEN seqs[i] ELSE g[i - 1] \o seqs[i]]
           f == CHOOSE g : g = Body(g)
<1>1. FlattenSeq(seqs) = f[Len(seqs)]
  BY Zenon DEF FlattenSeq
<1>2. PICK g \in [1..Len(seqs) -> Seq(E)] : g = Body(g)
  <2>1. PICK g \in [1..Len(seqs) -> Seq(E)] : Joins(g, seqs)
    BY JoinsExist
  <2>2. \A i \in 1..Len(seqs) :
                g[i] = IF i = 1 THEN seqs[i] ELSE g[i - 1] \o seqs[i]
    BY <2>1 DEF Joins
  <2> QED  BY <2>1, <2>2
<1>3. f = Body(f)
  <2> HIDE DEF Body
  <2> QED  BY <1>2
<1>4. DOMAIN f = 1..Len(seqs) /\ Joins(f, seqs)
  <2> HIDE DEF f
  <2> QED  BY <1>3 DEF Joins
<1> HIDE DEF f
<1>5. \A n \in Nat : n \in 1..Len(seqs) => f[n] \in Seq(E)
  <2> DEFINE S == {n \in Nat : n \in 1..Len(seqs) => f[n] \in Seq(E)}
  <2>1. 0 \in S
    OBVIOUS
  <2>2. ASSUME NEW n \in S PROVE n + 1 \in S
    <3> SUFFICES ASSUME n + 1 \in 1..Len(seqs) PROVE f[n + 1] \in Seq(E)
      OBVIOUS
    <3>1. seqs[n + 1] \in Seq(E)
      OBVIOUS
    <3>2. f[n + 1] = IF n = 0 THEN seqs[n + 1] ELSE f[n] \o seqs[n + 1]
      <4>1. n \in Nat /\ n + 1 \in DOMAIN f
        BY <1>4
      <4> QED  BY <4>1, <1>4, JoinsAt
    <3>3. CASE n = 0
      BY <3>1, <3>2, <3>3
    <3>4. CASE n # 0
      <4>1. n \in 1..Len(seqs)
        BY <3>4
      <4>2. f[n] \in Seq(E)
        BY <4>1
      <4>3. f[n + 1] = f[n] \o seqs[n + 1]
        BY <3>2, <3>4
      <4> QED  BY <3>1, <4>2, <4>3
    <3> QED  BY <3>3, <3>4
  <2>3. S \in SUBSET Nat
    OBVIOUS
  <2> HIDE DEF S
  <2>4. \A n \in Nat : n \in S
    BY <2>1, <2>2, <2>3, Induction
  <2> QED  BY <2>4 DEF S
<1>6. f \in [1..Len(seqs) -> Seq(E)]
  <2>1. f = [i \in 1..Len(seqs) |-> f[i]]
    BY <1>3
  <2> QED  BY <2>1, <1>5
<1> QED  BY <1>1, <1>4, <1>6

(* The texts put together, and one more: the same, with it at the end.     *)
LEMMA FlattenAppend ==
  ASSUME NEW E, NEW seqs \in Seq(Seq(E)), NEW text \in Seq(E)
  PROVE  FlattenSeq(Append(seqs, text)) = FlattenSeq(seqs) \o text
<1> DEFINE more == Append(seqs, text)
           n == Len(seqs)
<1>1. /\ more \in Seq(Seq(E)) /\ Len(more) = n + 1 /\ n \in Nat
      /\ more[n + 1] = text /\ \A i \in 1..n : more[i] = seqs[i]
  OBVIOUS
<1> HIDE DEF more
<1>2. PICK h \in [1..(n + 1) -> Seq(E)] :
        Joins(h, more) /\ FlattenSeq(more) = h[n + 1]
  <2>1. Len(more) # 0
    BY <1>1
  <2> QED  BY <1>1, <2>1, FlattenIs
<1>3. h[n + 1] = IF n = 0 THEN text ELSE h[n] \o text
  <2>1. n \in Nat /\ n + 1 \in DOMAIN h
    BY <1>1
  <2>2. h[n + 1] = IF n = 0 THEN more[n + 1] ELSE h[n] \o more[n + 1]
    BY <1>2, <2>1, JoinsAt
  <2> QED  BY <2>2, <1>1
<1>4. CASE n = 0
  <2>1. seqs = <<>>
    BY <1>4
  <2>3. FlattenSeq(seqs) = <<>>
    BY <1>4, <2>1, Zenon DEF FlattenSeq
  <2>2. <<>> \o text = text
    OBVIOUS
  <2> QED  BY <1>2, <1>3, <1>4, <2>2, <2>3 DEF more
<1>5. CASE n # 0
  <2>1. PICK g \in [1..n -> Seq(E)] : Joins(g, seqs) /\ FlattenSeq(seqs) = g[n]
    BY <1>5, FlattenIs
  <2>2. g[n] = h[n]
    <3> DEFINE S == {k \in Nat : k \in 1..n => g[k] = h[k]}
    <3>1. 0 \in S
      OBVIOUS
    <3>2. ASSUME NEW k \in S PROVE k + 1 \in S
      <4> SUFFICES ASSUME k + 1 \in 1..n PROVE g[k + 1] = h[k + 1]
        OBVIOUS
      <4>1. k \in Nat /\ k + 1 \in DOMAIN g /\ k + 1 \in DOMAIN h
        BY <1>1
      <4>2. g[k + 1] = IF k = 0 THEN seqs[k + 1] ELSE g[k] \o seqs[k + 1]
        BY <2>1, <4>1, JoinsAt
      <4>3. h[k + 1] = IF k = 0 THEN more[k + 1] ELSE h[k] \o more[k + 1]
        BY <1>2, <4>1, JoinsAt
      <4>4. seqs[k + 1] = more[k + 1] /\ (k # 0 => g[k] = h[k])
        BY <1>1
      <4> HIDE DEF S
      <4> QED  BY <4>2, <4>3, <4>4, Zenon
    <3>3. S \in SUBSET Nat
      OBVIOUS
    <3> HIDE DEF S
    <3>4. n \in S
      BY <1>1, <3>1, <3>2, <3>3, Induction
    <3> QED  BY <3>4, <1>1, <1>5 DEF S
  <2> QED  BY <1>2, <1>3, <1>5, <2>1, <2>2 DEF more
<1> QED  BY <1>4, <1>5

(* What texts of E are put together to is a text of E.                     *)
LEMMA FlattenTyped ==
  ASSUME NEW E, NEW seqs \in Seq(Seq(E))
  PROVE  FlattenSeq(seqs) \in Seq(E)
<1>1. CASE Len(seqs) = 0
  <2>1. seqs = <<>>
    BY <1>1
  <2>2. FlattenSeq(seqs) = <<>>
    BY <2>1, Zenon DEF FlattenSeq
  <2> QED
    BY <2>2, EmptySeq
<1>2. CASE Len(seqs) # 0
  <2>1. PICK g \in [1..Len(seqs) -> Seq(E)] :
          Joins(g, seqs) /\ FlattenSeq(seqs) = g[Len(seqs)]
    BY <1>2, FlattenIs
  <2>2. Len(seqs) \in 1..Len(seqs)
    BY <1>2
  <2> QED  BY <2>1, <2>2
<1> QED  BY <1>1, <1>2

(* The same at the other end, for n texts.                                 *)
ConsOf(E, text, n) ==
  \A s \in Seq(Seq(E)) :
    Len(s) = n => FlattenSeq(<<text>> \o s) = text \o FlattenSeq(s)

(* FlattenCons for no sequences. *)
LEMMA ConsOfNone ==
  ASSUME NEW E, NEW text \in Seq(E)
  PROVE  ConsOf(E, text, 0)
<1> SUFFICES ASSUME NEW s \in Seq(Seq(E)), Len(s) = 0
             PROVE  FlattenSeq(<<text>> \o s) = text \o FlattenSeq(s)
  BY DEF ConsOf
<1>1. s = <<>> /\ <<text>> \o s = Append(s, text)
  OBVIOUS
<1>2. FlattenSeq(Append(s, text)) = FlattenSeq(s) \o text
  BY FlattenAppend
<1>3. FlattenSeq(s) = <<>>
  BY <1>1, Zenon DEF FlattenSeq
<1>4. <<>> \o text = text \o <<>>
  BY ConcatEmptySeq
<1> QED
  BY <1>1, <1>2, <1>3, <1>4

(* An element appended to the second of two sequences is appended to both. *)
LEMMA AppendToConcat ==
  ASSUME NEW S, NEW s \in Seq(S), NEW t \in Seq(S), NEW e \in S
  PROVE  s \o Append(t, e) = Append(s \o t, e)
<1> DEFINE a == s \o Append(t, e)
           b == Append(s \o t, e)
<1>1. a \in Seq(S) /\ Len(a) = Len(s) + Len(t) + 1
  OBVIOUS
<1>2. b \in Seq(S) /\ Len(b) = Len(s) + Len(t) + 1
  OBVIOUS
<1>3. \A i \in 1..(Len(s) + Len(t) + 1) : a[i] = b[i]
  OBVIOUS
<1> HIDE DEF a, b
<1>4. a = b
  BY <1>1, <1>2, <1>3, SeqEqual
<1> QED
  BY <1>4 DEF a, b

(* Concatenation is associative. *)
LEMMA Regroup ==
  ASSUME NEW E
  PROVE  \A a, b, c \in Seq(E) : (a \o b) \o c = a \o (b \o c)
BY ConcatAssociative

(* FlattenCons for one sequence more, by FlattenAppend at both ends. *)
LEMMA ConsOfOneMore ==
  ASSUME NEW E, NEW text \in Seq(E), NEW n \in Nat, ConsOf(E, text, n)
  PROVE  ConsOf(E, text, n + 1)
<1>0. \A f, l \in Seq(E) : (text \o f) \o l = text \o (f \o l)
  BY Regroup
<1> SUFFICES ASSUME NEW s \in Seq(Seq(E)), Len(s) = n + 1
             PROVE  FlattenSeq(<<text>> \o s) = text \o FlattenSeq(s)
  BY DEF ConsOf
<1> DEFINE T == Seq(E)
           one == <<text>>
           first == SubSeq(s, 1, n)
           last == s[n + 1]
<1>1. first \in Seq(T) /\ Len(first) = n /\ last \in T /\ s = Append(first, last)
  OBVIOUS
<1>2. one \in Seq(T)
  OBVIOUS
<1>3. FlattenSeq(one \o first) = text \o FlattenSeq(first)
  BY <1>1 DEF ConsOf
<1> HIDE DEF first, last, one, T
<1>4. one \o s = Append(one \o first, last)
  BY <1>1, <1>2, AppendToConcat
<1>5. one \o first \in Seq(T)
  BY <1>1, <1>2, ConcatProperties
<1>6. FlattenSeq(Append(first, last)) = FlattenSeq(first) \o last
  BY <1>1, FlattenAppend DEF T
<1>7. FlattenSeq(Append(one \o first, last)) = FlattenSeq(one \o first) \o last
  BY <1>1, <1>5, FlattenAppend DEF T
<1>8. (text \o FlattenSeq(first)) \o last = text \o (FlattenSeq(first) \o last)
  <2>2. FlattenSeq(first) \in Seq(E) /\ last \in Seq(E)
    BY <1>1, FlattenTyped DEF T
  <2> QED
    BY <1>0, <2>2
<1> QED
  BY <1>1, <1>3, <1>4, <1>6, <1>7, <1>8 DEF one

(* A sequence put in front of the others is what the flat sequence begins
   with; by induction on the number of the others. *)
LEMMA FlattenCons ==
  ASSUME NEW E, NEW text \in Seq(E), NEW seqs \in Seq(Seq(E))
  PROVE  FlattenSeq(<<text>> \o seqs) = text \o FlattenSeq(seqs)
<1> DEFINE S == {n \in Nat : ConsOf(E, text, n)}
<1>1. 0 \in S
  BY ConsOfNone
<1>2. \A n \in S : n + 1 \in S
  BY ConsOfOneMore
<1>3. S \in SUBSET Nat
  OBVIOUS
<1>4. Len(seqs) \in Nat
  OBVIOUS
<1>5. Len(seqs) \in S
  <2> HIDE DEF S
  <2> QED
    BY <1>1, <1>2, <1>3, <1>4, Induction
<1>6. ConsOf(E, text, Len(seqs))
  BY <1>5
<1> QED
  BY <1>6 DEF ConsOf

(* Where the elements of two sequences are once one follows the other.     *)
LEMMA ConcatAt ==
  ASSUME NEW E, NEW a \in Seq(E), NEW b \in Seq(E)
  PROVE  /\ a \o b \in Seq(E) /\ Len(a) \in Nat /\ Len(b) \in Nat
         /\ Len(a \o b) = Len(a) + Len(b)
         /\ \A k \in 1..Len(a) : (a \o b)[k] = a[k]
         /\ \A k \in 1..Len(b) : (a \o b)[Len(a) + k] = b[k]
<1>1. \A k \in 1..Len(b) : (a \o b)[Len(a) + k] = b[k]
  <2> TAKE k \in 1..Len(b)
  <2>1. Len(a) + k \in 1..(Len(a) + Len(b)) /\ Len(a) + k > Len(a) /\ (Len(a) + k) - Len(a) = k
    OBVIOUS
  <2> QED
    BY <2>1
<1> QED
  BY <1>1

(* A text cut in two is put together again.                                *)
LEMMA CutAndJoin ==
  ASSUME NEW E, NEW text \in Seq(E), NEW k \in 1..Len(text)
  PROVE  /\ SubSeq(text, 1, k) \in Seq(E)
         /\ SubSeq(text, k + 1, Len(text)) \in Seq(E)
         /\ SubSeq(text, 1, k) \o SubSeq(text, k + 1, Len(text)) = text
<1>1. 1 \in 1..(Len(text) + 1) /\ k \in (1 - 1)..Len(text) /\ Len(text) \in k..Len(text)
  OBVIOUS
<1>2. SubSeq(text, 1, k) \in Seq(E) /\ SubSeq(text, k + 1, Len(text)) \in Seq(E)
  OBVIOUS
<1> QED
  BY <1>1, <1>2, ConcatAdjacentSubSeq, SubSeqFull

(* A character moves from the front of a text to the end of the one before.*)
LEMMA MoveCharacter ==
  ASSUME NEW E, NEW s \in Seq(E), NEW t \in Seq(E), t # <<>>
  PROVE  /\ Append(s, Head(t)) \in Seq(E) /\ Tail(t) \in Seq(E)
         /\ Append(s, Head(t)) \o Tail(t) = s \o t
<1> DEFINE a == Append(s, Head(t)) \o Tail(t)
           b == s \o t
<1>1. a \in Seq(E) /\ Len(a) = Len(s) + Len(t)
  OBVIOUS
<1>2. b \in Seq(E) /\ Len(b) = Len(s) + Len(t)
  OBVIOUS
<1>3. \A i \in 1..(Len(s) + Len(t)) : a[i] = b[i]
  OBVIOUS
<1> HIDE DEF a, b
<1>4. a = b
  BY <1>1, <1>2, <1>3, SeqEqual
<1> QED
  BY <1>4 DEF a, b
=============================================================================
