-------------------------- MODULE RioReaderProofs ---------------------------
(***************************************************************************)
(* The safety properties of RioReader, for every stream a client may send, *)
(* every way the network cuts it and every size of the two buffers.        *)
(***************************************************************************)
EXTENDS RioReader, FlattenSeqProofs

Characters == Range(stream)
Texts == Seq(Characters)

TextsTyped ==
  /\ stream \in Texts /\ todo \in Texts /\ net \in Texts
  /\ rio_buf \in Texts /\ line \in Texts /\ lines \in Seq(Texts)
  /\ eof \in BOOLEAN
  /\ pc \in {"requestLine", "headers", "parsed", "ignored"}

(* A client closes behind the last byte it sends.                          *)
ClosedHasSent == eof => todo = <<>>

(* The line being read has no newline yet.                                 *)
LineIsOpen == \A i \in DOMAIN line : line[i] # LF

(* After a line that the end of the stream cut off nothing is left.        *)
Ended(text) == text[Len(text)] = LF \/ Len(text) = MaxLine - 1
Exhausted == eof /\ net = <<>> /\ rio_buf = <<>> /\ line = <<>>
CutOffIsLast ==
  \A i \in DOMAIN lines : Ended(lines[i]) \/ (i = Len(lines) /\ Exhausted)

(* What the worker has read, by what it reads next.                        *)
NothingReadYet ==
  /\ pc = "requestLine" => lines = <<>>
  /\ pc = "headers" => lines # <<>>

(* The bytes read end with the last line and the one being read.           *)
LastLineIsRead ==
  lines # <<>> => \E p \in Texts : FlattenSeq(lines) = p \o lines[Len(lines)]

(* As long as the worker reads there was no blank line, and the buf of     *)
(* requestReadhdrs does not hold one once a header was put into it.        *)
NoBlankLineYet ==
  /\ Reading => \A i \in 3..Len(stream) : BlankAt(i) => BytesRead < i
  /\ pc = "headers" /\ Len(lines) > 1 => buf # BlankLine

HeadersInv ==
  NothingReadYet /\ LastLineIsRead /\ NoBlankLineYet /\ HeadersEndAtBlankLine

ReaderInv ==
  /\ TextsTyped /\ ClosedHasSent /\ LineIsOpen /\ CutOffIsLast
  /\ BytesConserved /\ LinesAreLines /\ HeadersInv

-----------------------------------------------------------------------------
(* Every step.                                                             *)

(* The empty text is a text. *)
LEMMA EmptyTexts == <<>> \in Texts /\ <<>> \in Seq(Texts)
BY DEF Texts

(* ReaderInv holds before anything is sent. *)
LEMMA StartsReading == Init => ReaderInv
<1> SUFFICES ASSUME Init PROVE ReaderInv
  OBVIOUS
<1> USE DEF Init
<1>1. TextsTyped
  <2>1. stream \in Streams
    OBVIOUS
  <2>2. stream \in Texts
    BY <2>1, StreamsAssumption DEF Characters, Texts
  <2> QED
    BY <2>2, EmptyTexts DEF TextsTyped
<1>2. BytesConserved
  <2>1. FlattenSeq(<<>>) = <<>>
    BY Zenon DEF FlattenSeq
  <2>2. <<>> \o <<>> = <<>>
    OBVIOUS
  <2>3. <<>> \o stream = stream
    BY <1>1, ConcatEmptySeq DEF TextsTyped
  <2> QED
    BY <2>1, <2>2, <2>3 DEF BytesConserved
<1>3. LinesAreLines
  BY SizesAssumption DEF LinesAreLines
<1>4. HeadersInv
  <2>1. FlattenSeq(<<>>) = <<>>
    BY Zenon DEF FlattenSeq
  <2>2. BytesRead = 0
    BY <2>1 DEF BytesRead
  <2> QED
    BY <2>2 DEF HeadersInv, NothingReadYet, LastLineIsRead, NoBlankLineYet,
       HeadersEndAtBlankLine
<1> QED
  BY <1>1, <1>2, <1>3, <1>4 DEF ReaderInv, ClosedHasSent, LineIsOpen, CutOffIsLast

(* What the client will have sent in all is fixed. *)
LEMMA SameStream ==
  ASSUME Next
  PROVE  stream' = stream /\ Texts' = Texts
BY DEF Next, Worker, Send, CloseClient, Refill, ReadByte, ReadEofInLine, ReadEof,
   client, Characters, Texts

(* Texts in a row, and how a step may move their bytes.                    *)
LEMMA MoveInRow ==
  /\ \A a, b \in Texts : a \o b \in Texts
  /\ \A a, b, c \in Texts : (a \o b) \o c = a \o (b \o c)
  /\ \A a \in Texts : a \o <<>> = a
<1> DEFINE E == Characters
<1> HIDE DEF E
<1>1. \A a, b \in Seq(E) : a \o b \in Seq(E)
  OBVIOUS
<1>2. \A a, b, c \in Seq(E) : (a \o b) \o c = a \o (b \o c)
  BY Regroup
<1>3. \A a \in Seq(E) : a \o <<>> = a
  BY ConcatEmptySeq
<1> QED
  BY <1>1, <1>2, <1>3 DEF E, Texts

(* What these lemmas say of the texts of this module.                      *)
LEMMA TextLemmas ==
  /\ \A s \in Seq(Texts) : FlattenSeq(s) \in Texts
  /\ \A s \in Seq(Texts), t \in Texts : FlattenSeq(Append(s, t)) = FlattenSeq(s) \o t
  /\ \A t \in Texts : \A k \in 1..Len(t) :
       /\ SubSeq(t, 1, k) \in Texts /\ SubSeq(t, k + 1, Len(t)) \in Texts
       /\ SubSeq(t, 1, k) \o SubSeq(t, k + 1, Len(t)) = t
  /\ \A s, t \in Texts : t # <<>> =>
       /\ Append(s, Head(t)) \in Texts /\ Tail(t) \in Texts
       /\ Append(s, Head(t)) \o Tail(t) = s \o t
<1>1. \A s \in Seq(Texts) : FlattenSeq(s) \in Texts
  BY FlattenTyped DEF Texts
<1>2. \A s \in Seq(Texts), t \in Texts : FlattenSeq(Append(s, t)) = FlattenSeq(s) \o t
  BY FlattenAppend DEF Texts
<1>3. \A t \in Texts : \A k \in 1..Len(t) :
        /\ SubSeq(t, 1, k) \in Texts /\ SubSeq(t, k + 1, Len(t)) \in Texts
        /\ SubSeq(t, 1, k) \o SubSeq(t, k + 1, Len(t)) = t
  BY CutAndJoin DEF Texts
<1>4. \A s, t \in Texts : t # <<>> =>
        /\ Append(s, Head(t)) \in Texts /\ Tail(t) \in Texts
        /\ Append(s, Head(t)) \o Tail(t) = s \o t
  BY MoveCharacter DEF Texts
<1> QED
  BY <1>1, <1>2, <1>3, <1>4

(* Where the bytes of two texts are once one follows the other.            *)
LEMMA TextsAt ==
  ASSUME NEW a \in Texts, NEW b \in Texts
  PROVE  /\ a \o b \in Texts /\ Len(a) \in Nat /\ Len(b) \in Nat
         /\ Len(a \o b) = Len(a) + Len(b)
         /\ \A k \in 1..Len(a) : (a \o b)[k] = a[k]
         /\ \A k \in 1..Len(b) : (a \o b)[Len(a) + k] = b[k]
BY ConcatAt DEF Texts

(* A line that rio_readlineb returns, whatever ended it.                   *)
LEMMA LineIsAdded ==
  ASSUME ReaderInv, Reading, ~ Exhausted, NEW text \in Texts, Return(text)
  PROVE  /\ lines' \in Seq(Texts) /\ Len(lines') = Len(lines) + 1
         /\ lines'[Len(lines) + 1] = text
         /\ \A i \in 1..Len(lines) : lines'[i] = lines[i] /\ Ended(lines[i])
         /\ FlattenSeq(lines') = FlattenSeq(lines) \o text
         /\ line' = <<>> /\ pc' \in {"headers", "parsed"}
<1>1. lines \in Seq(Texts) /\ text \in Texts /\ lines' = Append(lines, text) /\ line' = <<>>
      /\ Len(lines) \in Nat
  BY DEF ReaderInv, TextsTyped, Return
<1>2. FlattenSeq(lines') = FlattenSeq(lines) \o text
  BY <1>1, TextLemmas
<1>3. /\ lines' \in Seq(Texts) /\ Len(lines') = Len(lines) + 1
      /\ lines'[Len(lines) + 1] = text
      /\ \A i \in 1..Len(lines) : lines'[i] = lines[i]
  BY <1>1
<1>4. \A i \in 1..Len(lines) : Ended(lines[i])
  BY <1>1 DEF ReaderInv, CutOffIsLast
<1>5. pc' \in {"headers", "parsed"}
  BY DEF Return
<1> QED
  BY <1>1, <1>2, <1>3, <1>4, <1>5

(* The lines with one more, which ended or is the last of the stream.      *)
LEMMA AddedLine ==
  ASSUME ReaderInv, NEW text \in Texts, text # <<>>, Line(text), Len(text) < MaxLine,
         lines' \in Seq(Texts), Len(lines') = Len(lines) + 1,
         lines'[Len(lines) + 1] = text, line' = <<>>,
         \A i \in 1..Len(lines) : lines'[i] = lines[i] /\ Ended(lines[i]),
         Ended(text) \/ Exhausted'
  PROVE  CutOffIsLast' /\ LinesAreLines'
<1>1. /\ lines \in Seq(Texts) /\ Len(lines) \in Nat /\ DOMAIN lines = 1..Len(lines)
      /\ DOMAIN lines' = 1..(Len(lines) + 1)
  BY DEF ReaderInv, TextsTyped
<1>2. ASSUME NEW i \in DOMAIN lines'
      PROVE  /\ lines'[i] # <<>> /\ Line(lines'[i]) /\ Len(lines'[i]) < MaxLine
             /\ Ended(lines'[i]) \/ (i = Len(lines') /\ Exhausted')
  <2>1. CASE i = Len(lines) + 1
    BY <2>1
  <2>2. CASE i # Len(lines) + 1
    <3>1. i \in 1..Len(lines) /\ lines'[i] = lines[i] /\ Ended(lines[i])
      BY <1>1, <2>2
    <3> QED
      BY <1>1, <3>1 DEF ReaderInv, LinesAreLines
  <2> QED
    BY <2>1, <2>2
<1>3. CutOffIsLast'
  BY <1>2 DEF CutOffIsLast, Ended
<1>4. LinesAreLines'
  <2>1. Len(line') < MaxLine - 1
    BY SizesAssumption
  <2> QED
    BY <1>2, <2>1 DEF LinesAreLines, Ended, Exhausted, Line
<1> QED
  BY <1>3, <1>4

(* Where a stream begins with the bytes read, a blank line can be seen in  *)
(* them.                                                                   *)
LEMMA BlankInRead ==
  ASSUME stream \in Texts, NEW t \in Texts, NEW r \in Texts, t \o r = stream,
         NEW i \in 3..Len(t)
  PROVE  BlankAt(i) <=> t[i - 2] = LF /\ t[i - 1] = CR /\ t[i] = LF
<1>1. /\ Len(stream) = Len(t) + Len(r) /\ Len(t) \in Nat /\ Len(r) \in Nat
      /\ \A k \in 1..Len(t) : stream[k] = t[k]
  BY DEF Texts
<1>2. i - 2 \in 1..Len(t) /\ i - 1 \in 1..Len(t) /\ i \in 1..Len(t)
  BY <1>1
<1> DEFINE last == SubSeq(stream, i - 2, i)
<1>3. /\ Len(last) = 3 /\ last[1] = stream[i - 2] /\ last[2] = stream[i - 1]
      /\ last[3] = stream[i] /\ last \in Seq(Characters)
  BY <1>1, <1>2 DEF Texts
<1> HIDE DEF last
<1>4. last = <<LF, CR, LF>> <=> last[1] = LF /\ last[2] = CR /\ last[3] = LF
  BY <1>3
<1> QED
  BY <1>1, <1>2, <1>3, <1>4 DEF BlankAt, last

(* Steps that read no byte keep what is known of the headers.              *)
LEMMA SameLines ==
  ASSUME ReaderInv, UNCHANGED <<stream, lines, line, buf, pc>>
  PROVE  HeadersInv'
<1>1. BytesRead' = BytesRead /\ Texts' = Texts /\ Reading' = Reading
  BY DEF BytesRead, Texts, Characters, Reading
<1>2. \A i \in 3..Len(stream) : BlankAt(i)' <=> BlankAt(i)
  BY DEF BlankAt
<1>3. (BytesRead > 2 /\ BlankAt(BytesRead))' <=> BytesRead > 2 /\ BlankAt(BytesRead)
  BY <1>1 DEF BlankAt
<1>4. NothingReadYet' /\ LastLineIsRead'
  BY <1>1 DEF ReaderInv, HeadersInv, NothingReadYet, LastLineIsRead
<1>5. NoBlankLineYet'
  BY <1>1, <1>2 DEF ReaderInv, HeadersInv, NoBlankLineYet, BlankLine
<1>6. HeadersEndAtBlankLine'
  BY <1>1, <1>2, <1>3 DEF ReaderInv, HeadersInv, HeadersEndAtBlankLine, CutLine
<1> QED
  BY <1>4, <1>5, <1>6 DEF HeadersInv

(* A line that is returned is the last one.                                *)
LEMMA AddedIsLast ==
  ASSUME ReaderInv, Reading, ~ Exhausted, NEW text \in Texts, Return(text), stream' = stream
  PROVE  NothingReadYet' /\ LastLineIsRead'
<1>1. /\ lines' \in Seq(Texts) /\ Len(lines') = Len(lines) + 1
      /\ lines'[Len(lines')] = text /\ FlattenSeq(lines') = FlattenSeq(lines) \o text
      /\ pc' \in {"headers", "parsed"} /\ Len(lines) \in Nat
  BY LineIsAdded DEF ReaderInv, TextsTyped
<1>2. FlattenSeq(lines) \in Texts /\ Texts' = Texts
  BY TextLemmas DEF ReaderInv, TextsTyped, Texts, Characters
<1>3. lines' # <<>>
  BY <1>1
<1> QED
  BY <1>1, <1>2, <1>3 DEF NothingReadYet, LastLineIsRead

(* The last line before the one being read, of which a whole one is not    *)
(* followed by a blank line yet.                                           *)
LEMMA LastLine ==
  ASSUME ReaderInv, lines # <<>>, ~ Exhausted
  PROVE  \E p, l \in Texts :
           /\ FlattenSeq(lines) = p \o l /\ l = lines[Len(lines)]
           /\ Line(l) /\ Ended(l) /\ Len(l) >= 1
<1>1. lines \in Seq(Texts) /\ Len(lines) \in DOMAIN lines
  BY DEF ReaderInv, TextsTyped
<1>2. lines[Len(lines)] \in Texts
  BY <1>1
<1>3. Line(lines[Len(lines)]) /\ Ended(lines[Len(lines)]) /\ lines[Len(lines)] # <<>>
  BY <1>1 DEF ReaderInv, LinesAreLines, CutOffIsLast
<1>4. Len(lines[Len(lines)]) >= 1
  BY <1>2, <1>3 DEF Texts
<1> QED
  BY <1>2, <1>3, <1>4 DEF ReaderInv, HeadersInv, LastLineIsRead

(* The byte that completes a blank line of the stream ends a line of its   *)
(* own: the request line has none before it, and a piece that holds no     *)
(* newline is as long as usrbuf, never a CR alone.                         *)
LEMMA BlankLineIsReturned ==
  ASSUME ReaderInv, Reading, ~ Exhausted, NEW text \in Texts, Line(text), text # <<>>,
         NEW r \in Texts, (FlattenSeq(lines) \o text) \o r = stream,
         LET n == Len(FlattenSeq(lines) \o text) IN n > 2 /\ BlankAt(n)
  PROVE  pc = "headers" /\ text = BlankLine
<1> DEFINE f == FlattenSeq(lines)
           t == f \o text
           n == Len(t)
<1>1. /\ f \in Texts /\ t \in Texts /\ stream \in Texts /\ Len(text) \in Nat /\ Len(text) >= 1
      /\ Len(f) \in Nat /\ n = Len(f) + Len(text) /\ n > 2
      /\ \A k \in 1..Len(text) : t[Len(f) + k] = text[k]
      /\ \A k \in 1..Len(f) : t[k] = f[k]
  <2>1. f \in Texts /\ stream \in Texts
    BY TextLemmas DEF ReaderInv, TextsTyped
  <2> HIDE DEF f
  <2>2. /\ t \in Texts /\ Len(f) \in Nat /\ Len(text) \in Nat /\ n = Len(f) + Len(text)
        /\ \A k \in 1..Len(f) : t[k] = f[k]
        /\ \A k \in 1..Len(text) : t[Len(f) + k] = text[k]
    BY <2>1, TextsAt
  <2>3. Len(text) # 0
    BY DEF Texts
  <2> QED
    BY <2>1, <2>2, <2>3 DEF f
<1>2. t[n - 2] = LF /\ t[n - 1] = CR /\ t[n] = LF
  <2>1. t \o r = stream /\ BlankAt(n) /\ n \in 3..Len(t)
    BY <1>1
  <2> HIDE DEF t, n
  <2> QED
    BY <1>1, <2>1, BlankInRead DEF n
<1> HIDE DEF t, n, f
<1>3. Len(text) <= 2
  <2> SUFFICES ASSUME Len(text) > 2 PROVE FALSE
    BY <1>1
  <2>1. Len(text) - 2 \in 1..(Len(text) - 1) /\ t[Len(f) + (Len(text) - 2)] = text[Len(text) - 2]
    BY <1>1
  <2>2. Len(f) + (Len(text) - 2) = n - 2
    BY <1>1
  <2> QED
    BY <1>2, <2>1, <2>2 DEF Line
<1>4. f # <<>>
  BY <1>1, <1>3
<1>5. lines # <<>> /\ pc = "headers"
  <2>1. FlattenSeq(<<>>) = <<>>
    BY Zenon DEF FlattenSeq
  <2> QED
    BY <1>4, <2>1 DEF f, ReaderInv, HeadersInv, NothingReadYet, Reading
<1>6. PICK p, l \in Texts :
        f = p \o l /\ Line(l) /\ Ended(l) /\ Len(l) >= 1
  BY <1>5, LastLine DEF f
<1>7. /\ Len(p) \in Nat /\ Len(l) \in Nat /\ Len(f) = Len(p) + Len(l)
      /\ \A k \in 1..Len(l) : f[Len(p) + k] = l[k]
  BY <1>6 DEF Texts
<1>8. Len(text) # 1
  <2> SUFFICES ASSUME Len(text) = 1 PROVE FALSE
    OBVIOUS
  <2>1. t[n - 1] = l[Len(l)]
    <3>1. n - 1 = Len(f) /\ Len(f) = Len(p) + Len(l)
      BY <1>1, <1>7
    <3>2. f[Len(p) + Len(l)] = l[Len(l)]
      BY <1>6, <1>7
    <3>3. t[Len(f)] = f[Len(f)]
      <4>1. Len(f) \in 1..Len(f)
        BY <1>6, <1>7
      <4> QED
        BY <1>1, <4>1
    <3> QED
      BY <3>1, <3>2, <3>3
  <2>2. ASSUME Len(l) > 1 PROVE t[n - 2] = l[Len(l) - 1]
    <3>1. n - 2 = Len(p) + (Len(l) - 1) /\ Len(l) - 1 \in 1..Len(l) /\ n - 2 \in 1..Len(f)
      BY <1>1, <1>7, <2>2
    <3>2. f[Len(p) + (Len(l) - 1)] = l[Len(l) - 1]
      BY <1>7, <3>1
    <3>3. t[n - 2] = f[n - 2]
      BY <1>1, <3>1
    <3> QED
      BY <3>1, <3>2, <3>3
  <2>3. CASE Len(l) > 1
    BY <1>2, <1>6, <1>7, <2>2, <2>3 DEF Line
  <2>4. CASE Len(l) = 1
    <3>1. CR # LF
      BY CharactersAssumption
    <3> QED
      BY <1>2, <1>6, <2>1, <2>4, <3>1, SizesAssumption DEF Ended
  <2>5. Len(l) = 1 \/ Len(l) > 1
    <3>1. \A k \in Nat : k >= 1 => k = 1 \/ k > 1
      OBVIOUS
    <3> QED
      BY <1>6, <1>7, <3>1, Zenon
  <2> QED
    BY <2>3, <2>4, <2>5
<1>9. Len(text) = 2 /\ text[1] = CR /\ text[2] = LF
  <2>1. Len(text) = 2
    <3>1. \A k \in Nat : k >= 1 /\ k <= 2 /\ k # 1 => k = 2
      OBVIOUS
    <3> QED
      BY <1>1, <1>3, <1>8, <3>1, Zenon
  <2>2. n - 1 = Len(f) + 1 /\ n = Len(f) + 2
    BY <1>1, <2>1
  <2> QED
    BY <1>1, <1>2, <2>1, <2>2
<1> QED
  BY <1>5, <1>9 DEF BlankLine, Texts

(* One byte more: a blank line of the stream ends here at the earliest, and*)
(* then so do the headers.                                                 *)
LEMMA ByteKeepsHeaders ==
  ASSUME ReaderInv, ReadByte
  PROVE  HeadersInv'
<1> DEFINE text == Append(line, Head(rio_buf))
           f == FlattenSeq(lines)
           t == f \o text
<1>1. /\ TextsTyped /\ f \in Texts /\ rio_buf # <<>> /\ Reading /\ ~ Exhausted
      /\ stream' = stream /\ line \in Texts /\ net \in Texts /\ todo \in Texts
      /\ stream \in Texts /\ lines \in Seq(Texts)
  BY TextLemmas DEF ReaderInv, TextsTyped, ReadByte, Exhausted, client
<1>2. /\ text \in Texts /\ Tail(rio_buf) \in Texts
      /\ text \o Tail(rio_buf) = line \o rio_buf
      /\ Len(text) = Len(line) + 1 /\ Len(line) \in Nat
      /\ text[Len(text)] = Head(rio_buf) /\ \A i \in 1..Len(line) : text[i] = line[i]
  <2>1. rio_buf \in Texts
    BY <1>1 DEF TextsTyped
  <2>2. text \in Texts /\ Tail(rio_buf) \in Texts /\ text \o Tail(rio_buf) = line \o rio_buf
    <3>1. line \in Texts /\ rio_buf # <<>>
      BY <1>1
    <3> QED
      BY ONLY <2>1, <3>1, TextLemmas
  <2>3. line \in Seq(Characters) /\ Head(rio_buf) \in Characters
    BY <1>1, <2>1 DEF Texts
  <2>4. /\ Len(text) = Len(line) + 1 /\ Len(line) \in Nat
        /\ text[Len(line) + 1] = Head(rio_buf) /\ \A i \in 1..Len(line) : text[i] = line[i]
    BY ONLY <2>3
  <2> QED
    BY <2>2, <2>4
<1>3. Line(text) /\ text # <<>>
  <2>1. \A i \in 1..Len(line) : line[i] # LF
    BY <1>1 DEF ReaderInv, LineIsOpen, Texts
  <2> HIDE DEF text
  <2>2. Len(text) - 1 = Len(line)
    BY <1>2
  <2> QED
    BY <1>2, <2>1, <2>2 DEF Line
<1> HIDE DEF text, f
<1>4. /\ t \in Texts /\ Len(t) = BytesRead + 1 /\ BytesRead \in Nat /\ BytesRead >= Len(f)
      /\ Len(t) = Len(f) + Len(text) /\ Len(f) \in Nat
      /\ \A k \in 1..Len(text) : t[Len(f) + k] = text[k]
      /\ \A k \in 1..Len(f) : t[k] = f[k]
  <2>1. t \in Texts /\ f \o line \in Texts
    BY <1>1, <1>2, MoveInRow
  <2>2. BytesRead = Len(f \o line)
    BY DEF BytesRead, f
  <2> QED
    BY <1>1, <1>2, <2>1, <2>2 DEF Texts
<1>5. PICK r \in Texts : t \o r = stream
  <2> DEFINE tail == Tail(rio_buf)
  <2> HIDE DEF tail
  <2>1. tail \in Texts /\ rio_buf \in Texts /\ text \o tail = line \o rio_buf
    BY <1>1, <1>2 DEF TextsTyped, tail
  <2>2. (f \o line) \o rio_buf = t \o tail /\ t \o tail \in Texts
    <3>1. (f \o line) \o rio_buf = f \o (line \o rio_buf)
      <4>1. f \in Texts /\ line \in Texts /\ rio_buf \in Texts
        BY <1>1, <2>1
      <4> QED
        BY ONLY <4>1, MoveInRow
    <3>2. t \o tail = f \o (text \o tail)
      <4>1. f \in Texts /\ text \in Texts /\ tail \in Texts
        BY <1>1, <1>2, <2>1
      <4> QED
        BY ONLY <4>1, MoveInRow
    <3> QED
      BY <1>4, <2>1, <3>1, <3>2, MoveInRow
  <2>3. /\ tail \o net \in Texts /\ (t \o tail) \o net = t \o (tail \o net)
        /\ (tail \o net) \o todo \in Texts
        /\ (t \o (tail \o net)) \o todo = t \o ((tail \o net) \o todo)
    <3>0. t \in Texts /\ tail \in Texts /\ net \in Texts /\ todo \in Texts
      BY <1>1, <1>4, <2>1
    <3> HIDE DEF t
    <3>1. tail \o net \in Texts /\ (t \o tail) \o net = t \o (tail \o net)
      BY ONLY <3>0, MoveInRow
    <3>2. /\ (tail \o net) \o todo \in Texts
          /\ (t \o (tail \o net)) \o todo = t \o ((tail \o net) \o todo)
      BY ONLY <3>0, <3>1, MoveInRow
    <3> QED
      BY <3>1, <3>2
  <2>4. stream = (((f \o line) \o rio_buf) \o net) \o todo
    BY DEF ReaderInv, BytesConserved, f
  <2> QED
    BY <2>2, <2>3, <2>4
<1>6. BytesRead' = BytesRead + 1
  <2>1. CASE Return(text)
    <3>1. FlattenSeq(lines') = t /\ line' = <<>>
      BY <1>1, <1>2, <2>1, LineIsAdded DEF f
    <3>2. t \o <<>> = t
      BY <1>4, MoveInRow
    <3> QED
      BY <1>4, <3>1, <3>2 DEF BytesRead
  <2>2. CASE line' = text /\ lines' = lines
    BY <1>4, <2>2 DEF BytesRead, f
  <2> QED
    BY <2>1, <2>2 DEF ReadByte, text
<1>7. /\ \A i \in 3..Len(stream) : (BlankAt(i) => BytesRead < i) /\ (BlankAt(i)' <=> BlankAt(i))
      /\ BlankAt(BytesRead)' <=> BlankAt(Len(t))
  BY <1>1, <1>4, <1>6 DEF ReaderInv, HeadersInv, NoBlankLineYet, BlankAt
<1>8. Len(t) <= Len(stream) /\ Len(stream) \in Nat
  BY <1>1, <1>4, <1>5 DEF Texts
<1>9. /\ Reading' => \A i \in 3..Len(stream) : BlankAt(i) => BytesRead' < i
      /\ \A i \in 3..Len(stream) : BlankAt(i) => BytesRead' <= i
  <2>1. \A i \in 3..Len(stream) : BlankAt(i) => BytesRead' <= i
    BY <1>4, <1>6, <1>7, <1>8
  <2>2. ASSUME NEW i \in 3..Len(stream), BlankAt(i), BytesRead' = i PROVE ~ Reading'
    <3>1. i = Len(t) /\ i > 2
      BY <1>4, <1>6, <2>2
    <3>2. pc = "headers" /\ text = BlankLine
      BY <1>1, <1>2, <1>3, <1>5, <2>2, <3>1, BlankLineIsReturned DEF f
    <3>3. Head(rio_buf) = LF
      BY <1>2, <3>2 DEF BlankLine
    <3> QED
      BY <3>2, <3>3 DEF ReadByte, Return, Reading, text
  <2> QED
    BY <1>4, <1>6, <1>8, <2>1, <2>2
<1>10. CASE Return(text)
  <2>1. /\ Len(lines') = Len(lines) + 1 /\ Len(lines) \in Nat
        /\ \A i \in 1..Len(lines) : lines'[i] = lines[i]
    BY <1>1, <1>2, <1>10, LineIsAdded
  <2>2. NothingReadYet' /\ LastLineIsRead'
    BY <1>1, <1>2, <1>10, AddedIsLast
  <2>3. NoBlankLineYet'
    <3>1. ASSUME pc' = "headers", Len(lines') > 1 PROVE buf' # BlankLine
      <4>1. pc = "headers"
        BY <1>1, <2>1, <3>1 DEF ReaderInv, HeadersInv, NothingReadYet, Reading
      <4> QED
        BY <1>10, <3>1, <4>1 DEF Return
    <3> QED
      BY <1>1, <1>7, <1>9, <3>1 DEF NoBlankLineYet, BlankLine
  <2>4. ASSUME pc' = "parsed", Len(lines') > 1
        PROVE  (BytesRead > 2 /\ BlankAt(BytesRead))' \/ CutLine(lines'[Len(lines') - 1])
    <3>1. lines # <<>> /\ pc = "headers" /\ text = BlankLine
      BY <1>1, <1>10, <2>1, <2>4 DEF ReaderInv, HeadersInv, NothingReadYet, Reading, Return
    <3>2. PICK p, l \in Texts :
            f = p \o l /\ l = lines[Len(lines)] /\ Ended(l) /\ Len(l) >= 1
      BY <1>1, <3>1, LastLine DEF f
    <3>3. lines'[Len(lines') - 1] = l
      BY <2>1, <2>4, <3>2
    <3>4. CASE l[Len(l)] = LF
      <4>1. Len(f) >= 1 /\ f[Len(f)] = LF
        BY <3>2, <3>4 DEF Texts
      <4>2. /\ Len(text) = 2 /\ text[1] = CR /\ text[2] = LF
            /\ Len(t) = Len(f) + 2 /\ t[Len(t) - 2] = LF
        BY <1>4, <3>1, <4>1 DEF BlankLine
      <4>3. t[Len(t) - 1] = CR /\ t[Len(t)] = LF /\ Len(t) > 2
        <5>1. Len(t) - 1 = Len(f) + 1 /\ Len(t) = Len(f) + 2
          BY <1>4, <4>2
        <5> QED
          BY <1>4, <4>1, <4>2, <5>1
      <4>4. BlankAt(Len(t))
        <5>1. Len(t) \in 3..Len(t)
          BY <1>4, <4>3
        <5> HIDE DEF t
        <5> QED
          BY <1>1, <1>4, <1>5, <4>2, <4>3, <5>1, BlankInRead
      <4> QED
        BY <1>4, <1>6, <1>7, <4>3, <4>4
    <3> QED
      BY <3>2, <3>3, <3>4 DEF Ended, CutLine
  <2>5. HeadersEndAtBlankLine'
    BY <1>1, <1>7, <1>9, <2>4 DEF HeadersEndAtBlankLine, CutLine
  <2> QED
    BY <2>2, <2>3, <2>5 DEF HeadersInv
<1>11. CASE line' = text /\ UNCHANGED <<buf, pc, lines>>
  <2>1. NothingReadYet' /\ LastLineIsRead'
    BY <1>1, <1>11 DEF ReaderInv, HeadersInv, NothingReadYet, LastLineIsRead, Texts, Characters
  <2>2. NoBlankLineYet' /\ HeadersEndAtBlankLine'
    BY <1>1, <1>7, <1>9, <1>11 DEF ReaderInv, HeadersInv, NoBlankLineYet,
       HeadersEndAtBlankLine, BlankLine, Reading
  <2> QED
    BY <2>1, <2>2 DEF HeadersInv
<1> QED
  BY <1>10, <1>11 DEF ReadByte, text

(* The end of the stream ends no blank line: its newline is missing.       *)
LEMMA EofInLineKeepsHeaders ==
  ASSUME ReaderInv, ReadEofInLine
  PROVE  HeadersInv'
<1>1. /\ Reading /\ Return(line) /\ ~ Exhausted /\ stream' = stream /\ line \in Texts
      /\ lines \in Seq(Texts) /\ line # <<>>
  BY DEF ReaderInv, TextsTyped, ReadEofInLine, AtEof, Exhausted, client
<1>2. NothingReadYet' /\ LastLineIsRead'
  BY <1>1, AddedIsLast
<1>3. /\ Len(lines') = Len(lines) + 1 /\ Len(lines) \in Nat
      /\ FlattenSeq(lines') = FlattenSeq(lines) \o line /\ line' = <<>>
  BY <1>1, LineIsAdded
<1>4. BytesRead' = BytesRead
  <2>1. FlattenSeq(lines) \o line \in Texts
    BY <1>1, TextLemmas, MoveInRow
  <2>2. (FlattenSeq(lines) \o line) \o <<>> = FlattenSeq(lines) \o line
    BY <2>1, MoveInRow
  <2> QED
    BY <1>3, <2>2 DEF BytesRead
<1>5. \A i \in 3..Len(stream) : (BlankAt(i) => BytesRead < i) /\ (BlankAt(i)' <=> BlankAt(i))
  BY <1>1 DEF ReaderInv, HeadersInv, NoBlankLineYet, BlankAt
<1>6. line # BlankLine
  BY DEF ReaderInv, LineIsOpen, BlankLine
<1>7. pc' = "parsed" => ~ (Len(lines') > 1)
  BY <1>1, <1>3, <1>6 DEF ReaderInv, HeadersInv, NothingReadYet, Reading, Return
<1>8. pc' = "headers" /\ Len(lines') > 1 => buf' # BlankLine
  BY <1>1, <1>3, <1>6 DEF ReaderInv, HeadersInv, NothingReadYet, Reading, Return
<1>9. BytesRead \in Nat
  BY <1>1, TextLemmas, MoveInRow DEF BytesRead, Texts
<1>10. NoBlankLineYet'
  BY <1>1, <1>4, <1>5, <1>8 DEF NoBlankLineYet, BlankLine
<1>11. HeadersEndAtBlankLine'
  BY <1>1, <1>4, <1>5, <1>7, <1>9 DEF HeadersEndAtBlankLine
<1> QED
  BY <1>2, <1>10, <1>11 DEF HeadersInv

(* Bytes that arrive come from the front of what the client has left to send. *)
LEMMA SendKeepsInv ==
  ASSUME ReaderInv, Send
  PROVE  ReaderInv'
<1> DEFINE before == FlattenSeq(lines) \o line \o rio_buf
<1>1. TextsTyped /\ BytesConserved /\ before \in Texts
  <2>1. FlattenSeq(lines) \in Texts
    BY TextLemmas DEF ReaderInv, TextsTyped
  <2> QED
    BY <2>1, MoveInRow DEF ReaderInv, TextsTyped
<1>2. PICK k \in 1..Len(todo) :
        /\ net' = net \o SubSeq(todo, 1, k)
        /\ todo' = SubSeq(todo, k + 1, Len(todo))
        /\ UNCHANGED <<stream, eof, rio_buf, line, buf, pc, lines, polls>>
  BY DEF Send
<1>3. Texts' = Texts
  BY SameStream DEF Next
<1>4. /\ SubSeq(todo, 1, k) \in Texts /\ todo' \in Texts
      /\ SubSeq(todo, 1, k) \o todo' = todo
  BY <1>1, <1>2, TextLemmas DEF TextsTyped
<1>5. net' \in Texts
  BY <1>1, <1>2, <1>4, MoveInRow DEF TextsTyped
<1>6. eof = FALSE
  BY <1>1, <1>2 DEF ReaderInv, ClosedHasSent, TextsTyped
<1>7. TextsTyped'
  BY <1>1, <1>2, <1>3, <1>4, <1>5 DEF TextsTyped
<1>8. BytesConserved'
  <2>1. before' = before
    BY <1>2
  <2> HIDE DEF before
  <2>2. (before \o net') \o todo' = (before \o net) \o todo
    <3> DEFINE first == SubSeq(todo, 1, k)
    <3>1. first \in Texts /\ first \o todo' = todo /\ net' = net \o first
          /\ net \in Texts /\ todo' \in Texts
      BY <1>1, <1>2, <1>4 DEF TextsTyped
    <3> HIDE DEF first
    <3>2. /\ before \o (net \o first) = (before \o net) \o first
          /\ before \o net \in Texts
      BY <1>1, <3>1, MoveInRow
    <3>3. ((before \o net) \o first) \o todo' = (before \o net) \o (first \o todo')
      BY <3>1, <3>2, MoveInRow
    <3> QED
      BY <3>1, <3>2, <3>3
  <2> QED
    BY <1>1, <1>2, <2>1, <2>2 DEF BytesConserved, before
<1>9. LinesAreLines'
  BY <1>2, <1>6 DEF ReaderInv, LinesAreLines, Line
<1>10. CutOffIsLast'
  BY <1>2, <1>6 DEF ReaderInv, CutOffIsLast, Exhausted, Ended
<1>11. LineIsOpen' /\ ClosedHasSent'
  BY <1>2, <1>6 DEF ReaderInv, LineIsOpen, ClosedHasSent
<1>12. HeadersInv'
  BY <1>2, SameLines
<1> QED
  BY <1>7, <1>8, <1>9, <1>10, <1>11, <1>12 DEF ReaderInv

(* A client that closes keeps what has arrived. *)
LEMMA CloseKeepsInv ==
  ASSUME ReaderInv, CloseClient
  PROVE  ReaderInv'
<1> USE DEF CloseClient
<1>1. Texts' = Texts
  BY SameStream DEF Next
<1>2. TextsTyped' /\ ClosedHasSent' /\ LineIsOpen'
  BY <1>1 DEF ReaderInv, TextsTyped, ClosedHasSent, LineIsOpen
<1>3. CutOffIsLast' /\ LinesAreLines'
  BY DEF ReaderInv, CutOffIsLast, LinesAreLines, Exhausted, Ended, Line
<1>4. HeadersInv' /\ BytesConserved'
  BY SameLines DEF ReaderInv, BytesConserved
<1> QED
  BY <1>2, <1>3, <1>4 DEF ReaderInv

(* rio_read moves the bytes of one read from the socket to rio_buf, in order. *)
LEMMA RefillKeepsInv ==
  ASSUME ReaderInv, Refill
  PROVE  ReaderInv'
<1> DEFINE before == FlattenSeq(lines) \o line
<1>1. TextsTyped /\ BytesConserved /\ before \in Texts
  <2>1. FlattenSeq(lines) \in Texts
    BY TextLemmas DEF ReaderInv, TextsTyped
  <2> QED
    BY <2>1, MoveInRow DEF ReaderInv, TextsTyped
<1>2. PICK k \in 1..Len(net) :
        rio_buf' = SubSeq(net, 1, k) /\ net' = SubSeq(net, k + 1, Len(net))
  BY DEF Refill
<1>3. rio_buf = <<>> /\ UNCHANGED <<client, line, buf, pc, lines, polls>>
  BY DEF Refill
<1>4. Texts' = Texts
  BY SameStream DEF Next, Worker
<1>5. rio_buf' \in Texts /\ net' \in Texts /\ rio_buf' \o net' = net
  BY <1>1, <1>2, TextLemmas DEF TextsTyped
<1>6. net # <<>>
  BY <1>2
<1>7. TextsTyped'
  BY <1>1, <1>3, <1>4, <1>5 DEF TextsTyped, client
<1>8. BytesConserved'
  <2>1. before' = before
    BY <1>3
  <2> HIDE DEF before
  <2>2. (before \o rio_buf') \o net' = before \o net
    BY <1>1, <1>5, MoveInRow
  <2>3. (before \o rio_buf') \o net' = (before \o rio_buf) \o net
    BY <1>1, <1>3, <2>2, MoveInRow
  <2> QED
    BY <1>1, <1>3, <2>1, <2>3 DEF BytesConserved, client, before
<1>9. LinesAreLines'
  BY <1>3, <1>6 DEF ReaderInv, LinesAreLines, Line, CutOffIsLast, Ended, Exhausted
<1>10. CutOffIsLast'
  BY <1>3, <1>6 DEF ReaderInv, CutOffIsLast, Exhausted, Ended
<1>11. LineIsOpen' /\ ClosedHasSent'
  BY <1>3 DEF ReaderInv, LineIsOpen, ClosedHasSent, client
<1>12. HeadersInv'
  BY <1>3, SameLines DEF client
<1> QED
  BY <1>7, <1>8, <1>9, <1>10, <1>11, <1>12 DEF ReaderInv

(* One byte moves from rio_buf to usrbuf, and with the last one of a line  *)
(* the line to the caller.                                                 *)
LEMMA ReadByteKeepsInv ==
  ASSUME ReaderInv, ReadByte
  PROVE  ReaderInv'
<1> DEFINE text == Append(line, Head(rio_buf))
           before == FlattenSeq(lines)
<1>1. TextsTyped /\ before \in Texts /\ rio_buf # <<>> /\ Reading /\ ~ Exhausted
  BY TextLemmas DEF ReaderInv, TextsTyped, ReadByte, Exhausted
<1>2. rio_buf' = Tail(rio_buf) /\ UNCHANGED <<client, net, polls>> /\ Texts' = Texts
  BY SameStream DEF ReadByte, Next, Worker
<1>3. text \in Texts /\ rio_buf' \in Texts /\ text \o rio_buf' = line \o rio_buf
  BY <1>1, <1>2, TextLemmas DEF TextsTyped
<1>4. /\ Len(text) = Len(line) + 1 /\ Len(line) \in Nat /\ text[Len(text)] = Head(rio_buf)
      /\ \A i \in 1..Len(line) : text[i] = line[i]
  BY <1>1 DEF TextsTyped, Texts
<1>5. Line(text) /\ text # <<>> /\ Len(text) < MaxLine
  <2>1. Len(line) < MaxLine - 1 /\ \A i \in 1..Len(line) : line[i] # LF
    BY <1>1 DEF ReaderInv, LinesAreLines, LineIsOpen, TextsTyped, Texts
  <2> HIDE DEF text
  <2>2. Len(text) - 1 = Len(line) /\ Len(text) < MaxLine /\ text # <<>>
    BY <1>4, <2>1, SizesAssumption
  <2>3. \A i \in 1..(Len(text) - 1) : text[i] # LF
    BY <1>4, <2>1, <2>2
  <2> QED
    BY <2>2, <2>3 DEF Line
<1>6. /\ BytesConserved
      /\ before \o (text \o rio_buf') = before \o (line \o rio_buf)
      /\ before \o line \in Texts /\ before \o text \in Texts
      /\ (before \o line) \o rio_buf = before \o (line \o rio_buf)
      /\ (before \o text) \o rio_buf' = before \o (text \o rio_buf')
  <2> HIDE DEF before, text
  <2>1. line \in Texts /\ rio_buf \in Texts
    BY <1>1 DEF TextsTyped
  <2>2. before \o line \in Texts /\ before \o text \in Texts
    BY <1>1, <1>3, <2>1, MoveInRow
  <2>3. (before \o line) \o rio_buf = before \o (line \o rio_buf)
    BY <1>1, <2>1, MoveInRow
  <2>4. (before \o text) \o rio_buf' = before \o (text \o rio_buf')
    BY <1>1, <1>3, MoveInRow
  <2> QED
    BY <1>3, <2>2, <2>3, <2>4 DEF ReaderInv
<1>7. ClosedHasSent'
  BY <1>2 DEF ReaderInv, ClosedHasSent, client
<1>10. HeadersInv'
  BY ByteKeepsHeaders
<1> HIDE DEF text, before
<1>8. CASE (Head(rio_buf) = LF \/ Len(text) = MaxLine - 1) /\ Return(text)
  <2>1. /\ lines' \in Seq(Texts) /\ Len(lines') = Len(lines) + 1
        /\ lines'[Len(lines) + 1] = text
        /\ \A i \in 1..Len(lines) : lines'[i] = lines[i] /\ Ended(lines[i])
        /\ FlattenSeq(lines') = before \o text
        /\ line' = <<>> /\ pc' \in {"headers", "parsed"}
    BY <1>1, <1>3, <1>8, LineIsAdded DEF before
  <2>2. TextsTyped' /\ LineIsOpen'
    BY <1>1, <1>2, <1>3, <2>1, EmptyTexts DEF TextsTyped, LineIsOpen, client
  <2>3. BytesConserved'
    <3>1. (before \o text) \o <<>> = before \o text
      BY <1>6, MoveInRow
    <3>2. (FlattenSeq(lines') \o line') \o rio_buf' = (before \o line) \o rio_buf
      BY <1>6, <2>1, <3>1
    <3> QED
      BY <1>2, <1>6, <3>2 DEF BytesConserved, client, before
  <2>4. Ended(text)
    BY <1>4, <1>8 DEF Ended
  <2>5. CutOffIsLast' /\ LinesAreLines'
    BY <1>1, <1>5, <2>1, <2>4, AddedLine
  <2> QED
    BY <1>7, <1>10, <2>2, <2>3, <2>5 DEF ReaderInv
<1>9. CASE /\ ~ (Head(rio_buf) = LF \/ Len(text) = MaxLine - 1)
           /\ line' = text /\ UNCHANGED <<buf, pc, lines>>
  <2>1. TextsTyped'
    BY <1>1, <1>2, <1>3, <1>9 DEF TextsTyped, client
  <2>2. LineIsOpen'
    <3>1. \A i \in 1..Len(line) : line[i] # LF
      BY <1>1 DEF ReaderInv, LineIsOpen, TextsTyped, Texts
    <3>2. DOMAIN text = 1..(Len(line) + 1)
      BY <1>3, <1>4 DEF Texts
    <3>3. text[Len(line) + 1] # LF
      BY <1>4, <1>9
    <3>4. \A i \in 1..(Len(line) + 1) : text[i] # LF
      BY <1>4, <3>1, <3>3
    <3> QED
      BY <1>9, <3>2, <3>4 DEF LineIsOpen
  <2>3. BytesConserved'
    BY <1>2, <1>6, <1>9 DEF BytesConserved, client, before
  <2>4. \A i \in DOMAIN lines : Ended(lines[i])
    BY <1>1 DEF ReaderInv, CutOffIsLast
  <2>5. CutOffIsLast'
    BY <1>9, <2>4 DEF CutOffIsLast, Ended
  <2>6. LinesAreLines'
    BY <1>4, <1>5, <1>9, <2>4, SizesAssumption DEF ReaderInv, LinesAreLines, Line, Ended
  <2> QED
    BY <1>7, <1>10, <2>1, <2>2, <2>3, <2>5, <2>6 DEF ReaderInv
<1> QED
  BY <1>8, <1>9 DEF ReadByte, text

(* The end of the stream: an unfinished line is returned.                  *)
LEMMA ReadEofInLineKeepsInv ==
  ASSUME ReaderInv, ReadEofInLine
  PROVE  ReaderInv'
<1>1. /\ TextsTyped /\ Reading /\ line # <<>> /\ Return(line) /\ ~ Exhausted
      /\ rio_buf = <<>> /\ net = <<>> /\ eof
  BY DEF ReaderInv, ReadEofInLine, AtEof, Exhausted
<1>2. UNCHANGED <<client, net, rio_buf>> /\ Texts' = Texts
  BY SameStream DEF ReadEofInLine, Next, Worker
<1>3. /\ lines' \in Seq(Texts) /\ Len(lines') = Len(lines) + 1
      /\ lines'[Len(lines) + 1] = line
      /\ \A i \in 1..Len(lines) : lines'[i] = lines[i] /\ Ended(lines[i])
      /\ FlattenSeq(lines') = FlattenSeq(lines) \o line
      /\ line' = <<>> /\ pc' \in {"headers", "parsed"}
  BY <1>1, LineIsAdded DEF TextsTyped
<1>4. TextsTyped' /\ LineIsOpen' /\ ClosedHasSent'
  BY <1>1, <1>2, <1>3, EmptyTexts
  DEF ReaderInv, TextsTyped, LineIsOpen, ClosedHasSent, client
<1>5. BytesConserved'
  <2>1. FlattenSeq(lines) \o line \in Texts
    BY <1>1, TextLemmas, MoveInRow DEF TextsTyped
  <2>2. (FlattenSeq(lines) \o line) \o <<>> = FlattenSeq(lines) \o line
    BY <2>1, MoveInRow
  <2> QED
    BY <1>2, <1>3, <2>2 DEF ReaderInv, BytesConserved, client
<1>6. Line(line) /\ Len(line) < MaxLine
  <2>1. Len(line) < MaxLine - 1 /\ Len(line) \in Nat /\ DOMAIN line = 1..Len(line)
    BY <1>1 DEF ReaderInv, LinesAreLines, TextsTyped, Texts
  <2> QED
    BY <2>1, SizesAssumption DEF ReaderInv, LineIsOpen, Line
<1>7. CutOffIsLast' /\ LinesAreLines'
  BY <1>1, <1>2, <1>3, <1>6, AddedLine DEF Exhausted, client
<1>8. HeadersInv'
  BY EofInLineKeepsHeaders
<1> QED
  BY <1>4, <1>5, <1>7, <1>8 DEF ReaderInv

(* At the end of the input rio_readlineb hands out what it has, which is then
   the last line. *)
LEMMA ReadEofKeepsInv ==
  ASSUME ReaderInv, ReadEof
  PROVE  ReaderInv'
<1>1. UNCHANGED <<client, net, rio_buf, line, buf, lines>> /\ Texts' = Texts
  BY SameStream DEF ReadEof, Next, Worker
<1>2. TextsTyped' /\ LineIsOpen' /\ ClosedHasSent'
  BY <1>1 DEF ReaderInv, TextsTyped, LineIsOpen, ClosedHasSent, client, ReadEof
<1>3. BytesConserved' /\ CutOffIsLast' /\ LinesAreLines'
  BY <1>1 DEF ReaderInv, BytesConserved, CutOffIsLast, LinesAreLines, Line, Ended,
     Exhausted, client
<1>4. BytesRead' = BytesRead /\ \A i \in 3..Len(stream) : BlankAt(i)' <=> BlankAt(i)
  BY <1>1 DEF BytesRead, BlankAt, client
<1>5. HeadersInv'
  <2>1. CASE pc = "requestLine"
    <3>1. pc' = "ignored" /\ lines' = <<>> /\ ReaderInv
      BY <1>1, <2>1 DEF ReadEof, ReaderInv, HeadersInv, NothingReadYet
    <3> QED
      BY <1>1, <1>4, <3>1 DEF ReaderInv, HeadersInv, NothingReadYet, LastLineIsRead,
         NoBlankLineYet, HeadersEndAtBlankLine, Reading, client
  <2>2. CASE pc = "headers" /\ buf # BlankLine
    <3>1. pc' = pc
      BY <2>2 DEF ReadEof
    <3> QED
      BY <1>1, <3>1, SameLines DEF client
  <2>3. CASE pc = "headers" /\ buf = BlankLine
    <3>1. pc' = "parsed" /\ ~ (Len(lines) > 1)
      BY <2>3 DEF ReadEof, ReaderInv, HeadersInv, NoBlankLineYet
    <3> QED
      BY <1>1, <1>4, <3>1 DEF ReaderInv, HeadersInv, NothingReadYet, LastLineIsRead,
         NoBlankLineYet, HeadersEndAtBlankLine, Reading, Texts, Characters, client
  <2> QED
    BY <2>1, <2>2, <2>3 DEF ReadEof, AtEof, Reading
<1> QED
  BY <1>2, <1>3, <1>5 DEF ReaderInv

-----------------------------------------------------------------------------
(* The theorems.                                                           *)

(* ReaderInv holds in every state of every behaviour.                      *)
THEOREM ReaderInvariant == Spec => []ReaderInv
<1>1. Init => ReaderInv
  BY StartsReading
<1>2. ReaderInv /\ [Next]_vars => ReaderInv'
  <2> SUFFICES ASSUME ReaderInv, [Next]_vars PROVE ReaderInv'
    OBVIOUS
  <2>1. CASE Send
    BY <2>1, SendKeepsInv
  <2>2. CASE CloseClient
    BY <2>2, CloseKeepsInv
  <2>3. CASE Refill
    BY <2>3, RefillKeepsInv
  <2>4. CASE ReadByte
    BY <2>4, ReadByteKeepsInv
  <2>5. CASE ReadEofInLine
    BY <2>5, ReadEofInLineKeepsInv
  <2>6. CASE ReadEof
    BY <2>6, ReadEofKeepsInv
  <2>7. CASE UNCHANGED vars
    BY <2>7, SameLines DEF vars, client, ReaderInv, TextsTyped, Texts, Characters, ClosedHasSent,
       LineIsOpen, CutOffIsLast, Ended, Exhausted, BytesConserved, LinesAreLines, Line
  <2> QED
    BY <2>1, <2>2, <2>3, <2>4, <2>5, <2>6, <2>7 DEF Next, Worker
<1> QED
  BY <1>1, <1>2, PTL DEF Spec

(* No byte of the request is lost, repeated or moved, however the network  *)
(* cuts the stream and wherever rio_buf runs empty.                        *)
THEOREM NoByteIsLost == Spec => []BytesConserved
BY ReaderInvariant, PTL DEF ReaderInv

(* rio_readlineb returns lines, cut off only at the size of usrbuf or at   *)
(* the end of the stream, and never writes behind usrbuf.                  *)
THEOREM LinesAreWhole == Spec => []LinesAreLines
BY ReaderInvariant, PTL DEF ReaderInv

(* The bytes of a request that are read end with the first blank line the  *)
(* client sends; where they end before it, the CR LF of a line longer than *)
(* usrbuf is what requestReadhdrs took for the blank line.                 *)
THEOREM HeadersEnd == Spec => []HeadersEndAtBlankLine
BY ReaderInvariant, PTL DEF ReaderInv, HeadersInv
=============================================================================
