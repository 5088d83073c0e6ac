--------------------------- MODULE ExchangeProofs ---------------------------
(***************************************************************************)
(* The safety properties of Exchange, for every number of clients, all     *)
(* responses and every size of the socket and of the line buffer.          *)
(***************************************************************************)
EXTENDS Exchange, FlattenSeqProofs

Characters ==
  {CR, LF} \cup UNION {Range(t) : t \in UNION {Range(r) : r \in Responses}}
Texts == Seq(Characters)

Labels == {"connect", "send", "head", "body", "done", "failed", "left"}

TextsTyped ==
  /\ alive \in BOOLEAN
  /\ worker \in [Clients -> {"read", "write", "closed"}]
  /\ answer \in [Clients -> Seq(Texts)] /\ left \in [Clients -> Seq(Texts)]
  /\ pc \in [Clients -> Labels]
  /\ sock \in [Clients -> Texts] /\ line \in [Clients -> Texts]
  /\ taken \in [Clients -> Texts]
  /\ head \in [Clients -> Texts] /\ body \in [Clients -> Texts]

(* A worker answers once, and closes when all of the answer is written; so *)
(* a response that nobody took is one of a client that left or failed.     *)
NotAnswered(c) == worker[c] = "read" => left[c] = <<>> /\ answer[c] = <<>>
AllWritten(c) == worker[c] = "closed" /\ ~ Left(c) => left[c] = <<>>

InOrder(c) ==
  ~ Left(c) => taken[c] \o line[c] \o sock[c] \o FlattenSeq(left[c]) = Text(c)

(* Clients fail where the server's end is closed, and only clients that    *)
(* left end the server.                                                    *)
FailedIsClosed(c) == alive /\ pc[c] = "failed" => worker[c] = "closed"
DeadForOneWhoLeft == alive \/ \E d \in Clients : pc[d] = "left"

DoneIsOver(c) == pc[c] = "done" => Closed(c) /\ line[c] = <<>> /\ sock[c] = <<>>

(* The line being read has no newline yet.  While clientPrint reads the    *)
(* header, a line never starts inside a blank line: the CR after a newline *)
(* does not fill buf, so only the end of the stream parts it from its LF.  *)
LineIsOpen(c) == \A i \in 1..Len(line[c]) : line[c][i] # LF
OpenBlank(t) == Len(t) >= 2 /\ t[Len(t) - 1] = LF /\ t[Len(t)] = CR
BlankIsOneLine(c) ==
  pc[c] = "head" /\ OpenBlank(taken[c]) => Closed(c) /\ sock[c] = <<>>

(* What a client with this label printed of the text it took: nothing      *)
(* before the header, no body before the header ended; no blank line is    *)
(* in the header, nor before its end; no NUL is printed, and a text that   *)
(* has none is printed whole but for the blank line.                       *)
Unended == {"connect", "send", "head"}
BlankAt(text, i) == text[i - 2] = LF /\ text[i - 1] = CR /\ text[i] = LF
NoNul(text) == \A i \in 1..Len(text) : text[i] # NUL
NothingYet(label, t, h, b) ==
  /\ label \in {"connect", "send"} => t = <<>> /\ h = <<>>
  /\ label \in Unended => b = <<>>
HeaderIsShort(label, t, h) ==
  /\ Len(h) <= Len(t) /\ (label = "body" => Len(h) + 2 <= Len(t))
  /\ \A i \in 3..Len(t) : BlankAt(t, i) => label \notin Unended /\ Len(h) + 2 <= i
PrintedOf(label, t, h, b) ==
  /\ NoNul(h) /\ NoNul(b)
  /\ NoNul(t) => \/ t = h /\ b = <<>> /\ label # "body"
                 \/ t = (h \o BlankLine) \o b /\ label \notin Unended
PrintInv(label, t, h, b) ==
  NothingYet(label, t, h, b) /\ HeaderIsShort(label, t, h) /\ PrintedOf(label, t, h, b)
Printed(c) == PrintInv(pc[c], taken[c], head[c], body[c])

ClientInv(c) ==
  /\ NotAnswered(c) /\ AllWritten(c) /\ InOrder(c) /\ FailedIsClosed(c)
  /\ DoneIsOver(c) /\ LineIsOpen(c) /\ BlankIsOneLine(c) /\ Printed(c)

ExchangeInv == TextsTyped /\ DeadForOneWhoLeft /\ \A c \in Clients : ClientInv(c)

-----------------------------------------------------------------------------
(* Texts.                                                                  *)

(* Texts in a row.  The provers know much about \o: Joined hides it where   *)
(* only these three facts matter.                                          *)
Joined(a, b) == a \o b

(* Joining texts is associative and has the empty text as its unit. *)
LEMMA JoinedTexts ==
  /\ \A a, b \in Texts : Joined(a, b) \in Texts
  /\ \A a, b, c \in Texts : Joined(Joined(a, b), c) = Joined(a, Joined(b, c))
  /\ \A a \in Texts : Joined(a, <<>>) = a /\ Joined(<<>>, a) = a
<1>1. \A a, b \in Texts : a \o b \in Texts
  BY DEF Texts
<1>2. \A a, b, c \in Texts : (a \o b) \o c = a \o (b \o c)
  BY Regroup DEF Texts
<1>3. \A a \in Texts : a \o <<>> = a /\ <<>> \o a = a
  BY ConcatEmptySeq DEF Texts
<1> QED
  BY <1>1, <1>2, <1>3 DEF Joined

(* Two texts one after the other are a text. *)
LEMMA RowIsText == \A a, b \in Texts : a \o b \in Texts
BY DEF Texts

(* The empty text changes nothing on either side. *)
LEMMA RowEmpty == \A a \in Texts : a \o <<>> = a /\ <<>> \o a = a
BY ConcatEmptySeq DEF Texts

(* A line that goes from the socket to the end of what the client took.    *)
LEMMA LineRow ==
  ASSUME NEW t \in Texts, NEW l \in Texts, NEW s \in Texts, NEW text \in Texts,
         NEW s2 \in Texts, Joined(text, s2) = Joined(l, s)
  PROVE  Joined(Joined(Joined(t, text), <<>>), s2) = Joined(Joined(t, l), s)
<1>1. Joined(t, text) \in Texts /\ Joined(Joined(t, text), <<>>) = Joined(t, text)
  BY JoinedTexts
<1>2. Joined(Joined(t, text), s2) = Joined(Joined(t, l), s)
  BY JoinedTexts
<1> QED
  BY <1>1, <1>2

(* What is left to write: its first text, and the others.                  *)
LEMMA FirstText ==
  /\ \A s \in Seq(Texts) : FlattenSeq(s) \in Texts
  /\ FlattenSeq(<<>>) = <<>>
  /\ \A s \in Seq(Texts) : s # <<>> =>
       /\ Head(s) \in Texts /\ Tail(s) \in Seq(Texts)
       /\ FlattenSeq(s) = Head(s) \o FlattenSeq(Tail(s))
  /\ \A s \in Seq(Texts), t \in Texts :
       /\ <<t>> \o s \in Seq(Texts)
       /\ FlattenSeq(<<t>> \o s) = t \o FlattenSeq(s)
<1>1. \A s \in Seq(Texts) : FlattenSeq(s) \in Texts
  BY FlattenTyped DEF Texts
<1>2. FlattenSeq(<<>>) = <<>>
  BY Zenon DEF FlattenSeq
<1>3. \A s \in Seq(Texts), t \in Texts : FlattenSeq(<<t>> \o s) = t \o FlattenSeq(s)
  BY FlattenCons DEF Texts
<1>4. \A s \in Seq(Texts), t \in Texts : <<t>> \o s \in Seq(Texts)
  OBVIOUS
<1>5. ASSUME NEW s \in Seq(Texts), s # <<>>
      PROVE  /\ Head(s) \in Texts /\ Tail(s) \in Seq(Texts)
             /\ FlattenSeq(s) = Head(s) \o FlattenSeq(Tail(s))
  <2>1. Head(s) \in Texts /\ Tail(s) \in Seq(Texts)
    BY <1>5
  <2>2. s = <<Head(s)>> \o Tail(s)
    <3> DEFINE u == <<Head(s)>> \o Tail(s)
    <3>1. u \in Seq(Texts) /\ Len(u) = Len(s)
      BY <1>5
    <3>2. \A i \in 1..Len(s) : u[i] = s[i]
      BY <1>5
    <3> HIDE DEF u
    <3>3. u = s
      BY <3>1, <3>2, SeqEqual
    <3> QED
      BY <3>3 DEF u
  <2>3. FlattenSeq(<<Head(s)>> \o Tail(s)) = Head(s) \o FlattenSeq(Tail(s))
    BY <1>3, <2>1
  <2> QED
    BY <2>1, <2>2, <2>3
<1> QED
  BY <1>1, <1>2, <1>3, <1>4, <1>5

(* A text cut at any character is two texts that make it up again: what
   rio_writen has written and what it has left. *)
LEMMA CutText ==
  \A t \in Texts : \A k \in 1..Len(t) :
    /\ SubSeq(t, 1, k) \in Texts /\ SubSeq(t, k + 1, Len(t)) \in Texts
    /\ SubSeq(t, 1, k) \o SubSeq(t, k + 1, Len(t)) = t
BY CutAndJoin DEF Texts

(* The empty text is a text. *)
LEMMA EmptyText == <<>> \in Texts /\ <<>> \in Seq(Texts)
BY DEF Texts

(* Every response is a sequence of texts (ResponsesAssumption). *)
LEMMA ResponsesTyped == Responses \subseteq Seq(Texts)
<1> DEFINE C == UNION {Range(t) : t \in UNION {Range(r) : r \in Responses}}
<1>1. Responses \subseteq Seq(Seq(C)) /\ C \subseteq Characters
  BY ResponsesAssumption DEF Characters
<1> HIDE DEF C
<1>2. Seq(C) \subseteq Seq(Characters)
  BY <1>1
<1>3. Seq(Seq(C)) \subseteq Seq(Seq(Characters))
  <2> DEFINE A == Seq(C)
             B == Seq(Characters)
  <2>1. A \subseteq B
    BY <1>2
  <2> HIDE DEF A, B
  <2>2. Seq(A) \subseteq Seq(B)
    BY <2>1
  <2> QED
    BY <2>2 DEF A, B
<1> QED
  BY <1>1, <1>3 DEF Texts

-----------------------------------------------------------------------------
(* The initial states, and the clients a step is not about.                *)

(* ExchangeInv holds before any client connects. *)
LEMMA StartsConnecting == Init => ExchangeInv
<1> SUFFICES ASSUME Init PROVE ExchangeInv
  OBVIOUS
<1> USE DEF Init
<1>1. TextsTyped
  BY EmptyText DEF TextsTyped, Labels
<1>2. ASSUME NEW c \in Clients PROVE ClientInv(c)
  <2>1. InOrder(c)
    <3>1. <<>> \o <<>> = <<>>
      OBVIOUS
    <3> QED
      BY <3>1, FirstText DEF InOrder, Text
  <2> QED
    <3>1. Len(<<>>) = 0 /\ 1..0 = {} /\ 3..0 = {}
      OBVIOUS
    <3>2. Printed(c)
      BY <3>1 DEF Printed, PrintInv, NothingYet, HeaderIsShort, PrintedOf, NoNul
    <3> QED
      BY <2>1, <3>1, <3>2 DEF ClientInv, NotAnswered, AllWritten, FailedIsClosed,
         DoneIsOver, LineIsOpen, BlankIsOneLine, OpenBlank
<1> QED
  BY <1>1, <1>2 DEF ExchangeInv, DeadForOneWhoLeft

(* Another's step touches a client only by ending the server.              *)
LEMMA OthersKeep ==
  ASSUME NEW c \in Clients, ClientInv(c), alive' => alive,
         worker'[c] = worker[c], answer'[c] = answer[c], left'[c] = left[c],
         pc'[c] = pc[c], sock'[c] = sock[c], line'[c] = line[c],
         taken'[c] = taken[c], head'[c] = head[c], body'[c] = body[c]
  PROVE  ClientInv(c)'
<1>1. NotAnswered(c)' /\ AllWritten(c)' /\ InOrder(c)'
  BY DEF ClientInv, NotAnswered, AllWritten, InOrder, Left, Text
<1>2. FailedIsClosed(c)' /\ DoneIsOver(c)'
  BY DEF ClientInv, FailedIsClosed, DoneIsOver, Closed
<1>3. LineIsOpen(c)' /\ BlankIsOneLine(c)' /\ Printed(c)'
  BY DEF ClientInv, LineIsOpen, BlankIsOneLine, Printed, Closed
<1> QED
  BY <1>1, <1>2, <1>3 DEF ClientInv

-----------------------------------------------------------------------------
(* The worker's steps.                                                     *)

(* What the client printed stays, and a worker that runs has not closed.   *)
LEMMA PrintedStays ==
  ASSUME NEW c \in Clients, ClientInv(c), alive, worker[c] \in {"read", "write"},
         UNCHANGED client, UNCHANGED line
  PROVE  /\ FailedIsClosed(c)' /\ DoneIsOver(c)' /\ LineIsOpen(c)'
         /\ BlankIsOneLine(c)' /\ Printed(c)'
<1>1. ~ Closed(c) /\ pc[c] \notin {"failed", "done"}
  BY DEF Closed, ClientInv, FailedIsClosed, DoneIsOver
<1>2. FailedIsClosed(c)' /\ DoneIsOver(c)' /\ LineIsOpen(c)'
  BY <1>1 DEF client, ClientInv, FailedIsClosed, DoneIsOver, LineIsOpen
<1>3. BlankIsOneLine(c)' /\ Printed(c)'
  BY <1>1 DEF client, output, ClientInv, BlankIsOneLine, Printed
<1> QED
  BY <1>2, <1>3

(* The response is as it was when what is behind sock and left is.         *)
LEMMA RowKept ==
  ASSUME NEW c \in Clients, TextsTyped, InOrder(c), UNCHANGED client, UNCHANGED line,
         answer'[c] = answer[c], sock'[c] \in Texts, left'[c] \in Seq(Texts),
         ~ Left(c) => sock'[c] \o FlattenSeq(left'[c]) = sock[c] \o FlattenSeq(left[c])
  PROVE  InOrder(c)'
<1> DEFINE x == taken[c] \o line[c]
           rest == FlattenSeq(left[c])
           next == FlattenSeq(left'[c])
<1>1. x \in Texts /\ rest \in Texts /\ next \in Texts /\ sock[c] \in Texts
  BY RowIsText, FirstText DEF TextsTyped
<1>2. x' = x /\ (Left(c)' <=> Left(c)) /\ Text(c)' = Text(c)
  BY DEF client, output, Left, Text
<1>3. ~ Left(c) => (x \o sock[c]) \o rest = Text(c)
  BY DEF InOrder
<1>4. ~ Left(c) => sock'[c] \o next = sock[c] \o rest
  OBVIOUS
<1> HIDE DEF x, rest, next
<1>5. ~ Left(c) => (x \o sock'[c]) \o next = (x \o sock[c]) \o rest
  <2> DEFINE a == sock[c]
             a2 == sock'[c]
  <2>1. a \in Texts /\ a2 \in Texts /\ x \in Texts /\ rest \in Texts /\ next \in Texts
    BY <1>1
  <2>2. ~ Left(c) => a2 \o next = a \o rest
    BY <1>4
  <2> HIDE DEF a, a2
  <2>3. Joined(a2, next) = Joined(a, rest)
          => Joined(Joined(x, a2), next) = Joined(Joined(x, a), rest)
    BY <2>1, JoinedTexts
  <2> QED
    BY <2>2, <2>3 DEF a, a2, Joined
<1>6. ~ Left(c) => (x \o sock'[c]) \o next = Text(c)
  BY <1>3, <1>5
<1> QED
  BY <1>2, <1>6 DEF InOrder, x, next

(* The worker's read of the request keeps the invariant. *)
LEMMA ReadRequestKeeps ==
  ASSUME ExchangeInv, NEW c \in Clients, ReadRequest(c)
  PROVE  ExchangeInv'
<1>1. UNCHANGED <<server, client, sock, line>>
  BY DEF ReadRequest
<1>2. TextsTyped' /\ DeadForOneWhoLeft'
  BY <1>1 DEF ExchangeInv, TextsTyped, DeadForOneWhoLeft, server, client, output
<1>3. \A d \in Clients : ClientInv(d)'
  BY <1>1, OthersKeep DEF ExchangeInv, server, client, output
<1> QED
  BY <1>2, <1>3 DEF ExchangeInv

(* requestHandle's choice of a response keeps the invariant: nothing of it is
   written yet, and it is what the row now starts from. *)
LEMMA AnswerKeeps ==
  ASSUME ExchangeInv, NEW c \in Clients, Answer(c)
  PROVE  ExchangeInv'
<1>1. PICK r \in Responses :
        answer' = [answer EXCEPT ![c] = r] /\ left' = [left EXCEPT ![c] = r]
  BY DEF Answer
<1>2. /\ alive /\ worker[c] = "read" /\ worker' = [worker EXCEPT ![c] = "write"]
      /\ UNCHANGED <<alive, client, sock, line>>
  BY DEF Answer, Serves
<1>3. r \in Seq(Texts) /\ TextsTyped /\ ClientInv(c)
  BY ResponsesTyped DEF ExchangeInv
<1>4. TextsTyped' /\ DeadForOneWhoLeft'
  BY <1>1, <1>2, <1>3 DEF ExchangeInv, TextsTyped, DeadForOneWhoLeft, client, output
<1>5. /\ worker'[c] = "write" /\ answer'[c] = r /\ left'[c] = r
      /\ left[c] = <<>> /\ answer[c] = <<>>
  BY <1>1, <1>2, <1>3 DEF TextsTyped, ClientInv, NotAnswered
<1>6. InOrder(c)'
  <2> DEFINE x == taken[c] \o line[c] \o sock[c]
             t == FlattenSeq(r)
  <2>1. x \in Texts /\ t \in Texts
    BY <1>3, RowIsText, FirstText DEF TextsTyped
  <2>2. x' = x /\ (Left(c)' <=> Left(c))
    BY <1>2 DEF client, output, Left
  <2>3. ~ Left(c) => x \o <<>> = <<>>
    BY <1>3, <1>5, FirstText DEF ClientInv, InOrder, Text
  <2> HIDE DEF x, t
  <2>4. ~ Left(c) => x \o t = t
    BY <2>1, <2>3, RowEmpty
  <2> QED
    BY <1>5, <2>2, <2>4 DEF InOrder, Text, x, t
<1>7. ClientInv(c)'
  BY <1>2, <1>3, <1>5, <1>6, PrintedStays DEF ClientInv, NotAnswered, AllWritten
<1>8. ASSUME NEW d \in Clients, d # c PROVE ClientInv(d)'
  BY <1>1, <1>2, <1>3, <1>8, OthersKeep DEF ExchangeInv, TextsTyped, client, output
<1> QED
  BY <1>4, <1>7, <1>8 DEF ExchangeInv

(* The steps of rio_writen move the response along.                        *)
LEMMA WriteKeeps ==
  ASSUME ExchangeInv, NEW c \in Clients, Serves(c, "write"),
         NEW s \in Texts, NEW l \in Seq(Texts),
         sock' = [sock EXCEPT ![c] = s], left' = [left EXCEPT ![c] = l],
         ~ Left(c) => s \o FlattenSeq(l) = sock[c] \o FlattenSeq(left[c]),
         UNCHANGED <<worker, answer, client, line>>, UNCHANGED alive
  PROVE  ExchangeInv'
<1>1. TextsTyped /\ ClientInv(c) /\ alive /\ worker[c] = "write"
  BY DEF ExchangeInv, Serves
<1>2. sock'[c] = s /\ left'[c] = l
  BY <1>1 DEF TextsTyped
<1>3. TextsTyped' /\ DeadForOneWhoLeft'
  BY <1>1 DEF ExchangeInv, TextsTyped, DeadForOneWhoLeft, client, output
<1>4. InOrder(c)'
  BY <1>1, <1>2, RowKept DEF ClientInv
<1>5. ClientInv(c)'
  BY <1>1, <1>4, PrintedStays DEF ClientInv, NotAnswered, AllWritten
<1>6. ASSUME NEW d \in Clients, d # c PROVE ClientInv(d)'
  BY <1>1, <1>6, OthersKeep DEF ExchangeInv, TextsTyped, client, output
<1> QED
  BY <1>3, <1>5, <1>6 DEF ExchangeInv

(* One write of rio_writen moves characters from the text it has left to the
   socket, in order. *)
LEMMA WriteSomeKeeps ==
  ASSUME ExchangeInv, NEW c \in Clients, WriteSome(c)
  PROVE  ExchangeInv'
<1> DEFINE l == left[c]
           h == Head(left[c])
           others == FlattenSeq(Tail(left[c]))
<1>1. l \in Seq(Texts) /\ l # <<>> /\ sock[c] \in Texts /\ Serves(c, "write")
      /\ h \in Texts /\ Tail(l) \in Seq(Texts) /\ others \in Texts
      /\ FlattenSeq(l) = h \o others
  BY FirstText DEF WriteSome, ExchangeInv, TextsTyped
<1>2. PICK k \in 1..Len(h) :
        /\ sock' = [sock EXCEPT ![c] = sock[c] \o SubSeq(h, 1, k)]
        /\ left' = [left EXCEPT ![c] = <<SubSeq(h, k + 1, Len(h))>> \o Tail(l)]
  BY DEF WriteSome
<1> DEFINE first == SubSeq(h, 1, k)
           rest == SubSeq(h, k + 1, Len(h))
<1>3. first \in Texts /\ rest \in Texts /\ first \o rest = h
  BY <1>1, CutText
<1>4. UNCHANGED <<worker, answer, client, line>> /\ UNCHANGED alive
  BY DEF WriteSome
<1> DEFINE s == sock[c] \o first
           m == <<rest>> \o Tail(l)
<1>5. s \in Texts /\ m \in Seq(Texts) /\ FlattenSeq(m) = rest \o others
  BY <1>1, <1>3, RowIsText, FirstText
<1>6. s \o FlattenSeq(m) = sock[c] \o FlattenSeq(l)
  <2> HIDE DEF first, rest, others, h, m, l
  <2> DEFINE a == sock[c]
  <2>1. a \in Texts /\ first \in Texts /\ rest \in Texts /\ others \in Texts
    BY <1>1, <1>3
  <2> HIDE DEF a
  <2>2. Joined(Joined(a, first), Joined(rest, others))
          = Joined(a, Joined(Joined(first, rest), others))
    BY <2>1, JoinedTexts
  <2> QED
    BY <1>1, <1>3, <1>5, <2>2 DEF a, Joined
<1>7. sock' = [sock EXCEPT ![c] = s] /\ left' = [left EXCEPT ![c] = m]
  BY <1>2
<1> HIDE DEF s, m
<1> QED
  BY <1>1, <1>4, <1>5, <1>6, <1>7, WriteKeeps

(* rio_writen returns with nothing left, and the next text is taken. *)
LEMMA WriteReturnsKeeps ==
  ASSUME ExchangeInv, NEW c \in Clients, WriteReturns(c)
  PROVE  ExchangeInv'
<1> DEFINE s == sock[c]
           m == Tail(left[c])
<1>1. /\ left[c] \in Seq(Texts) /\ left[c] # <<>> /\ s \in Texts /\ Serves(c, "write")
      /\ m \in Seq(Texts) /\ FlattenSeq(m) \in Texts
      /\ FlattenSeq(left[c]) = <<>> \o FlattenSeq(m)
  BY FirstText DEF WriteReturns, ExchangeInv, TextsTyped
<1>2. s \o FlattenSeq(m) = sock[c] \o FlattenSeq(left[c])
  BY <1>1, RowEmpty
<1>3. /\ sock' = [sock EXCEPT ![c] = s] /\ left' = [left EXCEPT ![c] = m]
      /\ UNCHANGED <<worker, answer, client, line>> /\ UNCHANGED alive
  BY DEF WriteReturns, ExchangeInv, TextsTyped
<1> HIDE DEF s, m
<1> QED
  BY <1>1, <1>2, <1>3, WriteKeeps

(* The one step that ends the server: its client left, for had it failed,  *)
(* its worker would have closed.                                           *)
LEMMA WriteToNobodyKeeps ==
  ASSUME ExchangeInv, NEW c \in Clients, WriteToNobody(c)
  PROVE  ExchangeInv'
<1>1. /\ TextsTyped /\ ClientInv(c) /\ Serves(c, "write") /\ Left(c)
      /\ left[c] \in Seq(Texts) /\ left[c] # <<>>
      /\ UNCHANGED <<worker, answer, client, sock, line>>
  BY DEF WriteToNobody, ExchangeInv, TextsTyped
<1>2. CASE left' = [left EXCEPT ![c] = <<<<>>>> \o Tail(@)] /\ UNCHANGED alive
  <2> DEFINE s == sock[c]
             m == <<<<>>>> \o Tail(left[c])
  <2>1. s \in Texts /\ m \in Seq(Texts)
    BY <1>1, FirstText, EmptyText DEF TextsTyped
  <2>2. sock' = [sock EXCEPT ![c] = s] /\ left' = [left EXCEPT ![c] = m]
    BY <1>1, <1>2 DEF TextsTyped
  <2> HIDE DEF s, m
  <2> QED
    BY <1>1, <1>2, <2>1, <2>2, WriteKeeps
<1>3. CASE alive' = FALSE /\ UNCHANGED left
  <2>1. pc[c] = "left"
    BY <1>1 DEF Serves, Left, ClientInv, FailedIsClosed
  <2>2. TextsTyped' /\ DeadForOneWhoLeft'
    BY <1>1, <1>3, <2>1 DEF TextsTyped, DeadForOneWhoLeft, client, output
  <2>3. \A d \in Clients : ClientInv(d)'
    BY <1>1, <1>3, OthersKeep DEF ExchangeInv, client, output
  <2> QED
    BY <2>2, <2>3 DEF ExchangeInv
<1> QED
  BY <1>2, <1>3 DEF WriteToNobody

(* The worker closes only after the last text was written, or gives up on a
   client that is gone. *)
LEMMA CloseKeeps ==
  ASSUME ExchangeInv, NEW c \in Clients, CloseConn(c) \/ GiveUp(c)
  PROVE  ExchangeInv'
<1>1. /\ TextsTyped /\ ClientInv(c) /\ alive /\ worker[c] \in {"read", "write"}
      /\ (left[c] = <<>> \/ Left(c))
      /\ worker' = [worker EXCEPT ![c] = "closed"]
      /\ UNCHANGED <<alive, answer, left, client, sock, line>>
  BY DEF CloseConn, GiveUp, ExchangeInv, Serves
<1>2. TextsTyped' /\ DeadForOneWhoLeft'
  BY <1>1 DEF ExchangeInv, TextsTyped, DeadForOneWhoLeft, client, output
<1>3. worker'[c] = "closed"
  BY <1>1 DEF TextsTyped
<1>4. NotAnswered(c)' /\ AllWritten(c)' /\ InOrder(c)'
  BY <1>1, <1>3 DEF ClientInv, NotAnswered, AllWritten, InOrder, Left, Text, client,
     output
<1>5. ClientInv(c)'
  BY <1>1, <1>4, PrintedStays DEF ClientInv
<1>6. ASSUME NEW d \in Clients, d # c PROVE ClientInv(d)'
  BY <1>1, <1>6, OthersKeep DEF ExchangeInv, TextsTyped, client, output
<1> QED
  BY <1>2, <1>5, <1>6 DEF ExchangeInv

-----------------------------------------------------------------------------
(* The client's steps.                                                     *)

(* A step of one client leaves the rows of the others alone: its own part of
   the invariant is all that has to be shown. *)
LEMMA ClientStepKeeps ==
  ASSUME ExchangeInv, NEW c \in Clients, UNCHANGED server, pc[c] # "left",
         \A d \in Clients \ {c} : /\ pc'[d] = pc[d] /\ sock'[d] = sock[d]
                                  /\ line'[d] = line[d] /\ taken'[d] = taken[d]
                                  /\ head'[d] = head[d] /\ body'[d] = body[d],
         TextsTyped', ClientInv(c)'
  PROVE  ExchangeInv'
<1>1. DeadForOneWhoLeft'
  <2>1. \A d \in Clients : pc[d] = "left" => pc'[d] = "left"
    OBVIOUS
  <2> QED
    BY <2>1 DEF ExchangeInv, DeadForOneWhoLeft, server
<1>2. ASSUME NEW d \in Clients, d # c PROVE ClientInv(d)'
  BY <1>2, OthersKeep DEF ExchangeInv, server
<1> QED
  BY <1>1, <1>2 DEF ExchangeInv

(* A client that fails or is interrupted: what it printed says no more.    *)
LEMMA GoneKeeps ==
  ASSUME ExchangeInv, NEW c \in Clients, NEW label \in {"failed", "left"},
         pc[c] # "left", pc[c] # "failed", pc' = [pc EXCEPT ![c] = label],
         label = "failed" => Closed(c),
         \A d \in Clients \ {c} : sock'[d] = sock[d], sock' \in [Clients -> Texts],
         UNCHANGED <<server, line, taken, head, body>>
  PROVE  ExchangeInv'
<1>1. TextsTyped /\ ClientInv(c) /\ pc'[c] = label /\ Left(c)'
  BY DEF ExchangeInv, TextsTyped, Left
<1>2. TextsTyped'
  BY <1>1 DEF TextsTyped, server, Labels
<1>3. NotAnswered(c)' /\ AllWritten(c)' /\ InOrder(c)' /\ FailedIsClosed(c)'
  BY <1>1 DEF ClientInv, NotAnswered, AllWritten, InOrder, FailedIsClosed, Closed,
     server
<1>4. DoneIsOver(c)' /\ LineIsOpen(c)' /\ BlankIsOneLine(c)'
  BY <1>1 DEF ClientInv, DoneIsOver, LineIsOpen, BlankIsOneLine
<1>5. Printed(c)'
  <2> DEFINE t == taken[c]
             h == head[c]
             b == body[c]
             old == pc[c]
  <2>1. PrintInv(old, t, h, b)
    BY <1>1 DEF ClientInv, Printed
  <2> HIDE DEF t, h, b, old
  <2>2. PrintInv(label, t, h, b)
    BY <2>1 DEF PrintInv, NothingYet, HeaderIsShort, PrintedOf, Unended
  <2> QED
    BY <1>1, <2>2 DEF Printed, t, h, b
<1>6. ClientInv(c)'
  BY <1>3, <1>4, <1>5 DEF ClientInv
<1>7. /\ UNCHANGED server /\ UNCHANGED line /\ UNCHANGED taken /\ UNCHANGED head
      /\ UNCHANGED body
  OBVIOUS
<1> QED
  BY <1>1, <1>2, <1>6, <1>7, ClientStepKeeps DEF TextsTyped

(* A client goes on to send or to print: nothing is printed yet.           *)
LEMMA GoesOnKeeps ==
  ASSUME ExchangeInv, NEW c \in Clients, NEW label \in {"send", "head"},
         pc[c] \in {"connect", "send"}, pc' = [pc EXCEPT ![c] = label],
         UNCHANGED <<server, sock, line, taken, head, body>>
  PROVE  ExchangeInv'
<1>1. TextsTyped /\ ClientInv(c) /\ pc'[c] = label
  BY DEF ExchangeInv, TextsTyped
<1>2. TextsTyped'
  BY <1>1 DEF TextsTyped, server, Labels
<1>3. NotAnswered(c)' /\ AllWritten(c)' /\ InOrder(c)' /\ FailedIsClosed(c)'
  BY <1>1 DEF ClientInv, NotAnswered, AllWritten, InOrder, FailedIsClosed, Left, Text,
     server
<1>4. taken[c] = <<>> /\ head[c] = <<>> /\ body[c] = <<>>
  BY <1>1 DEF ClientInv, Printed, PrintInv, NothingYet, Unended
<1>5. DoneIsOver(c)' /\ LineIsOpen(c)'
  BY <1>1 DEF ClientInv, DoneIsOver, LineIsOpen
<1>6. Len(<<>>) = 0 /\ 1..0 = {} /\ 3..0 = {}
  OBVIOUS
<1>7. BlankIsOneLine(c)' /\ Printed(c)'
  BY <1>1, <1>4, <1>6 DEF Printed, PrintInv, NothingYet, HeaderIsShort, PrintedOf, NoNul,
     BlankIsOneLine, OpenBlank
<1>8. ClientInv(c)'
  BY <1>3, <1>5, <1>7 DEF ClientInv
<1>9. /\ UNCHANGED server /\ UNCHANGED sock /\ UNCHANGED line
      /\ UNCHANGED taken /\ UNCHANGED head /\ UNCHANGED body
  OBVIOUS
<1> QED
  BY <1>1, <1>2, <1>8, <1>9, ClientStepKeeps DEF TextsTyped

(* Connecting and sending the request keep the invariant. *)
LEMMA ConnectAndSendKeep ==
  ASSUME ExchangeInv, NEW c \in Clients, Connect(c) \/ Send(c)
  PROVE  ExchangeInv'
<1>1. UNCHANGED <<server, sock, line, taken, head, body>> /\ sock \in [Clients -> Texts]
  BY DEF Connect, Send, output, ExchangeInv, TextsTyped
<1>2. \/ /\ pc[c] \in {"connect", "send"} /\ Closed(c)
         /\ pc' = [pc EXCEPT ![c] = "failed"]
      \/ /\ pc[c] \in {"connect", "send"}
         /\ \E label \in {"send", "head"} : pc' = [pc EXCEPT ![c] = label]
  BY DEF Connect, Send, Become, Closed
<1>3. CASE pc' = [pc EXCEPT ![c] = "failed"] /\ Closed(c) /\ pc[c] \in {"connect", "send"}
  BY <1>1, <1>3, GoneKeeps
<1>4. CASE /\ pc[c] \in {"connect", "send"}
           /\ \E label \in {"send", "head"} : pc' = [pc EXCEPT ![c] = label]
  BY <1>1, <1>4, GoesOnKeeps
<1> QED
  BY <1>2, <1>3, <1>4

(* A reset connection and a client that is interrupted keep the invariant. *)
LEMMA ResetAndLeaveKeep ==
  ASSUME ExchangeInv, NEW c \in Clients, ReadReset(c) \/ Leave(c)
  PROVE  ExchangeInv'
<1>1. sock \in [Clients -> Texts] /\ <<>> \in Texts
  BY EmptyText DEF ExchangeInv, TextsTyped
<1>2. CASE ReadReset(c)
  <2>1. /\ pc[c] \notin {"left", "failed"} /\ Closed(c) /\ UNCHANGED sock
        /\ pc' = [pc EXCEPT ![c] = "failed"] /\ UNCHANGED <<server, line, taken, head, body>>
    BY <1>2 DEF ReadReset, output, Printing, Reset, Become
  <2> QED
    BY <1>1, <2>1, GoneKeeps
<1>3. CASE Leave(c)
  <2>1. /\ pc[c] \notin {"left", "failed"} /\ sock' = [sock EXCEPT ![c] = <<>>]
        /\ pc' = [pc EXCEPT ![c] = "left"] /\ UNCHANGED <<server, line, taken, head, body>>
    BY <1>3 DEF Leave, output, Become
  <2> QED
    BY <1>1, <2>1, GoneKeeps
<1> QED
  BY <1>2, <1>3

(* Only the blank line, read as one line, ends what LF CR LF ends. *)
LEMMA BlankEndsHeader ==
  ASSUME NEW t \in Texts, NEW text \in Texts, text # <<>>,
         \A j \in 1..(Len(text) - 1) : text[j] # LF,
         text[Len(text)] = LF => ~ OpenBlank(t),
         NEW i \in 3..Len(t \o text), BlankAt(t \o text, i), i > Len(t)
  PROVE  i = Len(t) + 2 /\ text = BlankLine
<1> DEFINE w == t \o text
           H == Len(t)
           n == Len(text)
<1>1. /\ H \in Nat /\ n \in Nat /\ Len(w) = H + n
      /\ \A j \in 1..H : w[j] = t[j]
      /\ \A j \in 1..n : w[H + j] = text[j]
  BY ConcatAt DEF Texts
<1>2. w[i - 2] = LF /\ w[i - 1] = CR /\ w[i] = LF /\ i \in 3..Len(w) /\ i > H
  BY DEF BlankAt
<1>3. (n = 2 => text = <<text[1], text[2]>>) /\ n # 0
  BY DEF Texts
<1>4. (\A j \in 1..(n - 1) : text[j] # LF) /\ (text[n] = LF => ~ OpenBlank(t))
  OBVIOUS
<1> HIDE DEF w, H, n
<1>5. i = H + n /\ text[n] = LF
  <2>1. i - H \in 1..n /\ H + (i - H) = i
    BY <1>1, <1>2
  <2>2. text[i - H] = LF
    BY <1>1, <1>2, <2>1
  <2>3. i - H = n
    BY <1>1, <1>4, <2>1, <2>2
  <2> QED
    BY <1>1, <2>1, <2>2, <2>3
<1>6. n # 1
  <2> SUFFICES ASSUME n = 1 PROVE FALSE
    OBVIOUS
  <2>1. H \in 1..H /\ H - 1 \in 1..H /\ i - 1 = H /\ i - 2 = H - 1 /\ H >= 2
    BY <1>1, <1>2, <1>5
  <2>2. t[H] = CR /\ t[H - 1] = LF
    BY <1>1, <1>2, <2>1
  <2> QED
    BY <1>4, <1>5, <2>1, <2>2 DEF OpenBlank, H
<1>7. n <= 2
  <2> SUFFICES ASSUME n > 2 PROVE FALSE
    BY <1>1
  <2>1. n - 2 \in 1..n /\ n - 2 \in 1..(n - 1) /\ H + (n - 2) = i - 2
    BY <1>1, <1>5
  <2>2. w[H + (n - 2)] = text[n - 2] /\ text[n - 2] # LF
    BY <1>1, <1>4, <2>1
  <2> QED
    BY <1>2, <2>1, <2>2
<1>8. n = 2
  BY <1>1, <1>3, <1>6, <1>7
<1>9. text[2] = LF /\ text[1] = CR
  <2>1. 1 \in 1..n /\ H + 1 = i - 1
    BY <1>1, <1>5, <1>8
  <2>2. w[i - 1] = text[1]
    BY <1>1, <2>1
  <2> QED
    BY <1>2, <1>5, <1>8, <2>2
<1> QED
  BY <1>3, <1>5, <1>8, <1>9 DEF BlankLine, H

(* What a string of C is of a text: the part before the first NUL. *)
LEMMA CStringOf ==
  ASSUME NEW text \in Texts
  PROVE  /\ CString(text) \in Texts /\ NoNul(CString(text))
         /\ Len(CString(text)) \in Nat /\ Len(CString(text)) <= Len(text)
         /\ NoNul(text) => CString(text) = text
<1> DEFINE ends == {i \in DOMAIN text : text[i] = NUL}
<1>1. text \in Seq(Characters) /\ DOMAIN text = 1..Len(text) /\ Len(text) \in Nat
  BY DEF Texts
<1>2. NoNul(text) <=> ends = {}
  BY <1>1 DEF NoNul
<1>3. CASE ends = {}
  <2>1. CString(text) = text
    BY <1>3 DEF CString
  <2> QED
    BY <1>1, <1>2, <1>3, <2>1
<1>4. CASE ends # {}
  <2> DEFINE m == Min(ends)
  <2>1. m \in ends /\ \A j \in ends : m <= j
    <3>1. ends \in SUBSET Nat
      BY <1>1
    <3> HIDE DEF ends
    <3>2. \E n \in ends : \A j \in ends : n <= j
      BY <1>4, <3>1, LeastNumber
    <3> QED
      BY <3>2 DEF Min
  <2>2. CString(text) = SubSeq(text, 1, m - 1)
    BY <1>4 DEF CString
  <2> HIDE DEF m
  <2>3. m \in 1..Len(text) /\ \A j \in 1..(m - 1) : text[j] # NUL
    <3>1. m \in 1..Len(text)
      BY <1>1, <2>1
    <3>2. ASSUME NEW j \in 1..(m - 1), text[j] = NUL PROVE FALSE
      <4>1. j \in 1..Len(text) /\ ~ (m <= j)
        BY <1>1, <3>1
      <4> QED
        BY <1>1, <2>1, <3>2, <4>1
    <3> QED
      BY <3>1, <3>2
  <2> HIDE DEF ends
  <2>4. /\ SubSeq(text, 1, m - 1) \in Seq(Characters)
        /\ Len(SubSeq(text, 1, m - 1)) = m - 1
        /\ \A j \in 1..(m - 1) : SubSeq(text, 1, m - 1)[j] = text[j]
    BY <1>1, <2>3
  <2> QED
    BY <1>1, <1>2, <1>4, <2>2, <2>3, <2>4 DEF NoNul, Texts
<1> QED
  BY <1>3, <1>4

(* Two texts without a NUL make one, and it only comes of two. *)
LEMMA NoNulJoined ==
  ASSUME NEW a \in Texts, NEW b \in Texts
  PROVE  NoNul(a \o b) <=> NoNul(a) /\ NoNul(b)
<1> DEFINE w == a \o b
           n == Len(a)
           k == Len(b)
<1>1. /\ n \in Nat /\ k \in Nat /\ Len(w) = n + k
      /\ \A j \in 1..n : w[j] = a[j]
      /\ \A j \in 1..k : w[n + j] = b[j]
  BY ConcatAt DEF Texts
<1> HIDE DEF w
<1>2. ASSUME NoNul(a), NoNul(b), NEW j \in 1..Len(w) PROVE w[j] # NUL
  <2>1. CASE j \in 1..n
    BY <1>1, <1>2, <2>1 DEF NoNul
  <2>2. CASE j \notin 1..n
    <3>1. j - n \in 1..k /\ n + (j - n) = j
      BY <1>1, <2>2
    <3>2. w[n + (j - n)] = b[j - n] /\ b[j - n] # NUL
      BY <1>1, <1>2, <3>1 DEF NoNul
    <3> QED
      BY <3>1, <3>2
  <2> QED
    BY <2>1, <2>2
<1>3. ASSUME NoNul(w) PROVE NoNul(a) /\ NoNul(b)
  <2>1. \A j \in 1..n : j \in 1..Len(w)
    BY <1>1
  <2>2. \A j \in 1..k : n + j \in 1..Len(w)
    BY <1>1
  <2> QED
    BY <1>1, <1>3, <2>1, <2>2 DEF NoNul
<1> QED
  BY <1>2, <1>3 DEF w, NoNul

(* The blank line is a text of two characters, neither of them a NUL. *)
LEMMA BlankIsText ==
  /\ BlankLine \in Texts /\ Len(BlankLine) = 2
  /\ BlankLine[1] = CR /\ BlankLine[2] = LF /\ NoNul(BlankLine)
<1>1. /\ BlankLine \in Texts /\ Len(BlankLine) = 2
      /\ BlankLine[1] = CR /\ BlankLine[2] = LF
  <2>1. CR \in Characters /\ LF \in Characters
    BY DEF Characters
  <2>2. <<CR, LF>> \in Seq(Characters) /\ Len(<<CR, LF>>) = 2
    <3> DEFINE E == Characters
    <3>1. CR \in E /\ LF \in E
      BY <2>1
    <3> HIDE DEF E
    <3>2. <<CR, LF>> \in Seq(E) /\ Len(<<CR, LF>>) = 2
      BY <3>1, SMT
    <3> QED
      BY <3>2 DEF E
  <2>3. <<CR, LF>>[1] = CR /\ <<CR, LF>>[2] = LF
    OBVIOUS
  <2> QED
    BY <2>2, <2>3 DEF BlankLine, Texts
<1>2. NoNul(BlankLine)
  BY <1>1, CharactersAssumption DEF NoNul
<1> QED
  BY <1>1, <1>2

(* The blank lines of what the client took, when it took one more line. *)
LEMMA BlanksStay ==
  ASSUME NEW t \in Texts, NEW text \in Texts, NEW i \in 3..Len(t \o text),
         BlankAt(t \o text, i), i <= Len(t)
  PROVE  i \in 3..Len(t) /\ BlankAt(t, i)
<1> DEFINE w == t \o text
           H == Len(t)
<1>1. H \in Nat /\ \A j \in 1..H : w[j] = t[j]
  BY ConcatAt DEF Texts
<1> HIDE DEF w
<1>2. i \in 1..H /\ i - 1 \in 1..H /\ i - 2 \in 1..H /\ i \in 3..H
  BY <1>1
<1>3. w[i - 2] = LF /\ w[i - 1] = CR /\ w[i] = LF
  BY DEF BlankAt, w
<1> QED
  BY <1>1, <1>2, <1>3 DEF BlankAt

(* A header line is printed up to its first NUL.                           *)
LEMMA HeaderLine ==
  ASSUME NEW t \in Texts, NEW h \in Texts, NEW text \in Texts, text # <<>>,
         PrintInv("head", t, h, <<>>), text # BlankLine,
         \A j \in 1..(Len(text) - 1) : text[j] # LF,
         text[Len(text)] = LF => ~ OpenBlank(t)
  PROVE  PrintInv("head", t \o text, h \o CString(text), <<>>)
<1> DEFINE p == CString(text)
<1>1. p \in Texts /\ NoNul(p) /\ Len(p) <= Len(text) /\ (NoNul(text) => p = text)
      /\ Len(p) \in Nat
  BY CStringOf
<1> HIDE DEF p
<1>2. /\ Len(t \o text) = Len(t) + Len(text) /\ Len(h \o p) = Len(h) + Len(p)
      /\ Len(t) \in Nat /\ Len(h) \in Nat /\ Len(text) \in Nat
  BY <1>1, ConcatAt DEF Texts
<1>3. HeaderIsShort("head", t \o text, h \o p)
  <2>1. Len(h \o p) <= Len(t \o text)
    BY <1>1, <1>2 DEF PrintInv, HeaderIsShort
  <2>2. ASSUME NEW i \in 3..Len(t \o text), BlankAt(t \o text, i) PROVE FALSE
    <3>1. CASE i <= Len(t)
      <4>1. i \in 3..Len(t) /\ BlankAt(t, i)
        BY <2>2, <3>1, BlanksStay
      <4> QED
        BY <4>1 DEF PrintInv, HeaderIsShort, Unended
    <3>2. CASE i > Len(t)
      BY <2>2, <3>2, BlankEndsHeader
    <3> QED
      BY <1>2, <3>1, <3>2
  <2> QED
    BY <2>1, <2>2 DEF HeaderIsShort
<1>4. PrintedOf("head", t \o text, h \o p, <<>>)
  <2>1. NoNul(h) /\ NoNul(<<>>) /\ (NoNul(t) => t = h)
    BY DEF PrintInv, PrintedOf, Unended
  <2>2. NoNul(h \o p) /\ (NoNul(t \o text) <=> NoNul(t) /\ NoNul(text))
    BY <1>1, <2>1, NoNulJoined
  <2> QED
    BY <1>1, <2>1, <2>2 DEF PrintedOf
<1>5. NothingYet("head", t \o text, h \o p, <<>>)
  BY DEF NothingYet
<1> QED
  BY <1>3, <1>4, <1>5 DEF PrintInv, p

(* The blank line ends the header.                                         *)
LEMMA BlankIsRead ==
  ASSUME NEW t \in Texts, NEW h \in Texts, PrintInv("head", t, h, <<>>),
         ~ OpenBlank(t)
  PROVE  PrintInv("body", t \o BlankLine, h, <<>>)
<1> DEFINE w == t \o BlankLine
<1>1. /\ Len(w) = Len(t) + 2 /\ Len(t) \in Nat /\ Len(h) \in Nat /\ w \in Texts
      /\ BlankLine \in Texts /\ BlankLine # <<>> /\ Len(BlankLine) = 2
      /\ BlankLine[1] # LF
  <2>1. t \in Seq(Characters) /\ h \in Seq(Characters) /\ BlankLine \in Seq(Characters)
    BY BlankIsText DEF Texts
  <2>2. /\ w \in Seq(Characters) /\ Len(t) \in Nat /\ Len(h) \in Nat
        /\ Len(w) = Len(t) + Len(BlankLine)
    BY <2>1, ConcatAt
  <2>3. BlankLine # <<>> /\ Len(BlankLine) = 2 /\ BlankLine[1] # LF
    <3>1. BlankLine # <<>>
      BY DEF BlankLine
    <3> QED
      BY <3>1, BlankIsText, CharactersAssumption
  <2> QED
    BY <2>1, <2>2, <2>3 DEF Texts
<1>2. Len(h) <= Len(t)
  BY DEF PrintInv, HeaderIsShort
<1>3. ASSUME NEW i \in 3..Len(w), BlankAt(w, i) PROVE Len(h) + 2 <= i
  <2>1. CASE i <= Len(t)
    <3>1. i \in 3..Len(t) /\ BlankAt(t, i)
      BY <1>1, <1>3, <2>1, BlanksStay
    <3> QED
      BY <3>1 DEF PrintInv, HeaderIsShort, Unended
  <2>2. CASE i > Len(t)
    <3>1. \A j \in 1..(Len(BlankLine) - 1) : BlankLine[j] # LF
      BY <1>1
    <3>2. i = Len(t) + 2
      BY <1>1, <1>3, <2>2, <3>1, BlankEndsHeader
    <3> QED
      BY <1>1, <1>2, <3>2
  <2> QED
    BY <1>1, <2>1, <2>2
<1> HIDE DEF w
<1>4. HeaderIsShort("body", w, h)
  BY <1>1, <1>2, <1>3 DEF HeaderIsShort, Unended
<1>5. PrintedOf("body", w, h, <<>>)
  <2>1. NoNul(h) /\ NoNul(<<>>) /\ (NoNul(t) => t = h)
    BY DEF PrintInv, PrintedOf, Unended
  <2>2. NoNul(w) => NoNul(t)
    BY <1>1, NoNulJoined DEF w
  <2>3. w \o <<>> = w
    BY <1>1, RowEmpty
  <2>4. NoNul(w) => w = (h \o BlankLine) \o <<>>
    BY <2>1, <2>2, <2>3 DEF w
  <2> QED
    BY <2>1, <2>4 DEF PrintedOf, Unended
<1>6. NothingYet("body", w, h, <<>>)
  BY DEF NothingYet, Unended
<1> QED
  BY <1>4, <1>5, <1>6 DEF PrintInv, w

(* A line of the body is printed up to its first NUL, blank or not.        *)
LEMMA BodyLine ==
  ASSUME NEW t \in Texts, NEW h \in Texts, NEW b \in Texts, NEW text \in Texts,
         PrintInv("body", t, h, b)
  PROVE  PrintInv("body", t \o text, h, b \o CString(text))
<1> DEFINE p == CString(text)
           w == t \o text
<1>1. p \in Texts /\ NoNul(p) /\ (NoNul(text) => p = text)
  BY CStringOf
<1>2. /\ Len(w) = Len(t) + Len(text)
      /\ Len(t) \in Nat /\ Len(h) \in Nat /\ Len(text) \in Nat
  BY ConcatAt DEF Texts
<1>3. Len(h) + 2 <= Len(t)
  BY DEF PrintInv, HeaderIsShort
<1>4. ASSUME NEW i \in 3..Len(w), BlankAt(w, i) PROVE Len(h) + 2 <= i
  <2>1. CASE i <= Len(t)
    <3>1. i \in 3..Len(t) /\ BlankAt(t, i)
      BY <1>4, <2>1, BlanksStay
    <3> QED
      BY <3>1 DEF PrintInv, HeaderIsShort
  <2>2. CASE i > Len(t)
    BY <1>2, <1>3, <2>2
  <2> QED
    BY <1>2, <2>1, <2>2
<1> HIDE DEF p, w
<1>5. HeaderIsShort("body", w, h)
  BY <1>2, <1>3, <1>4 DEF HeaderIsShort, Unended
<1>6. PrintedOf("body", w, h, b \o p)
  <2>1. NoNul(h) /\ NoNul(b) /\ (NoNul(t) => t = (h \o BlankLine) \o b)
    BY DEF PrintInv, PrintedOf
  <2>2. NoNul(b \o p) /\ (NoNul(w) <=> NoNul(t) /\ NoNul(text))
    BY <1>1, <2>1, NoNulJoined DEF w
  <2>3. ((h \o BlankLine) \o b) \o p = (h \o BlankLine) \o (b \o p)
    <3>1. h \o BlankLine \in Texts
      BY BlankIsText, RowIsText
    <3> DEFINE x == h \o BlankLine
    <3> HIDE DEF x
    <3>2. Joined(Joined(x, b), p) = Joined(x, Joined(b, p))
      BY <1>1, <3>1, JoinedTexts DEF x
    <3> QED
      BY <3>2 DEF Joined, x
  <2>4. NoNul(w) => w = (h \o BlankLine) \o (b \o p)
    BY <1>1, <2>1, <2>2, <2>3 DEF w
  <2> QED
    BY <2>1, <2>2, <2>4 DEF PrintedOf, Unended
<1>7. NothingYet("body", w, h, b \o p)
  BY DEF NothingYet, Unended
<1> QED
  BY <1>5, <1>6, <1>7 DEF PrintInv, p, w

(* The client takes one more line: the row and the invariant, but for what  *)
(* it printed.                                                             *)
LEMMA LineIsTaken ==
  ASSUME ExchangeInv, NEW c \in Clients, Printing(c), NEW text \in Texts, text # <<>>,
         NEW s \in Texts, sock' = [sock EXCEPT ![c] = s],
         text \o s = line[c] \o sock[c], UNCHANGED server,
         line' = [line EXCEPT ![c] = <<>>], taken' = [taken EXCEPT ![c] = @ \o text],
         NEW label \in {"head", "body"}, pc' = [pc EXCEPT ![c] = label],
         NEW h \in Texts, head' = [head EXCEPT ![c] = h],
         NEW b \in Texts, body' = [body EXCEPT ![c] = b],
         PrintInv(label, taken[c] \o text, h, b),
         label = "head" /\ OpenBlank(taken[c] \o text) => s = <<>> /\ Closed(c)
  PROVE  ExchangeInv'
<1> DEFINE t == taken[c]
           l == line[c]
           o == sock[c]
           rest == FlattenSeq(left[c])
<1>1. /\ TextsTyped /\ ClientInv(c) /\ ~ Left(c) /\ pc[c] # "left"
      /\ t \in Texts /\ l \in Texts /\ o \in Texts /\ t \o text \in Texts
  BY RowIsText DEF ExchangeInv, Printing, Left, TextsTyped
<1>2. /\ sock'[c] = s /\ line'[c] = <<>> /\ taken'[c] = t \o text
      /\ pc'[c] = label /\ head'[c] = h /\ body'[c] = b
  BY <1>1 DEF TextsTyped
<1>3. TextsTyped'
  BY <1>1, EmptyText DEF TextsTyped, server, Labels
<1>4. InOrder(c)'
  <2>1. ((t \o l) \o o) \o rest = Text(c)
    BY <1>1 DEF ClientInv, InOrder
  <2>2. left'[c] = left[c] /\ Text(c)' = Text(c) /\ rest' = rest
    BY DEF server, Text
  <2> HIDE DEF t, l, o, rest
  <2>3. Joined(Joined(Joined(t, text), <<>>), s) = Joined(Joined(t, l), o)
    <3>1. Joined(text, s) = Joined(l, o)
      BY DEF l, o, Joined
    <3> QED
      BY <1>1, <3>1, LineRow
  <2>4. ((taken'[c] \o line'[c]) \o sock'[c]) \o rest' = Text(c)'
    BY <1>2, <2>1, <2>2, <2>3 DEF Joined
  <2> QED
    BY <2>4 DEF InOrder, rest
<1>5. NotAnswered(c)' /\ AllWritten(c)' /\ FailedIsClosed(c)'
  BY <1>1, <1>2 DEF ClientInv, NotAnswered, AllWritten, FailedIsClosed, Left, server
<1>6. DoneIsOver(c)' /\ LineIsOpen(c)'
  <2>1. 1..Len(<<>>) = {}
    OBVIOUS
  <2> QED
    BY <1>2, <2>1 DEF DoneIsOver, LineIsOpen
<1>7. BlankIsOneLine(c)' /\ Printed(c)'
  BY <1>2 DEF BlankIsOneLine, Printed, Closed, server
<1>8. ClientInv(c)'
  BY <1>4, <1>5, <1>6, <1>7 DEF ClientInv
<1> QED
  BY <1>1, <1>3, <1>8, ClientStepKeeps DEF TextsTyped

(* A line is printed: it ended at its newline or at the end of buf, or the *)
(* stream did.                                                             *)
LEMMA PrintLineKeeps ==
  ASSUME ExchangeInv, NEW c \in Clients, Printing(c), NEW text \in Texts, text # <<>>,
         NEW s \in Texts, sock' = [sock EXCEPT ![c] = s],
         text \o s = line[c] \o sock[c], PrintLine(c, text), UNCHANGED server,
         \A i \in 1..(Len(text) - 1) : text[i] # LF,
         \/ text[Len(text)] = LF /\ sock[c] # <<>>
         \/ text[Len(text)] # LF /\ Len(text) >= 2
         \/ text[Len(text)] # LF /\ s = <<>> /\ Closed(c)
  PROVE  ExchangeInv'
<1> DEFINE t == taken[c]
           h == head[c]
           b == body[c]
           p == CString(text)
<1>1. /\ TextsTyped /\ ClientInv(c)
      /\ t \in Texts /\ h \in Texts /\ b \in Texts /\ p \in Texts
      /\ h \o p \in Texts /\ b \o p \in Texts
  BY RowIsText, CStringOf DEF ExchangeInv, TextsTyped
<1>2. line' = [line EXCEPT ![c] = <<>>] /\ taken' = [taken EXCEPT ![c] = t \o text]
  BY DEF PrintLine
<1>3. PrintInv(pc[c], t, h, b)
  BY <1>1 DEF ClientInv, Printed
<1>4. pc[c] = "head" => b = <<>>
  BY <1>3 DEF PrintInv, NothingYet, Unended
<1>5. text[Len(text)] = LF /\ pc[c] = "head" => ~ OpenBlank(t)
  BY <1>1 DEF ClientInv, BlankIsOneLine
<1>6. OpenBlank(t \o text) => s = <<>> /\ Closed(c)
  <2> SUFFICES ASSUME OpenBlank(t \o text) PROVE s = <<>> /\ Closed(c)
    OBVIOUS
  <2> DEFINE w == t \o text
             n == Len(text)
             H == Len(t)
  <2>1. /\ H \in Nat /\ n \in Nat /\ n # 0 /\ Len(w) = H + n
        /\ \A j \in 1..n : w[H + j] = text[j]
    <3> HIDE DEF t
    <3>1. t \in Seq(Characters) /\ text \in Seq(Characters)
      BY <1>1 DEF Texts
    <3>2. /\ Len(t) \in Nat /\ Len(text) \in Nat /\ Len(t \o text) = Len(t) + Len(text)
          /\ \A j \in 1..Len(text) : (t \o text)[Len(t) + j] = text[j]
      BY <3>1, ConcatAt
    <3>3. Len(text) # 0
      BY <3>1
    <3> QED
      BY <3>2, <3>3
  <2>2. w[(H + n) - 1] = LF /\ w[H + n] = CR
    BY <2>1 DEF OpenBlank
  <2> HIDE DEF w, n, H
  <2>3. text[n] = CR
    BY <2>1, <2>2
  <2>4. n >= 2 => text[n - 1] = LF
    <3>1. n >= 2 => n - 1 \in 1..n /\ H + (n - 1) = (H + n) - 1
      BY <2>1
    <3> QED
      BY <2>1, <2>2, <3>1
  <2>5. ~ (n >= 2)
    <3>1. n >= 2 => n - 1 \in 1..(n - 1)
      BY <2>1
    <3> QED
      BY <2>4, <3>1 DEF n
  <2> QED
    BY <2>3, <2>5, CharactersAssumption DEF n
<1> HIDE DEF t, h, b, p
<1>7. CASE pc[c] = "head" /\ text # BlankLine
  <2>1. /\ head' = [head EXCEPT ![c] = h \o p] /\ UNCHANGED <<pc, body>>
    BY <1>7 DEF PrintLine, h, p
  <2>2. PrintInv("head", t \o text, h \o p, b)
    BY <1>1, <1>3, <1>4, <1>5, <1>7, HeaderLine DEF p
  <2>3. pc' = [pc EXCEPT ![c] = "head"] /\ body' = [body EXCEPT ![c] = b]
    BY <1>1, <1>7, <2>1 DEF TextsTyped, b
  <2> QED
    BY <1>1, <1>2, <1>6, <2>1, <2>2, <2>3, LineIsTaken DEF t
<1>8. CASE pc[c] = "head" /\ text = BlankLine
  <2>1. pc' = [pc EXCEPT ![c] = "body"] /\ UNCHANGED <<head, body>>
    BY <1>8 DEF PrintLine, Become
  <2>2. text[Len(text)] = LF
    BY <1>8, BlankIsText
  <2>3. PrintInv("body", t \o text, h, b)
    BY <1>1, <1>3, <1>4, <1>5, <1>8, <2>2, BlankIsRead
  <2>4. head' = [head EXCEPT ![c] = h] /\ body' = [body EXCEPT ![c] = b]
    BY <1>1, <2>1 DEF TextsTyped, h, b
  <2> QED
    BY <1>1, <1>2, <2>1, <2>3, <2>4, LineIsTaken DEF t
<1>9. CASE pc[c] = "body"
  <2>1. body' = [body EXCEPT ![c] = b \o p] /\ UNCHANGED <<pc, head>>
    BY <1>9 DEF PrintLine, b, p
  <2>2. PrintInv("body", t \o text, h, b \o p)
    BY <1>1, <1>3, <1>9, BodyLine DEF p
  <2>3. pc' = [pc EXCEPT ![c] = "body"] /\ head' = [head EXCEPT ![c] = h]
    BY <1>1, <1>9, <2>1 DEF TextsTyped, h
  <2> QED
    BY <1>1, <1>2, <2>1, <2>2, <2>3, LineIsTaken DEF t
<1> QED
  BY <1>7, <1>8, <1>9 DEF Printing

(* rio_readlineb of the client moves one character from the socket to its
   line, and clientPrint takes the line when it ends. *)
LEMMA ReadByteKeeps ==
  ASSUME ExchangeInv, NEW c \in Clients, ReadByte(c)
  PROVE  ExchangeInv'
<1> DEFINE text == Append(line[c], Head(sock[c]))
           s == Tail(sock[c])
<1>1. /\ TextsTyped /\ ClientInv(c) /\ line[c] \in Texts /\ sock[c] \in Texts
      /\ sock[c] # <<>> /\ Printing(c) /\ UNCHANGED server
      /\ sock' = [sock EXCEPT ![c] = s]
  BY DEF ReadByte, ExchangeInv, TextsTyped
<1>2. text \in Texts /\ s \in Texts /\ text \o s = line[c] \o sock[c]
  BY <1>1, MoveCharacter DEF Texts
<1>3. /\ Len(text) = Len(line[c]) + 1 /\ Len(line[c]) \in Nat
      /\ text[Len(text)] = Head(sock[c]) /\ text # <<>>
      /\ \A i \in 1..Len(line[c]) : text[i] = line[c][i]
  <2> DEFINE a == line[c]
             o == sock[c]
  <2>1. a \in Seq(Characters) /\ o \in Seq(Characters) /\ o # <<>>
    BY <1>1 DEF Texts
  <2> HIDE DEF a, o
  <2> DEFINE e == Head(o)
  <2>2. e \in Characters
    BY <2>1
  <2> HIDE DEF e
  <2>3. /\ Len(Append(a, e)) = Len(a) + 1 /\ Len(a) \in Nat
        /\ \A i \in 1..Len(a) : Append(a, e)[i] = a[i]
        /\ Append(a, e)[Len(a) + 1] = e
    BY <2>1, <2>2
  <2>4. Append(a, e) # <<>>
    BY <2>3
  <2> QED
    BY <2>3, <2>4 DEF a, o, e
<1>4. \A i \in 1..(Len(text) - 1) : text[i] # LF
  <2>1. \A i \in 1..Len(line[c]) : line[c][i] # LF
    BY <1>1 DEF ClientInv, LineIsOpen
  <2> HIDE DEF text
  <2>2. Len(text) - 1 = Len(line[c])
    BY <1>3
  <2> QED
    BY <1>3, <2>1, <2>2
<1>5. CASE Head(sock[c]) = LF \/ Len(text) = MaxLine - 1
  <2>1. PrintLine(c, text)
    BY <1>5 DEF ReadByte
  <2>2. text[Len(text)] = LF \/ Len(text) >= 2
    <3>1. MaxLine - 1 >= 2
      BY SizesAssumption
    <3> QED
      BY <1>3, <1>5, <3>1
  <2> HIDE DEF text, s
  <2> QED
    BY <1>1, <1>2, <1>3, <1>4, <2>1, <2>2, PrintLineKeeps
<1>6. CASE ~ (Head(sock[c]) = LF \/ Len(text) = MaxLine - 1)
  <2>1. line' = [line EXCEPT ![c] = text] /\ UNCHANGED <<pc, taken, head, body>>
    BY <1>6 DEF ReadByte, output
  <2>2. sock'[c] = s /\ line'[c] = text
    BY <1>1, <2>1 DEF TextsTyped
  <2>3. pc[c] \in {"head", "body"} /\ ~ Left(c)
    BY <1>1 DEF Printing, Left
  <2> HIDE DEF text, s
  <2>4. TextsTyped'
    BY <1>1, <1>2, <2>1 DEF TextsTyped, server
  <2>5. LineIsOpen(c)'
    <3>1. text[Len(text)] # LF
      BY <1>3, <1>6
    <3>2. \A i \in 1..Len(text) : text[i] # LF
      BY <1>3, <1>4, <3>1
    <3> QED
      BY <2>2, <3>2 DEF LineIsOpen
  <2>6. InOrder(c)'
    <3> DEFINE x == taken[c]
               a == line[c]
               o == sock[c]
               rest == FlattenSeq(left[c])
    <3>1. x \in Texts /\ a \in Texts /\ o \in Texts
      BY <1>1 DEF TextsTyped
    <3>2. x' = x /\ rest' = rest /\ Text(c)' = Text(c) /\ (Left(c)' <=> Left(c))
      BY <1>1, <2>1 DEF server, Text, Left
    <3>3. ((x \o a) \o o) \o rest = Text(c)
      BY <1>1, <2>3 DEF ClientInv, InOrder
    <3>4. text \o s = a \o o
      BY <1>2
    <3> HIDE DEF x, a, o, rest
    <3>5. Joined(Joined(x, text), s) = Joined(Joined(x, a), o)
      <4>1. Joined(text, s) = Joined(a, o)
        BY <3>4 DEF Joined
      <4> QED
        BY <1>2, <3>1, <4>1, JoinedTexts
    <3>6. ((x \o text) \o s) \o rest = Text(c)
      BY <3>3, <3>5 DEF Joined
    <3> QED
      BY <2>2, <3>2, <3>6 DEF InOrder, x, rest
  <2>7. BlankIsOneLine(c)' /\ Printed(c)'
    BY <1>1, <2>1 DEF ClientInv, BlankIsOneLine, Printed
  <2>8. NotAnswered(c)' /\ AllWritten(c)' /\ FailedIsClosed(c)'
    BY <1>1, <2>1 DEF ClientInv, NotAnswered, AllWritten, FailedIsClosed, Left, server
  <2>9. DoneIsOver(c)'
    BY <2>1, <2>3 DEF DoneIsOver
  <2>10. ClientInv(c)'
    BY <2>5, <2>6, <2>7, <2>8, <2>9 DEF ClientInv
  <2> QED
    BY <1>1, <2>1, <2>3, <2>4, <2>10, ClientStepKeeps DEF TextsTyped
<1> QED
  BY <1>5, <1>6

(* At the end of the stream the client prints what it has of a last line. *)
LEMMA ReadEofKeeps ==
  ASSUME ExchangeInv, NEW c \in Clients, ReadEof(c)
  PROVE  ExchangeInv'
<1>1. /\ TextsTyped /\ ClientInv(c) /\ line[c] \in Texts /\ Printing(c) /\ Closed(c)
      /\ sock[c] = <<>> /\ UNCHANGED <<server, sock>> /\ ~ Left(c)
      /\ pc[c] \in {"head", "body"}
  BY DEF ReadEof, ExchangeInv, TextsTyped, Printing, Left
<1>2. CASE line[c] # <<>>
  <2>1. PrintLine(c, line[c]) /\ sock' = [sock EXCEPT ![c] = <<>>]
    BY <1>1, <1>2 DEF ReadEof, TextsTyped
  <2>2. /\ \A i \in 1..(Len(line[c]) - 1) : line[c][i] # LF
        /\ line[c][Len(line[c])] # LF
    BY <1>1, <1>2 DEF ClientInv, LineIsOpen, Texts
  <2> DEFINE text == line[c]
             s == <<>>
  <2>3. text \in Texts /\ text # <<>> /\ s \in Texts /\ text \o s = line[c] \o sock[c]
    BY <1>1, <1>2, EmptyText
  <2> HIDE DEF text
  <2> QED
    BY <1>1, <2>1, <2>2, <2>3, PrintLineKeeps DEF text
<1>3. CASE line[c] = <<>>
  <2>1. pc' = [pc EXCEPT ![c] = "done"] /\ UNCHANGED <<line, taken, head, body>>
    BY <1>3 DEF ReadEof, Become, output
  <2>2. pc'[c] = "done"
    BY <1>1, <2>1 DEF TextsTyped
  <2>3. TextsTyped'
    BY <1>1, <2>1 DEF TextsTyped, server, Labels
  <2>4. NotAnswered(c)' /\ AllWritten(c)' /\ InOrder(c)' /\ FailedIsClosed(c)'
    BY <1>1, <2>1, <2>2
    DEF ClientInv, NotAnswered, AllWritten, InOrder, FailedIsClosed, Left, Text, server
  <2>5. DoneIsOver(c)' /\ LineIsOpen(c)' /\ BlankIsOneLine(c)'
    BY <1>1, <1>3, <2>1, <2>2
    DEF ClientInv, DoneIsOver, LineIsOpen, BlankIsOneLine, Closed, server
  <2>6. Printed(c)'
    <3> DEFINE t == taken[c]
               h == head[c]
               b == body[c]
               old == pc[c]
    <3>1. PrintInv(old, t, h, b) /\ old \in {"head", "body"}
      BY <1>1 DEF ClientInv, Printed
    <3> HIDE DEF t, h, b, old
    <3>2. PrintInv("done", t, h, b)
      BY <3>1 DEF PrintInv, NothingYet, HeaderIsShort, PrintedOf, Unended
    <3> QED
      BY <2>1, <2>2, <3>2 DEF Printed, t, h, b
  <2>7. ClientInv(c)'
    BY <2>4, <2>5, <2>6 DEF ClientInv
  <2> QED
    BY <1>1, <2>1, <2>3, <2>7, ClientStepKeeps DEF TextsTyped
<1> QED
  BY <1>2, <1>3

-----------------------------------------------------------------------------
(* The theorems.                                                           *)

(* ExchangeInv holds in every state of every behaviour.                    *)
THEOREM ExchangeInvariant == Spec => []ExchangeInv
<1>1. Init => ExchangeInv
  BY StartsConnecting
<1>2. ExchangeInv /\ [Next]_vars => ExchangeInv'
  <2> SUFFICES ASSUME ExchangeInv, [Next]_vars PROVE ExchangeInv'
    OBVIOUS
  <2>1. ASSUME NEW c \in Clients, WorkerStep(c) PROVE ExchangeInv'
    BY <2>1, ReadRequestKeeps, AnswerKeeps, WriteSomeKeeps, WriteReturnsKeeps,
       WriteToNobodyKeeps, CloseKeeps DEF WorkerStep
  <2>2. ASSUME NEW c \in Clients, ClientStep(c) \/ Leave(c) PROVE ExchangeInv'
    BY <2>2, ConnectAndSendKeep, ReadByteKeeps, ReadEofKeeps, ResetAndLeaveKeep
    DEF ClientStep
  <2>3. CASE UNCHANGED vars
    <3>1. UNCHANGED <<server, client, sock, line>>
      BY <2>3 DEF vars
    <3>2. TextsTyped' /\ DeadForOneWhoLeft'
      BY <3>1 DEF ExchangeInv, TextsTyped, DeadForOneWhoLeft, server, client, output
    <3>3. \A d \in Clients : ClientInv(d)'
      BY <3>1, OthersKeep DEF ExchangeInv, server, client, output
    <3> QED
      BY <3>2, <3>3 DEF ExchangeInv
  <2> QED
    BY <2>1, <2>2, <2>3 DEF Next
<1> QED
  BY <1>1, <1>2, PTL DEF Spec

(* However write, the socket and the client's reads cut a response, its    *)
(* characters reach the client in their order, none lost and none twice.   *)
THEOREM ResponsesStayInOrder == Spec => []ResponseInOrder
<1>1. ExchangeInv => ResponseInOrder
  BY DEF ExchangeInv, ClientInv, InOrder, ResponseInOrder
<1> QED
  BY <1>1, ExchangeInvariant, PTL

(* The last three characters up to i.                                      *)
LEMMA ThreeOf ==
  ASSUME NEW E, NEW t \in Seq(E), NEW i \in 3..Len(t)
  PROVE  LET y == SubSeq(t, i - 2, i) IN
         y[1] = t[i - 2] /\ y[2] = t[i - 1] /\ y[3] = t[i]
<1>1. /\ i \in Int /\ i - 2 \in Int /\ \A k \in (i - 2)..i : t[k] \in E
  OBVIOUS
<1>2. \A j \in 1..(i - (i - 2) + 1) : SubSeq(t, i - 2, i)[j] = t[(i - 2) + j - 1]
  BY <1>1, SubSeqProperties
<1>3. /\ i - (i - 2) + 1 = 3
      /\ (i - 2) + 1 - 1 = i - 2 /\ (i - 2) + 2 - 1 = i - 1 /\ (i - 2) + 3 - 1 = i
  OBVIOUS
<1>4. \A j \in 1..3 : SubSeq(t, i - 2, i)[j] = t[(i - 2) + j - 1]
  BY <1>2, <1>3
<1>5. 1 \in 1..3 /\ 2 \in 1..3 /\ 3 \in 1..3
  OBVIOUS
<1> QED
  BY <1>3, <1>4, <1>5

(* The blank line of the property, character by character.                 *)
LEMMA BlankIs ==
  ASSUME NEW t \in Texts, NEW i \in 3..Len(t),
         SubSeq(t, i - 2, i) = <<LF>> \o BlankLine
  PROVE  BlankAt(t, i)
<1> DEFINE y == SubSeq(t, i - 2, i)
<1>1. y[1] = LF /\ y[2] = CR /\ y[3] = LF
  <2> DEFINE z == <<LF>> \o BlankLine
  <2>1. z[1] = LF /\ z[2] = CR /\ z[3] = LF
    BY DEF BlankLine
  <2>2. y = z
    OBVIOUS
  <2> HIDE DEF y, z
  <2> QED
    BY <2>1, <2>2
<1>2. y[1] = t[i - 2] /\ y[2] = t[i - 1] /\ y[3] = t[i]
  BY ThreeOf DEF Texts
<1> HIDE DEF y
<1> QED
  BY <1>1, <1>2 DEF BlankAt

(* A text that is a header, the blank line and a body, or a header alone,  *)
(* of which no part has a NUL, has none.                                   *)
LEMMA WholeHasNoNul ==
  ASSUME NEW h \in Texts, NEW b \in Texts, NEW t \in Texts, NoNul(h), NoNul(b),
         t = (h \o BlankLine) \o b \/ t = h
  PROVE  NoNul(t)
<1>1. h \o BlankLine \in Texts /\ NoNul(h \o BlankLine)
  BY BlankIsText, NoNulJoined, RowIsText
<1>2. NoNul((h \o BlankLine) \o b)
  <2> DEFINE x == h \o BlankLine
  <2> HIDE DEF x
  <2>1. NoNul(x \o b)
    BY <1>1, NoNulJoined DEF x
  <2> QED
    BY <2>1 DEF x
<1> QED
  BY <1>2

(* A client whose clientPrint came to its end has read the whole response, *)
(* whatever the other clients do that stay; it printed it whole if and     *)
(* only if the response has no NUL, and nothing behind a blank line as     *)
(* header.                                                                 *)
THEOREM PrintedWhole == Spec => []PrintedIsWhole
<1>1. ExchangeInv => PrintedIsWhole
  <2> SUFFICES ASSUME ExchangeInv, NEW c \in Clients, pc[c] = "done",
                      alive \/ \A d \in Clients : pc[d] # "left"
               PROVE  /\ taken[c] = Text(c)
                      /\ NUL \notin Range(Text(c)) <=> Whole(c)
                      /\ \A i \in 3..Len(Text(c)) :
                           SubSeq(Text(c), i - 2, i) = <<LF>> \o BlankLine
                             => Len(head[c]) + 2 <= i
    BY DEF PrintedIsWhole
  <2> DEFINE t == taken[c]
             h == head[c]
             b == body[c]
             x == Text(c)
  <2>1. /\ TextsTyped /\ ClientInv(c) /\ alive /\ ~ Left(c)
        /\ t \in Texts /\ h \in Texts /\ b \in Texts
    BY DEF ExchangeInv, DeadForOneWhoLeft, TextsTyped, Left
  <2>2. worker[c] = "closed" /\ line[c] = <<>> /\ sock[c] = <<>> /\ left[c] = <<>>
    BY <2>1 DEF ClientInv, DoneIsOver, AllWritten, Closed
  <2>3. t = x
    <3>1. ((t \o <<>>) \o <<>>) \o <<>> = x
      BY <2>1, <2>2, FirstText DEF ClientInv, InOrder
    <3> HIDE DEF t, x
    <3> QED
      BY <2>1, <3>1, RowEmpty
  <2>4. PrintInv("done", t, h, b)
    BY <2>1 DEF ClientInv, Printed
  <2>5. Whole(c) <=> ((h \o BlankLine) \o b = x \/ (h = x /\ b = <<>>))
    BY DEF Whole
  <2> HIDE DEF t, h, b, x
  <2>6. NUL \notin Range(x) <=> NoNul(t)
    <3>1. DOMAIN t = 1..Len(t)
      BY <2>1 DEF Texts
    <3> QED
      BY <2>3, <3>1 DEF Range, NoNul
  <2>7. NoNul(t) => Whole(c)
    BY <2>3, <2>4, <2>5 DEF PrintInv, PrintedOf
  <2>8. Whole(c) => NoNul(t)
    BY <2>1, <2>3, <2>4, <2>5, WholeHasNoNul DEF PrintInv, PrintedOf
  <2>9. ASSUME NEW i \in 3..Len(t), SubSeq(t, i - 2, i) = <<LF>> \o BlankLine
        PROVE  Len(h) + 2 <= i
    <3>1. BlankAt(t, i)
      BY <2>1, <2>9, BlankIs
    <3> QED
      BY <2>4, <3>1 DEF PrintInv, HeaderIsShort
  <2> QED
    BY <2>3, <2>6, <2>7, <2>8, <2>9 DEF t, h, x
<1> QED
  BY <1>1, ExchangeInvariant, PTL
=============================================================================
