------------------------------ MODULE Exchange ------------------------------
(***************************************************************************)
(* A request and its response on the wire: src/client.c at one end, a      *)
(* worker that reads the request and writes the response with rio_writen   *)
(* (src/segel.c) at the other, and the server process around the workers,  *)
(* which ends when one of them cannot write.                               *)
(*                                                                         *)
(* The request is two pieces, its first line and the rest; the response is *)
(* the sequence of texts the worker passes to Rio_writen, and a text is a  *)
(* sequence of characters.  A connection that the server closes with bytes *)
(* of the request unread is reset by the kernel: the client may lose what  *)
(* it has not read.  The client's rio_buf and its end of the socket are    *)
(* one queue.                                                              *)
(***************************************************************************)
EXTENDS Naturals, Sequences, SequencesExt

CONSTANTS
  Clients,     \* the processes that run client.c, one connection each
  Responses,   \* the texts a worker may answer with
  CR, LF,      \* the two characters lines end with
  NUL,         \* the character strings end with
  MaxLine,     \* MAXBUF, the size of the buffer the client reads lines into
  SockBuf      \* how much the socket holds on its way to the client

ASSUME SizesAssumption == SockBuf \in Nat \ {0} /\ MaxLine \in Nat \ 0..2
ASSUME CharactersAssumption == CR # LF /\ NUL \notin {CR, LF}
ASSUME ResponsesAssumption ==
  Responses \subseteq Seq(Seq(UNION {Range(t) : t \in UNION {Range(r) : r \in Responses}}))

VARIABLES
  alive,      \* whether the server process runs
  worker,     \* what the worker of each connection does
  answer,     \* the texts it answers with, <<>> before it does
  left,       \* the texts, and the part of a text, it has not written
  method,     \* what each client asks
  pc,         \* what each client does
  sent,       \* how many pieces of its request it sent
  arrived,    \* how many of them its worker has not read
  sock,       \* the characters on their way to the client
  line,       \* the line the client is reading
  taken,      \* history: the text of the lines clientPrint read
  head, body  \* what it printed of them, as header lines and as the body

server == <<alive, worker, answer, left>>
output == <<taken, head, body>>
client == <<method, pc, output>>
vars == <<server, client, sent, arrived, sock, line>>

BlankLine == <<CR, LF>>
Pieces == 2

Init ==
  /\ alive = TRUE
  /\ worker = [c \in Clients |-> "read"]
  /\ answer = [c \in Clients |-> <<>>] /\ left = [c \in Clients |-> <<>>]
  /\ method \in [Clients -> {"GET", "POST"}]
  /\ pc = [c \in Clients |-> "connect"]
  /\ sent = [c \in Clients |-> 0] /\ arrived = [c \in Clients |-> 0]
  /\ sock = [c \in Clients |-> <<>>] /\ line = [c \in Clients |-> <<>>]
  /\ taken = [c \in Clients |-> <<>>]
  /\ head = [c \in Clients |-> <<>>] /\ body = [c \in Clients |-> <<>>]

(* Whether the server's end is closed, by Close or by the end of the       *)
(* process; whether the client's is; whether the connection was reset.     *)
Closed(c) == worker[c] = "closed" \/ ~ alive
Left(c) == pc[c] \in {"failed", "left"}
Reset(c) == Closed(c) /\ arrived[c] > 0

-----------------------------------------------------------------------------
(* The worker                                                              *)

Serves(c, label) == alive /\ worker[c] = label /\ pc[c] # "connect"

(* What requestHandle reads before it answers: all of a GET; of any other  *)
(* request, the first line only.                                           *)
Enough(c) == sent[c] - arrived[c] >= IF method[c] = "GET" THEN Pieces ELSE 1

(* One read of rio_read: what arrived, or the part of it that was there.   *)
ReadRequest(c) ==
  /\ Serves(c, "read")
  /\ ~ Enough(c)
  /\ \E k \in 1..arrived[c] : arrived' = [arrived EXCEPT ![c] = @ - k]
  /\ UNCHANGED <<server, client, sent, sock, line>>

\* MUTANT of Answer: no request's headers are read.
AnswerAtOnce(c) ==
  /\ Serves(c, "read")
  /\ sent[c] - arrived[c] >= 1
  /\ \E r \in Responses :
       answer' = [answer EXCEPT ![c] = r] /\ left' = [left EXCEPT ![c] = r]
  /\ worker' = [worker EXCEPT ![c] = "write"]
  /\ UNCHANGED <<alive, client, sent, arrived, sock, line>>

Answer(c) ==
  /\ Serves(c, "read")
  /\ Enough(c)
  /\ \E r \in Responses :
       answer' = [answer EXCEPT ![c] = r] /\ left' = [left EXCEPT ![c] = r]
  /\ worker' = [worker EXCEPT ![c] = "write"]
  /\ UNCHANGED <<alive, client, sent, arrived, sock, line>>

(* The client left before its first line was complete: requestHandle       *)
(* returns.  (After it, requestReadhdrs reads on; see RioReader.)          *)
GiveUp(c) ==
  /\ Serves(c, "read")
  /\ sent[c] = 0 /\ Left(c)
  /\ worker' = [worker EXCEPT ![c] = "closed"]
  /\ UNCHANGED <<alive, answer, left, client, sent, arrived, sock, line>>

(* MUTANT of WriteSome: rio_writen advances its pointer by all it asked    *)
(* write for.                                                              *)
WriteShort(c) ==
  /\ Serves(c, "write")
  /\ left[c] # <<>>
  /\ ~ Left(c)
  /\ \E k \in 1..Len(Head(left[c])) :
       /\ Len(sock[c]) + k <= SockBuf
       /\ sock' = [sock EXCEPT ![c] = @ \o SubSeq(Head(left[c]), 1, k)]
       /\ left' = [left EXCEPT ![c] = <<<<>>>> \o Tail(@)]
  /\ UNCHANGED <<alive, worker, answer, client, sent, arrived, line>>

(* One turn of the loop of rio_writen: write takes what there is room for. *)
WriteSome(c) ==
  /\ Serves(c, "write")
  /\ left[c] # <<>>
  /\ ~ Left(c)
  /\ \E k \in 1..Len(Head(left[c])) :
       /\ Len(sock[c]) + k <= SockBuf
       /\ sock' = [sock EXCEPT ![c] = @ \o SubSeq(Head(left[c]), 1, k)]
       /\ left' = [left EXCEPT ![c] =
                     <<SubSeq(Head(@), k + 1, Len(Head(@)))>> \o Tail(@)]
  /\ UNCHANGED <<alive, worker, answer, client, sent, arrived, line>>

(* rio_writen returns when nothing is left of its text, an empty one (the  *)
(* body of a POST before the first entry) at once.                         *)
WriteReturns(c) ==
  /\ Serves(c, "write")
  /\ left[c] # <<>>
  /\ Head(left[c]) = <<>>
  /\ left' = [left EXCEPT ![c] = Tail(@)]
  /\ UNCHANGED <<alive, worker, answer, client, sent, arrived, sock, line>>

(* write to a client that left: the kernel still takes the bytes, or the   *)
(* call fails (SIGPIPE, or Rio_writen's unix_error) and the process ends.  *)
WriteToNobody(c) ==
  /\ Serves(c, "write")
  /\ left[c] # <<>> /\ Head(left[c]) # <<>>
  /\ Left(c)
  /\ \/ left' = [left EXCEPT ![c] = <<<<>>>> \o Tail(@)] /\ UNCHANGED alive
     \/ alive' = FALSE /\ UNCHANGED left
  /\ UNCHANGED <<worker, answer, client, sent, arrived, sock, line>>

\* MUTANT of CloseConn: the worker closes after its first text.
CloseEarly(c) ==
  /\ Serves(c, "write")
  /\ Len(left[c]) < Len(answer[c])
  /\ worker' = [worker EXCEPT ![c] = "closed"]
  /\ UNCHANGED <<alive, answer, left, client, sent, arrived, sock, line>>

CloseConn(c) ==
  /\ Serves(c, "write")
  /\ left[c] = <<>>
  /\ worker' = [worker EXCEPT ![c] = "closed"]
  /\ UNCHANGED <<alive, answer, left, client, sent, arrived, sock, line>>

-----------------------------------------------------------------------------
(* The client                                                              *)

Become(c, label) == pc' = [pc EXCEPT ![c] = label]

Connect(c) ==
  /\ pc[c] = "connect"
  /\ Become(c, IF alive THEN "send" ELSE "failed")
  /\ UNCHANGED <<server, method, output, sent, arrived, sock, line>>

(* clientSend.  A write to a closed connection may still be taken.         *)
Send(c) ==
  /\ pc[c] = "send"
  /\ \/ /\ sent' = [sent EXCEPT ![c] = @ + 1]
        /\ arrived' = [arrived EXCEPT ![c] = @ + 1]
        /\ Become(c, IF sent[c] + 1 = Pieces THEN "head" ELSE "send")
     \/ /\ Closed(c)
        /\ Become(c, "failed")
        /\ UNCHANGED <<sent, arrived>>
  /\ UNCHANGED <<server, method, output, sock, line>>

Printing(c) == pc[c] \in {"head", "body"}

(* What printf("%s") prints of a line.                                     *)
CString(text) ==
  LET ends == {i \in DOMAIN text : text[i] = NUL} IN
    IF ends = {} THEN text ELSE SubSeq(text, 1, Min(ends) - 1)

\* MUTANT of PrintLine: the line that ends the header is printed too.
PrintLineAndBlank(c, text) ==
  /\ line' = [line EXCEPT ![c] = <<>>]
  /\ taken' = [taken EXCEPT ![c] = @ \o text]
  /\ \/ /\ pc[c] = "head"
        /\ Become(c, IF text = BlankLine THEN "body" ELSE "head")
        /\ head' = [head EXCEPT ![c] = @ \o CString(text)]
        /\ UNCHANGED body
     \/ /\ pc[c] = "body"
        /\ body' = [body EXCEPT ![c] = @ \o CString(text)]
        /\ UNCHANGED <<pc, head>>

(* clientPrint with the line Rio_readlineb returned: the header goes on    *)
(* until the blank line, which is not printed, the rest is the body.       *)
PrintLine(c, text) ==
  /\ line' = [line EXCEPT ![c] = <<>>]
  /\ taken' = [taken EXCEPT ![c] = @ \o text]
  /\ \/ /\ pc[c] = "head" /\ text # BlankLine
        /\ head' = [head EXCEPT ![c] = @ \o CString(text)]
        /\ UNCHANGED <<pc, body>>
     \/ /\ pc[c] = "head" /\ text = BlankLine
        /\ Become(c, "body")
        /\ UNCHANGED <<head, body>>
     \/ /\ pc[c] = "body"
        /\ body' = [body EXCEPT ![c] = @ \o CString(text)]
        /\ UNCHANGED <<pc, head>>

(* One turn of rio_readlineb: a line ends at its newline, or when it fills *)
(* buf but for the terminator.                                             *)
ReadByte(c) ==
  /\ Printing(c)
  /\ sock[c] # <<>>
  /\ sock' = [sock EXCEPT ![c] = Tail(@)]
  /\ LET text == Append(line[c], Head(sock[c])) IN
       IF Head(sock[c]) = LF \/ Len(text) = MaxLine - 1
       THEN PrintLine(c, text)
       ELSE line' = [line EXCEPT ![c] = text] /\ UNCHANGED <<pc, output>>
  /\ UNCHANGED <<server, method, sent, arrived>>

(* The end of the stream ends a line, or clientPrint.                      *)
ReadEof(c) ==
  /\ Printing(c)
  /\ sock[c] = <<>> /\ Closed(c)
  /\ IF line[c] # <<>> THEN PrintLine(c, line[c])
     ELSE Become(c, "done") /\ UNCHANGED <<line, output>>
  /\ UNCHANGED <<server, method, sent, arrived, sock>>

(* read fails on a connection that was reset: the wrapper ends the client. *)
ReadReset(c) ==
  /\ Printing(c)
  /\ Reset(c)
  /\ Become(c, "failed")
  /\ UNCHANGED <<server, method, output, sent, arrived, sock, line>>

(* The user interrupts the client.                                         *)
Leave(c) ==
  /\ pc[c] \in {"send", "head", "body"}
  /\ Become(c, "left")
  /\ sock' = [sock EXCEPT ![c] = <<>>]
  /\ UNCHANGED <<server, method, output, sent, arrived, line>>

-----------------------------------------------------------------------------
WorkerStep(c) ==
  \/ ReadRequest(c) \/ Answer(c) \/ GiveUp(c)
  \/ WriteSome(c) \/ WriteReturns(c) \/ WriteToNobody(c) \/ CloseConn(c)

ClientStep(c) ==
  Connect(c) \/ Send(c) \/ ReadByte(c) \/ ReadEof(c) \/ ReadReset(c)

Next == \E c \in Clients : WorkerStep(c) \/ ClientStep(c) \/ Leave(c)

Spec == Init /\ [][Next]_vars

(* Both processes run; nobody has to interrupt a client.                   *)
FairSpec == Spec /\ \A c \in Clients : WF_vars(WorkerStep(c)) /\ WF_vars(ClientStep(c))

-----------------------------------------------------------------------------
(* Properties                                                              *)

Text(c) == FlattenSeq(answer[c])

(* However write, the socket and the client's reads cut the response: what *)
(* the client took, the line it is reading, what is in the socket and what *)
(* rio_writen has still to write are the response, in this order.          *)
ResponseInOrder ==
  \A c \in Clients : ~ Left(c) =>
    taken[c] \o line[c] \o sock[c] \o FlattenSeq(left[c]) = Text(c)

(* A client whose clientPrint came to its end has read the whole response, *)
(* unless the server process ended for another client that left: not for a *)
(* slow one, nor for one it reset.  What it printed as the header, the     *)
(* blank line and what it printed as the body are the response again, if   *)
(* and only if the response has no NUL; and no part of what follows a      *)
(* blank line is printed as header.                                        *)
Whole(c) ==
  \/ head[c] \o BlankLine \o body[c] = Text(c)
  \/ head[c] = Text(c) /\ body[c] = <<>>
PrintedIsWhole ==
  \A c \in Clients : pc[c] = "done" /\ (alive \/ \A d \in Clients : pc[d] # "left") =>
    /\ taken[c] = Text(c)
    /\ NUL \notin Range(Text(c)) <=> Whole(c)
    /\ \A i \in 3..Len(Text(c)) :
         SubSeq(Text(c), i - 2, i) = <<LF>> \o BlankLine => Len(head[c]) + 2 <= i

(* As long as no client leaves, one that sends a GET prints its response:  *)
(* requestReadhdrs has read the whole request, so Close resets nothing.    *)
GetIsPrinted ==
  \A c \in Clients :
    method[c] = "GET" /\ [](\A d \in Clients : pc[d] # "left") => <>(pc[c] = "done")
=============================================================================
