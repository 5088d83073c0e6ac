----------------------------- MODULE RioReader ------------------------------
(***************************************************************************)
(* How a worker reads a request: the buffered line reader of src/segel.c   *)
(* (rio_read, rio_readlineb) under requestHandle and requestReadhdrs of    *)
(* src/request.c.  The client's bytes reach the socket in pieces, each     *)
(* read(2) returns some of what arrived, and the lines are put together    *)
(* byte by byte.  read is never interrupted: the server handles no signal. *)
(***************************************************************************)
EXTENDS Naturals, Sequences, SequencesExt

CONSTANTS
  Streams,   \* what a client may send, before it closes or falls silent
  CR, LF,    \* the two characters lines end with
  BufSize,   \* RIO_BUFSIZE, the size of rio_buf
  MaxLine    \* MAXLINE, the size of the buffers lines are read into

ASSUME CharactersAssumption == CR # LF
ASSUME SizesAssumption == BufSize \in Nat \ {0} /\ MaxLine \in Nat \ (0..2)
ASSUME StreamsAssumption == \A s \in Streams : s \in Seq(Range(s))

VARIABLES
  stream,    \* what this client sends
  todo,      \* what it has not sent yet
  net,       \* what arrived and was not read
  eof,       \* whether the client closed
  rio_buf,   \* the unread part of the internal buffer; rio_cnt is its length
  line,      \* the part of the line rio_readlineb has put into usrbuf
  buf,       \* the string in the buf of requestReadhdrs
  pc,        \* what the worker is reading
  lines,     \* the lines returned so far
  polls      \* read(2) calls that returned 0, modulo 2: tells a step from none

client == <<stream, todo, eof>>
vars == <<client, net, rio_buf, line, buf, pc, lines, polls>>

BlankLine == <<CR, LF>>

Init ==
  /\ stream \in Streams /\ todo = stream
  /\ net = <<>> /\ eof = FALSE
  /\ rio_buf = <<>> /\ line = <<>> /\ buf = <<>> /\ lines = <<>>
  /\ pc = "requestLine" /\ polls = 0

Reading == pc \in {"requestLine", "headers"}

-----------------------------------------------------------------------------
(* The client and the network                                              *)

Send ==
  \E k \in 1..Len(todo) :
    /\ net' = net \o SubSeq(todo, 1, k)
    /\ todo' = SubSeq(todo, k + 1, Len(todo))
    /\ UNCHANGED <<stream, eof, rio_buf, line, buf, pc, lines, polls>>

CloseClient ==
  /\ todo = <<>> /\ ~ eof
  /\ eof' = TRUE
  /\ UNCHANGED <<stream, todo, net, rio_buf, line, buf, pc, lines, polls>>

-----------------------------------------------------------------------------
(* The worker                                                              *)

\* MUTANT of Refill: rio_read waits until its buffer can be filled.
RefillWhole ==
  /\ Reading
  /\ rio_buf = <<>>
  /\ Len(net) >= BufSize
  /\ rio_buf' = SubSeq(net, 1, BufSize)
  /\ net' = SubSeq(net, BufSize + 1, Len(net))
  /\ UNCHANGED <<client, line, buf, pc, lines, polls>>

(* read(2) inside rio_read: some of what arrived.                          *)
Refill ==
  /\ Reading
  /\ rio_buf = <<>>
  /\ \E k \in 1..Len(net) :
       /\ k <= BufSize
       /\ rio_buf' = SubSeq(net, 1, k)
       /\ net' = SubSeq(net, k + 1, Len(net))
  /\ UNCHANGED <<client, line, buf, pc, lines, polls>>

\* MUTANT of Return: the headers end with an empty line, not with CR LF.
ReturnEmptyLine(text) ==
  /\ lines' = Append(lines, text)
  /\ line' = <<>>
  /\ \/ /\ pc = "requestLine"
        /\ \/ pc' = "headers" /\ buf' \in {<<>>, BlankLine}
           \/ pc' = "parsed" /\ UNCHANGED buf
     \/ /\ pc = "headers"
        /\ buf' = text
        /\ pc' = IF text = <<LF>> THEN "parsed" ELSE "headers"

(* rio_readlineb returns a line.  Of the request line only the method      *)
(* matters: a GET goes on with requestReadhdrs, whose buf is an            *)
(* uninitialised array, anything else reads no further.                    *)
Return(text) ==
  /\ lines' = Append(lines, text)
  /\ line' = <<>>
  /\ \/ /\ pc = "requestLine"
        /\ \/ pc' = "headers" /\ buf' \in {<<>>, BlankLine}
           \/ pc' = "parsed" /\ UNCHANGED buf
     \/ /\ pc = "headers"
        /\ buf' = text
        /\ pc' = IF text = BlankLine THEN "parsed" ELSE "headers"

\* MUTANT of ReadByte: the byte that finds usrbuf full is dropped.
ReadByteDropping ==
  /\ Reading
  /\ rio_buf # <<>>
  /\ rio_buf' = Tail(rio_buf)
  /\ LET text == Append(line, Head(rio_buf)) IN
       IF Head(rio_buf) = LF
       THEN Return(text)
       ELSE IF Len(text) = MaxLine - 1
       THEN Return(line)
       ELSE line' = text /\ UNCHANGED <<buf, pc, lines>>
  /\ UNCHANGED <<client, net, polls>>

\* MUTANT of ReadByte: no room is kept for the terminator.
ReadByteOverrun ==
  /\ Reading
  /\ rio_buf # <<>>
  /\ rio_buf' = Tail(rio_buf)
  /\ LET text == Append(line, Head(rio_buf)) IN
       IF Head(rio_buf) = LF \/ Len(text) = MaxLine
       THEN Return(text)
       ELSE line' = text /\ UNCHANGED <<buf, pc, lines>>
  /\ UNCHANGED <<client, net, polls>>

(* One turn of the loop of rio_readlineb.  The line ends at a newline, or  *)
(* when usrbuf is full but for the terminator.                             *)
ReadByte ==
  /\ Reading
  /\ rio_buf # <<>>
  /\ rio_buf' = Tail(rio_buf)
  /\ LET text == Append(line, Head(rio_buf)) IN
       IF Head(rio_buf) = LF \/ Len(text) = MaxLine - 1
       THEN Return(text)
       ELSE line' = text /\ UNCHANGED <<buf, pc, lines>>
  /\ UNCHANGED <<client, net, polls>>

AtEof == Reading /\ rio_buf = <<>> /\ net = <<>> /\ eof

(* A line the client did not finish is returned as it is.                  *)
ReadEofInLine ==
  /\ AtEof
  /\ line # <<>>
  /\ Return(line)
  /\ polls' = 1 - polls
  /\ UNCHANGED <<client, net, rio_buf>>

(* rio_readlineb returns 0 and leaves buf alone.  requestHandle gives up;  *)
(* requestReadhdrs does not look at the result, and reads again unless buf *)
(* happens to be the blank line.                                           *)
ReadEof ==
  /\ AtEof
  /\ line = <<>>
  /\ pc' = IF pc = "requestLine" THEN "ignored"
           ELSE IF buf = BlankLine THEN "parsed" ELSE "headers"
  /\ polls' = 1 - polls
  /\ UNCHANGED <<client, net, rio_buf, line, buf, lines>>

Worker == Refill \/ ReadByte \/ ReadEofInLine \/ ReadEof
Next == Send \/ CloseClient \/ Worker

Spec == Init /\ [][Next]_vars

(* The worker runs and the client sends what it has; it need not close.    *)
FairSpec == Spec /\ WF_vars(Worker) /\ WF_vars(Send)

-----------------------------------------------------------------------------
(* Properties                                                              *)

Line(text) == \A i \in 1..(Len(text) - 1) : text[i] # LF

(* However the network cuts the stream and wherever rio_buf is refilled in *)
(* the middle of a line: no byte is lost, repeated or moved.               *)
BytesConserved ==
  FlattenSeq(lines) \o line \o rio_buf \o net \o todo = stream

(* A line has its newline at its end; one without is cut off by the size of*)
(* the buffer or by the end of the stream, and nothing overruns the buffer.*)
LinesAreLines ==
  /\ \A i \in DOMAIN lines :
       /\ lines[i] # <<>> /\ Line(lines[i]) /\ Len(lines[i]) < MaxLine
       /\ \/ lines[i][Len(lines[i])] = LF
          \/ Len(lines[i]) = MaxLine - 1
          \/ i = Len(lines) /\ eof /\ net = <<>> /\ rio_buf = <<>>
  /\ Len(line) < MaxLine - 1

(* The headers end with the first blank line the client sends, although    *)
(* rio_buf may hold bytes that follow it: not a byte behind it is read.    *)
(* They end before it only where a line that filled usrbuf was cut right   *)
(* before its CR LF: the rest of that line is taken for a blank one.       *)
BlankAt(i) == SubSeq(stream, i - 2, i) = <<LF, CR, LF>>
BytesRead == Len(FlattenSeq(lines) \o line)
CutLine(text) == Len(text) = MaxLine - 1 /\ text[Len(text)] # LF
HeadersEndAtBlankLine ==
  /\ \A i \in 3..Len(stream) : BlankAt(i) => BytesRead <= i
  /\ pc = "parsed" /\ Len(lines) > 1 =>
       \/ BytesRead > 2 /\ BlankAt(BytesRead)
       \/ CutLine(lines[Len(lines) - 1])

(* A request is read once it is complete: a worker does not wait for more  *)
(* bytes, or for the client to close, after the blank line arrived.        *)
Complete == \E i \in 3..Len(stream) : BlankAt(i)
CompleteRequestIsRead == Complete => <>~Reading

(* test.c: "No spin-locks / busy waiting".  After the client closed the    *)
(* worker stops reading from it.                                           *)
NoBusyWaiting == (eof /\ net = <<>>) ~> ~Reading
=============================================================================
