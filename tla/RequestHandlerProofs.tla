------------------------ MODULE RequestHandlerProofs ------------------------
(***************************************************************************)
(* Proofs about RequestHandler, for every pool of workers, every set of    *)
(* requests and every number of connections; about RequestHistory; and,    *)
(* last, about WebServer, which the handler's invariant carries over to.   *)
(* Only the last part uses what WebServer assumes of the pool and of the   *)
(* capacity.                                                               *)
(***************************************************************************)
EXTENDS RequestHistory, WebServer, FiniteSetTheorems, TLAPS

-----------------------------------------------------------------------------
(* Texts: where the Stat lines of a response are.                          *)

(* Connections are numbers, and no connection is none of them. *)
LEMMA ConnNumbers == NoConn \notin Conns /\ Conns \subseteq Nat /\ \A c \in Conns : c # NoConn
BY MaxConnsAssumption DEF Conns, NoConn

(* The lines of a response that do not depend on the thread. *)
LEMMA ConstLines ==
  /\ \A code \in Nat : Status(code) \in Lines
  /\ Server \in Lines /\ Length \in Lines /\ Type \in Lines /\ Blank \in Lines
  /\ Page \in Lines
BY DEF Lines, Status, Server, Length, Type, Blank, Page

(* The Stat lines of a thread that has a connection are a line. *)
LEMMA StatLineTyped ==
  ASSUME NEW w \in Workers, NEW s \in Counters, conn[w] \in Conns
  PROVE  StatLine(w, s) \in Lines
BY DEF Lines, StatLine

(* Which lines are Stat lines.                                             *)
LEMMA NoStatLines ==
  /\ \A code : Status(code).line # "Stat"
  /\ Server.line # "Stat" /\ Length.line # "Stat" /\ Type.line # "Stat"
  /\ Blank.line # "Stat" /\ Page.line # "Stat"
BY DEF Status, Server, Length, Type, Blank, Page

(* The Stat lines name the thread, its connection and its counters. *)
LEMMA StatLineIs ==
  ASSUME NEW w, NEW s
  PROVE  /\ StatLine(w, s).line = "Stat" /\ StatLine(w, s).id = w
         /\ StatLine(w, s).conn = conn[w] /\ StatLine(w, s).of = s
BY DEF StatLine

(* append_stats writes the Stat lines and the blank line that ends the header. *)
LEMMA AppendStatsIs ==
  ASSUME NEW w, NEW s
  PROVE  AppendStats(w, s) = <<StatLine(w, s), Blank>>
BY DEF AppendStats, StatLine

(* The first Stat lines of a text are the only ones StatPos can choose.    *)
LEMMA FirstStatIs ==
  ASSUME NEW text \in Seq(Lines), NEW l, FirstStat(text, l)
  PROVE  /\ FirstStatPos(text) \in DOMAIN text /\ text[FirstStatPos(text)] = l
         /\ l.line = "Stat"
         /\ \A j \in 1..(FirstStatPos(text) - 1) : ~ IsStat(text, j)
<1>1. PICK k \in DOMAIN text : /\ text[k] = l /\ l.line = "Stat"
                               /\ \A j \in 1..(k - 1) : ~ IsStat(text, j)
  BY DEF FirstStat
<1>2. IsStat(text, k)
  BY <1>1 DEF IsStat
<1> DEFINE First(i) == IsStat(text, i) /\ \A j \in 1..(i - 1) : ~ IsStat(text, j)
<1>3. First(k)
  BY <1>1, <1>2
<1>4. FirstStatPos(text) = CHOOSE i \in DOMAIN text : First(i)
  BY DEF FirstStatPos
<1>5. FirstStatPos(text) \in DOMAIN text /\ First(FirstStatPos(text))
  <2> HIDE DEF First
  <2> QED
    BY <1>3, <1>4
<1>6. \A i \in DOMAIN text : First(i) => i = k
  BY <1>3 DEF FirstStat
<1> QED
  BY <1>1, <1>5, <1>6

(* Text that follows does not change the first Stat lines.                 *)
LEMMA FirstStatStays ==
  ASSUME NEW t \in Seq(Lines), NEW u \in Seq(Lines), NEW l, FirstStat(t, l)
  PROVE  FirstStat(t \o u, l)
<1>1. PICK k \in DOMAIN t : /\ t[k] = l /\ l.line = "Stat"
                            /\ \A j \in 1..(k - 1) : ~ IsStat(t, j)
  BY DEF FirstStat
<1>2. /\ t \o u \in Seq(Lines) /\ k \in DOMAIN (t \o u)
      /\ \A j \in 1..k : j \in DOMAIN t /\ (t \o u)[j] = t[j]
  OBVIOUS
<1>3. \A j \in 1..(k - 1) : ~ IsStat(t \o u, j)
  BY <1>1, <1>2 DEF IsStat
<1> QED
  BY <1>1, <1>2, <1>3 DEF FirstStat

(* A text with a page still has it between other texts. *)
LEMMA PageStays ==
  ASSUME NEW t \in Seq(Lines), NEW u \in Seq(Lines), HasPage(t) \/ HasPage(u)
  PROVE  HasPage(t \o u)
<1>1. CASE HasPage(t)
  BY <1>1 DEF HasPage
<1>2. CASE HasPage(u)
  <2>1. PICK j \in DOMAIN u : u[j] = Page
    BY <1>2 DEF HasPage
  <2>2. Len(t) + j \in DOMAIN (t \o u) /\ (t \o u)[Len(t) + j] = Page
    BY <2>1
  <2> QED
    BY <2>2 DEF HasPage
<1> QED
  BY <1>1, <1>2

(* Every response starts with head lines and its own Stat lines.           *)
LEMMA HeadThenStats ==
  ASSUME NEW head \in Seq(Lines), NEW l \in Lines, l.line = "Stat",
         \A i \in DOMAIN head : head[i].line # "Stat"
  PROVE  head \o <<l, Blank>> \in Seq(Lines) /\ FirstStat(head \o <<l, Blank>>, l)
<1> DEFINE k == Len(head) + 1
           t == head \o <<l, Blank>>
<1>1. <<l, Blank>> \in Seq(Lines)
  BY ConstLines
<1>2. t \in Seq(Lines) /\ k \in DOMAIN t /\ t[k] = l
  BY <1>1
<1>3. \A j \in 1..(k - 1) : j \in DOMAIN head /\ t[j] = head[j]
  BY <1>1
<1>4. \A j \in 1..(k - 1) : ~ IsStat(t, j)
  BY <1>3 DEF IsStat
<1> QED
  BY <1>2, <1>4 DEF FirstStat

(* The response of requestError begins with the thread's own counters and has
   a page. *)
LEMMA ErrorTextIs ==
  ASSUME NEW w \in Workers, NEW s \in Counters, conn[w] \in Conns, NEW code \in Nat
  PROVE  /\ ErrorText(code, w, s) \in Seq(Lines)
         /\ FirstStat(ErrorText(code, w, s), StatLine(w, s))
         /\ HasPage(ErrorText(code, w, s))
<1> DEFINE head == <<Status(code), Type, Length>>
           l == StatLine(w, s)
<1>1. head \in Seq(Lines) /\ \A i \in DOMAIN head : head[i].line # "Stat"
  BY ConstLines, NoStatLines
<1>2. l \in Lines /\ l.line = "Stat"
  BY StatLineTyped, StatLineIs
<1>3. head \o <<l, Blank>> \in Seq(Lines) /\ FirstStat(head \o <<l, Blank>>, l)
  <2> HIDE DEF head, l
  <2> QED
    BY <1>1, <1>2, HeadThenStats
<1>4. <<Page>> \in Seq(Lines) /\ HasPage(<<Page>>)
  BY ConstLines DEF HasPage
<1>5. ErrorText(code, w, s) = (head \o <<l, Blank>>) \o <<Page>>
  BY AppendStatsIs DEF ErrorText
<1> HIDE DEF head, l
<1>6. (head \o <<l, Blank>>) \o <<Page>> \in Seq(Lines)
  BY <1>3, <1>4
<1>7. FirstStat((head \o <<l, Blank>>) \o <<Page>>, l) /\ HasPage((head \o <<l, Blank>>) \o <<Page>>)
  BY <1>3, <1>4, FirstStatStays, PageStays
<1> QED
  BY <1>5, <1>6, <1>7 DEF l

(* A static response, and with a copy of the log a POST's, begins with the
   thread's own counters; the static one has its page behind its header. *)
LEMMA PageTextIs ==
  ASSUME NEW w \in Workers, stats[w] \in Counters, conn[w] \in Conns
  PROVE  /\ StaticText(w) \in Seq(Lines)
         /\ FirstStat(StaticText(w), StatLine(w, stats[w]))
         /\ HasPage(StaticText(w))
         /\ StaticHead(w) \in Seq(Lines)
         /\ FirstStat(StaticHead(w), StatLine(w, stats[w]))
         /\ body[w] \in Seq(Lines) =>
              PostText(w) \in Seq(Lines) /\ FirstStat(PostText(w), StatLine(w, stats[w]))
<1> DEFINE head == <<Status(200), Server, Length, Type>>
           l == StatLine(w, stats[w])
<1>1. head \in Seq(Lines) /\ \A i \in DOMAIN head : head[i].line # "Stat"
  BY ConstLines, NoStatLines
<1>2. l \in Lines /\ l.line = "Stat"
  BY StatLineTyped, StatLineIs
<1>3. head \o <<l, Blank>> \in Seq(Lines) /\ FirstStat(head \o <<l, Blank>>, l)
  <2> HIDE DEF head, l
  <2> QED
    BY <1>1, <1>2, HeadThenStats
<1>4. <<Page>> \in Seq(Lines) /\ HasPage(<<Page>>)
  BY ConstLines DEF HasPage
<1>5. /\ StaticText(w) = (head \o <<l, Blank>>) \o <<Page>>
      /\ PostText(w) = (head \o <<l, Blank>>) \o body[w]
      /\ StaticHead(w) = head \o <<l, Blank>>
  BY AppendStatsIs DEF StaticHead, StaticText, PostText
<1> HIDE DEF head, l
<1>6. /\ (head \o <<l, Blank>>) \o <<Page>> \in Seq(Lines)
      /\ body[w] \in Seq(Lines) => (head \o <<l, Blank>>) \o body[w] \in Seq(Lines)
  BY <1>3, <1>4
<1>7. FirstStat((head \o <<l, Blank>>) \o <<Page>>, l) /\ HasPage((head \o <<l, Blank>>) \o <<Page>>)
  BY <1>3, <1>4, FirstStatStays, PageStays
<1>8. body[w] \in Seq(Lines) => FirstStat((head \o <<l, Blank>>) \o body[w], l)
  BY <1>3, FirstStatStays
<1> QED
  BY <1>3, <1>5, <1>6, <1>7, <1>8 DEF l

(* The part of a CGI response that the server writes begins with the thread's
   own counters. *)
LEMMA DynamicTextIs ==
  ASSUME NEW w \in Workers, stats[w] \in Counters, conn[w] \in Conns
  PROVE  /\ DynamicText(w) \in Seq(Lines)
         /\ FirstStat(DynamicText(w), StatLine(w, stats[w]))
<1> DEFINE head == <<Status(200), Server>>
           l == StatLine(w, stats[w])
<1>1. head \in Seq(Lines) /\ \A i \in DOMAIN head : head[i].line # "Stat"
  BY ConstLines, NoStatLines
<1>2. l \in Lines /\ l.line = "Stat"
  BY StatLineTyped, StatLineIs
<1>3. head \o <<l, Blank>> \in Seq(Lines) /\ FirstStat(head \o <<l, Blank>>, l)
  <2> HIDE DEF head, l
  <2> QED
    BY <1>1, <1>2, HeadThenStats
<1> QED
  BY <1>3, AppendStatsIs DEF DynamicText

(* The part of a CGI response that the script writes has the page. *)
LEMMA ScriptTextIs == ScriptText \in Seq(Lines) /\ HasPage(ScriptText)
<1>1. ScriptText \in Seq(Lines)
  BY ConstLines DEF ScriptText
<1>2. 4 \in DOMAIN ScriptText /\ ScriptText[4] = Page
  BY DEF ScriptText
<1> QED
  BY <1>1, <1>2 DEF HasPage

(* The empty text changes nothing in front of another. *)
LEMMA EmptyText == <<>> \in Seq(Lines) /\ \A t \in Seq(Lines) : <<>> \o t = t
OBVIOUS

-----------------------------------------------------------------------------
(* What a step of one worker leaves alone.                                 *)

WorkerStep_(w) == Dequeue(w) \/ Handle(w) \/ CloseConn(w)

(* The state of the other workers and of the connections they have.        *)
LEMMA OthersStay ==
  ASSUME TypeOK, TextsTyped, NEW w \in Workers, WorkerStep_(w)
  PROVE  /\ \A v \in Workers \ {w} :
              /\ pc'[v] = pc[v] /\ conn'[v] = conn[v] /\ stats'[v] = stats[v]
              /\ stats_buf'[v] = stats_buf[v] /\ body'[v] = body[v]
         /\ \A c \in Conns \ {conn[w]} :
              /\ request'[c] = request[c] /\ response'[c] = response[c]
              /\ script'[c] = script[c]
<1> USE DEF TypeOK, TextsTyped, At, Goto, Read, Write, Count, local, main, client
<1>1. CASE Dequeue(w)
  BY <1>1 DEF Dequeue
<1>2. CASE CloseConn(w)
  BY <1>2 DEF CloseConn
<1>3. CASE HandleNothing(w)
  BY <1>3 DEF HandleNothing
<1>4. CASE HandleCut(w)
  BY <1>4 DEF HandleCut
<1>5. CASE HandleError(w)
  BY <1>5 DEF HandleError
<1>6. CASE HandleStatic(w)
  BY <1>6 DEF HandleStatic
<1>7. CASE HandleDynamic(w)
  BY <1>7 DEF HandleDynamic
<1>8. CASE HandlePost(w)
  BY <1>8 DEF HandlePost
<1>9. CASE ServeStatic(w)
  BY <1>9 DEF ServeStatic
<1>10. CASE OpenFails(w)
  BY <1>10 DEF OpenFails
<1>11. CASE ServeEmpty(w)
  BY <1>11 DEF ServeEmpty
<1>12. CASE ServeDynamic(w)
  BY <1>12 DEF ServeDynamic
<1>13. CASE RunScript(w)
  BY <1>13 DEF RunScript
<1>14. CASE AddToLog(w)
  BY <1>14 DEF AddToLog
<1>15. CASE GetLog(w)
  BY <1>15 DEF GetLog
<1>16. CASE ServePost(w)
  BY <1>16 DEF ServePost
<1>17. CASE HandleSilent(w)
  BY <1>17 DEF HandleSilent
<1>18. CASE WriteBlocks(w)
  BY <1>18 DEF WriteBlocks
<1> QED
  BY <1>1, <1>2, <1>3, <1>4, <1>5, <1>6, <1>7, <1>8, <1>9, <1>10, <1>11,
     <1>12, <1>13, <1>14, <1>15, <1>16, <1>17, <1>18 DEF WorkerStep_, Handle

(* Where a worker is before and after a step of it, and what it has.       *)
LEMMA HandleKeeps ==
  ASSUME TypeOK, NEW w \in Workers, Handle(w)
  PROVE  /\ conn' = conn /\ taken' = taken /\ closed' = closed
         /\ pc[w] \notin {"idle", "close", "lost"} /\ conn[w] \in Conns
         /\ (pc'[w] # "idle" /\ pc'[w] # "read")
         /\ pc[w] # "read" => request' = request
         /\ pc[w] # "script" => script' = script
<1> USE DEF TypeOK, At, Goto, Read, Write, Count, local, main, client
<1>1. CASE HandleNothing(w)
  BY <1>1 DEF HandleNothing
<1>2. CASE HandleCut(w)
  BY <1>2 DEF HandleCut
<1>3. CASE HandleError(w)
  BY <1>3 DEF HandleError
<1>4. CASE HandleStatic(w)
  BY <1>4 DEF HandleStatic
<1>5. CASE HandleDynamic(w)
  BY <1>5 DEF HandleDynamic
<1>6. CASE HandlePost(w)
  BY <1>6 DEF HandlePost
<1>7. CASE ServeStatic(w)
  BY <1>7 DEF ServeStatic
<1>8. CASE OpenFails(w)
  BY <1>8 DEF OpenFails
<1>9. CASE ServeEmpty(w)
  BY <1>9 DEF ServeEmpty
<1>10. CASE ServeDynamic(w)
  BY <1>10 DEF ServeDynamic
<1>11. CASE RunScript(w)
  BY <1>11 DEF RunScript
<1>12. CASE AddToLog(w)
  BY <1>12 DEF AddToLog
<1>13. CASE GetLog(w)
  BY <1>13 DEF GetLog
<1>14. CASE ServePost(w)
  BY <1>14 DEF ServePost
<1>15. CASE HandleSilent(w)
  BY <1>15 DEF HandleSilent
<1>16. CASE WriteBlocks(w)
  BY <1>16 DEF WriteBlocks
<1> QED
  BY <1>1, <1>2, <1>3, <1>4, <1>5, <1>6, <1>7, <1>8, <1>9, <1>10, <1>11,
     <1>12, <1>13, <1>14, <1>15, <1>16 DEF Handle

(* A connection a worker does not have stays as it is; a closed one is one.*)
LEMMA ClosedStay ==
  ASSUME HandlerInv, NEW w \in Workers, WorkerStep_(w), NEW c \in closed
  PROVE  /\ c \in closed' /\ c \in Conns /\ c # conn[w]
         /\ request'[c] = request[c] /\ response'[c] = response[c]
         /\ script'[c] = script[c]
         /\ StatOf(c)' = StatOf(c) /\ StatPos(c)' = StatPos(c)
<1>1. c \in Conns /\ c # conn[w]
  <2>1. closed \subseteq 1..taken /\ taken \in 0..MaxConns
    BY DEF HandlerInv, TypeOK
  <2>2. c \in Conns
    BY <2>1, MaxConnsAssumption DEF Conns
  <2> QED
    BY <2>2, ConnNumbers DEF HandlerInv, ConnsOwned
<1>2. request'[c] = request[c] /\ response'[c] = response[c] /\ script'[c] = script[c]
  BY <1>1, OthersStay DEF HandlerInv
<1>3. c \in closed'
  BY HandleKeeps DEF HandlerInv, WorkerStep_, Dequeue, CloseConn, client
<1> QED
  BY <1>1, <1>2, <1>3 DEF StatOf, StatPos

(* A worker's step leaves every dequeued connection with one worker. *)
LEMMA OwnedStep ==
  ASSUME HandlerInv, NEW w \in Workers, WorkerStep_(w)
  PROVE  ConnsOwned'
<1> USE DEF HandlerInv
<1>1. CASE Dequeue(w)
  <2>1. /\ conn[w] = NoConn /\ conn' = [conn EXCEPT ![w] = taken + 1]
        /\ taken \in Nat /\ taken' = taken + 1 /\ closed' = closed /\ taken + 1 \in Conns
        /\ request' = request /\ response' = response
    BY <1>1, MaxConnsAssumption DEF Dequeue, At, client, TypeOK, Conns
  <2>2. closed \subseteq 1..taken /\ \A v \in Workers : conn[v] # NoConn => conn[v] \in 1..taken
    BY DEF TypeOK, ConnsOwned
  <2>3. \A v \in Workers : conn'[v] # NoConn => conn'[v] \in (1..taken') \ closed'
    BY <2>1, <2>2 DEF ConnsOwned, TypeOK
  <2>4. \A u, v \in Workers : u # v /\ conn'[u] # NoConn => conn'[u] # conn'[v]
    BY <2>1, <2>2, ConnNumbers DEF ConnsOwned, TypeOK
  <2>5. \A c \in 1..taken' : c \in closed' \/ \E v \in Workers : conn'[v] = c
    <3>1. conn'[w] = taken + 1
      BY <2>1 DEF TypeOK
    <3>2. ASSUME NEW c \in 1..taken, c \notin closed
          PROVE  \E v \in Workers : conn'[v] = c
      <4>1. PICK v \in Workers : conn[v] = c
        BY <3>2 DEF ConnsOwned
      <4>2. conn'[v] = c
        BY <2>1, <4>1 DEF TypeOK, NoConn
      <4> QED
        BY <4>2
    <3> QED
      BY <2>1, <3>1, <3>2
  <2>6. \A c \in Conns : c > taken' => request'[c] = "unread" /\ response'[c] = <<>>
    BY <2>1 DEF ConnsOwned, Conns
  <2> QED
    BY <2>3, <2>4, <2>5, <2>6 DEF ConnsOwned
<1>2. CASE Handle(w)
  <2>1. conn' = conn /\ taken' = taken /\ closed' = closed
    BY <1>2, HandleKeeps
  <2>2. \A c \in Conns : c > taken => c # conn[w]
    BY ConnNumbers DEF ConnsOwned, TypeOK
  <2>3. \A c \in Conns : c > taken' => request'[c] = "unread" /\ response'[c] = <<>>
    BY <1>2, <2>1, <2>2, OthersStay DEF ConnsOwned, WorkerStep_
  <2> QED
    BY <2>1, <2>3 DEF ConnsOwned
<1>3. CASE CloseConn(w)
  <2>1. /\ conn' = [conn EXCEPT ![w] = NoConn] /\ closed' = closed \cup {conn[w]}
        /\ taken' = taken /\ request' = request /\ response' = response
    BY <1>3 DEF CloseConn, main
  <2>2. \A v \in Workers : conn'[v] = IF v = w THEN NoConn ELSE conn[v]
    BY <2>1 DEF TypeOK
  <2>3. \A c \in 1..taken' : c \in closed' \/ \E v \in Workers : conn'[v] = c
    BY <2>1, <2>2 DEF ConnsOwned
  <2>4. \A v \in Workers : conn'[v] # NoConn => conn'[v] \in (1..taken') \ closed'
    BY <2>1, <2>2 DEF ConnsOwned
  <2> QED
    BY <2>1, <2>2, <2>3, <2>4 DEF ConnsOwned
<1> QED
  BY <1>1, <1>2, <1>3 DEF WorkerStep_

(* Where a step takes a worker, and what it read.                          *)
Moves(w, from, to, requests) ==
  pc[w] = from /\ pc'[w] = to /\ request'[conn[w]] \in requests

(* The branches of requestHandle: where a worker goes next, and with which
   requests. *)
LEMMA HandleMoves ==
  ASSUME HandlerInv, NEW w \in Workers, Handle(w)
  PROVE  \/ Moves(w, "read", "close", {"nothing", "missing", "forbidden", "other"})
         \/ Moves(w, "read", "lost", {"silent", "cut"})
         \/ Moves(w, "read", "serveStatic", StaticFiles)
         \/ Moves(w, "read", "serveDynamic", {"cgi"})
         \/ Moves(w, "read", "getLog", {"post"})
         \/ Moves(w, "serveStatic", "addToLog", {"static", "empty"})
         \/ Moves(w, "serveStatic", "serveStatic", {"gone"})
         \/ Moves(w, "serveStatic", "lost", {"deaf"})
         \/ Moves(w, "serveDynamic", "script", {"cgi"})
         \/ Moves(w, "script", "addToLog", {"cgi"})
         \/ Moves(w, "addToLog", "close", {"static", "empty", "cgi"})
         \/ Moves(w, "getLog", "servePost", {"post"})
         \/ Moves(w, "servePost", "close", {"post"})
<1> USE DEF HandlerInv, TypeOK, At, Goto, Moves, Read
<1>1. conn[w] \in Conns
  BY HandleKeeps
<1>2. CASE HandleNothing(w) \/ HandleSilent(w) \/ HandleCut(w)
  BY <1>1, <1>2 DEF HandleNothing, HandleSilent, HandleCut
<1>3. CASE HandleError(w)
  BY <1>1, <1>3 DEF HandleError
<1>4. CASE HandleStatic(w) \/ HandleDynamic(w) \/ HandlePost(w)
  BY <1>1, <1>4 DEF HandleStatic, HandleDynamic, HandlePost
<1>5. CASE ServeStatic(w) \/ WriteBlocks(w) \/ OpenFails(w) \/ ServeEmpty(w)
  BY <1>5 DEF ServeStatic, WriteBlocks, OpenFails, ServeEmpty, client
<1>6. CASE ServeDynamic(w) \/ RunScript(w)
  BY <1>6 DEF ServeDynamic, RunScript, AtRequest, At_
<1>7. CASE AddToLog(w) \/ GetLog(w) \/ ServePost(w)
  BY <1>7 DEF AddToLog, GetLog, ServePost, client, AtRequest, At_
<1> QED
  BY <1>2, <1>3, <1>4, <1>5, <1>6, <1>7 DEF Handle

(* Handle reads only requests that clients send.                           *)
LEMMA ReadsRequests ==
  ASSUME HandlerInv, NEW w \in Workers, Handle(w)
  PROVE  request'[conn[w]] \in Requests
<1> USE DEF HandlerInv, TypeOK
<1>1. conn[w] \in Conns
  BY HandleKeeps
<1>2. CASE pc[w] = "read"
  <2>1. CASE HandleNothing(w) \/ HandleSilent(w) \/ HandleCut(w) \/ HandleError(w)
    BY <1>1, <2>1 DEF HandleNothing, HandleSilent, HandleCut, HandleError, Read
  <2>2. CASE HandleStatic(w) \/ HandleDynamic(w) \/ HandlePost(w)
    BY <1>1, <2>2 DEF HandleStatic, HandleDynamic, HandlePost, Read
  <2> QED
    BY <1>2, <2>1, <2>2 DEF Handle, ServeStatic, WriteBlocks, OpenFails, ServeEmpty,
                            ServeDynamic, RunScript, AddToLog, GetLog, ServePost, At
<1>3. CASE pc[w] # "read"
  <2>1. request' = request
    BY <1>3, HandleKeeps
  <2>2. request[conn[w]] # "unread"
    BY <1>3, HandleKeeps DEF AtRequest, At_, StaticFiles
  <2> QED
    BY <1>1, <2>1, <2>2
<1> QED
  BY <1>2, <1>3

(* A script ran only for a dynamic request, and not before WaitPid returned
   for it. *)
LEMMA ScriptsStep ==
  ASSUME HandlerInv, NEW w \in Workers, WorkerStep_(w)
  PROVE  /\ \A v \in Workers : pc'[v] \notin {"addToLog", "close"} =>
              conn'[v] = NoConn \/ script'[conn'[v]] = "none"
         /\ \A c \in Conns : script'[c] # "none" => request'[c] = "cgi"
<1> USE DEF HandlerInv
<1>1. \A c \in Conns : script[c] # "none" => request[c] = "cgi"
  BY DEF AtRequest
<1>2. \A v \in Workers : pc[v] \notin {"addToLog", "close"} =>
        conn[v] = NoConn \/ script[conn[v]] = "none"
  BY DEF AtRequest
<1>3. ASSUME NEW v \in Workers \ {w}, pc'[v] \notin {"addToLog", "close"}
      PROVE  conn'[v] = NoConn \/ script'[conn'[v]] = "none"
  <2>1. pc'[v] = pc[v] /\ conn'[v] = conn[v]
    BY OthersStay
  <2>2. conn[v] # NoConn => conn[v] \in Conns \ {conn[w]}
    BY DEF TypeOK, ConnsOwned
  <2> QED
    BY <1>2, <1>3, <2>1, <2>2, OthersStay
<1>4. \A c \in Conns \ {conn[w]} : script'[c] # "none" => request'[c] = "cgi"
  BY <1>1, OthersStay
<1>5. CASE Dequeue(w)
  <2>1. /\ conn'[w] = taken + 1 /\ request' = request /\ script' = script
        /\ taken + 1 \in Conns /\ taken + 1 > taken
    BY <1>5, MaxConnsAssumption DEF Dequeue, client, TypeOK, Conns
  <2>2. request[taken + 1] = "unread"
    BY <2>1 DEF ConnsOwned
  <2> QED
    BY <1>1, <1>3, <2>1, <2>2
<1>6. CASE Handle(w)
  <2>1. conn' = conn /\ conn[w] \in Conns /\ (pc[w] # "script" => script' = script)
    BY <1>6, HandleKeeps
  <2>2. /\ pc[w] = "script" => pc'[w] = "addToLog" /\ request'[conn[w]] = "cgi"
        /\ pc[w] = "addToLog" => pc'[w] = "close" /\ request' = request
        /\ pc[w] # "close"
    BY <1>6, HandleMoves, HandleKeeps DEF Moves
  <2>3. pc[w] \notin {"addToLog", "close"} => script[conn[w]] = "none"
    BY <1>2, <2>1, ConnNumbers
  <2> QED
    BY <1>1, <1>3, <1>4, <2>1, <2>2, <2>3
<1>7. CASE CloseConn(w)
  <2>1. conn'[w] = NoConn /\ request' = request /\ script' = script
    BY <1>7 DEF CloseConn, TypeOK
  <2> QED
    BY <1>1, <1>3, <2>1
<1> QED
  BY <1>5, <1>6, <1>7 DEF WorkerStep_

(* The place of a worker and the request in its hands fit after every step. *)
LEMMA AtStep ==
  ASSUME HandlerInv, NEW w \in Workers, WorkerStep_(w)
  PROVE  AtRequest'
<1> USE DEF HandlerInv
<1>1. \A v \in Workers \ {w} : /\ pc'[v] = pc[v] /\ conn'[v] = conn[v]
                               /\ pc[v] # "idle" => request'[conn[v]] = request[conn[v]]
  <2> SUFFICES ASSUME NEW v \in Workers \ {w}
               PROVE  /\ pc'[v] = pc[v] /\ conn'[v] = conn[v]
                      /\ pc[v] # "idle" => request'[conn[v]] = request[conn[v]]
    OBVIOUS
  <2>1. pc[v] # "idle" => conn[v] \in Conns \ {conn[w]}
    BY DEF TypeOK, ConnsOwned
  <2> QED
    BY <2>1, OthersStay
<1>2. \A c \in closed : request'[c] = request[c]
  BY ClosedStay
<1>3. CASE Dequeue(w)
  <2>1. /\ pc'[w] = "read" /\ conn'[w] = taken + 1 /\ request' = request /\ closed' = closed
        /\ taken + 1 \in Conns /\ taken + 1 > taken
    BY <1>3, MaxConnsAssumption DEF Dequeue, At, Goto, client, TypeOK, Conns
  <2>2. request[taken + 1] = "unread"
    BY <2>1 DEF ConnsOwned
  <2> QED
    BY <1>1, <2>1, <2>2, ScriptsStep DEF AtRequest, At_
<1>4. CASE Handle(w)
  <2>1. conn' = conn /\ closed' = closed
    BY <1>4, HandleKeeps
  <2>2. request'[conn[w]] \in Requests
    BY <1>4, ReadsRequests
  <2>3. \A c \in closed' : request'[c] \in Requests \ (NeverDone \cup {"gone"})
    BY <1>2, <2>1 DEF AtRequest
  <2> QED
    BY <1>1, <1>4, <2>1, <2>2, <2>3, HandleMoves, ScriptsStep
       DEF AtRequest, At_, Moves, NeverDone, StaticFiles
<1>5. CASE CloseConn(w)
  <2>1. /\ pc[w] = "close" /\ pc'[w] = "idle" /\ request' = request
        /\ closed' = closed \cup {conn[w]}
    BY <1>5 DEF CloseConn, At, Goto, TypeOK
  <2>2. \A c \in closed' : request'[c] \in Requests \ (NeverDone \cup {"gone"})
    BY <2>1 DEF AtRequest, At_
  <2> QED
    BY <1>1, <2>1, <2>2, ScriptsStep DEF AtRequest, At_
<1> QED
  BY <1>3, <1>4, <1>5 DEF WorkerStep_

-----------------------------------------------------------------------------
(* The counters.                                                           *)

(* Sets of connections are finite and counted. *)
LEMMA ConnsFinite ==
  /\ IsFiniteSet(Conns) /\ Cardinality(Conns) = MaxConns
  /\ \A S \in SUBSET Conns : IsFiniteSet(S) /\ Cardinality(S) \in 0..MaxConns
<1>1. IsFiniteSet(Conns) /\ Cardinality(Conns) = MaxConns
  BY MaxConnsAssumption, FS_Interval DEF Conns
<1>2. ASSUME NEW S \in SUBSET Conns
      PROVE  IsFiniteSet(S) /\ Cardinality(S) \in 0..MaxConns
  <2>1. IsFiniteSet(S) /\ Cardinality(S) <= Cardinality(Conns)
    BY <1>1, FS_Subset
  <2> QED
    BY <1>1, <2>1, FS_CardinalityType, MaxConnsAssumption
<1> QED
  BY <1>1, <1>2

(* One connection more in a set is one more in its count. *)
LEMMA OneMore ==
  ASSUME NEW S \in SUBSET Conns, NEW c \in Conns, c \notin S
  PROVE  Cardinality(S \cup {c}) = Cardinality(S) + 1
BY ConnsFinite, FS_AddElement

(* What was closed, and what a thread has answered, are connections. *)
LEMMA AnsweredAreConns ==
  ASSUME HandlerInv
  PROVE  closed \subseteq Conns /\ \A w \in Workers : AnsweredBy(w) \subseteq Conns
<1>1. taken \in 0..MaxConns /\ closed \subseteq 1..taken
  BY DEF HandlerInv, TypeOK
<1>2. closed \subseteq Conns
  BY <1>1, MaxConnsAssumption DEF Conns
<1> QED
  BY <1>2 DEF AnsweredBy, Answered

(* The requests requestHandle does not count: it never has their first line. *)
Unread == {"nothing", "silent"}

(* What a worker has counted between its requests, and during one.         *)
LEMMA CountedIs ==
  ASSUME HandlerInv, NEW w \in Workers
  PROVE  /\ pc[w] \in {"idle", "read"} => Counted(w) = AnsweredBy(w)
         /\ pc[w] \notin {"idle", "read"} =>
              Counted(w) = AnsweredBy(w) \cup {c \in {conn[w]} : request[c] \notin Unread}
         /\ pc[w] # "idle" => conn[w] \notin AnsweredBy(w)
<1>1. pc[w] # "idle" => conn[w] \in Conns /\ conn[w] \notin closed
  BY DEF HandlerInv, TypeOK, ConnsOwned
<1>2. pc[w] # "idle" => conn[w] \notin AnsweredBy(w)
  BY <1>1 DEF AnsweredBy, Answered
<1>3. \A c : c \in Counted(w) <=>
              \/ c \in AnsweredBy(w)
              \/ c = conn[w] /\ pc[w] \notin {"idle", "read"} /\ request[c] \notin Unread
  BY <1>1 DEF Counted, Unread
<1>4. pc[w] \in {"idle", "read"} => Counted(w) = AnsweredBy(w)
  BY <1>3
<1>5. ASSUME pc[w] \notin {"idle", "read"}
      PROVE  Counted(w) = AnsweredBy(w) \cup {c \in {conn[w]} : request[c] \notin Unread}
  BY <1>3, <1>5
<1> QED
  BY <1>2, <1>4, <1>5

(* A request that is over was answered with the counters of its worker.    *)
LEMMA OverStats ==
  ASSUME HandlerInv, NEW w \in Workers, pc[w] = "close", request[conn[w]] # "nothing"
  PROVE  StatOf(conn[w]) = StatLine(w, stats[w])
<1>1. conn[w] \in Conns /\ FirstStat(response[conn[w]], StatLine(w, stats[w]))
  <2>1. ~ Silent(w)
    BY DEF Silent
  <2> QED
    BY <2>1 DEF HandlerInv, Responded, TypeOK
<1>2. response[conn[w]] \in Seq(Lines)
  BY <1>1 DEF HandlerInv, TextsTyped
<1> QED
  BY <1>1, <1>2, FirstStatIs DEF StatOf, StatPos

(* Only CloseConn answers, and only for the worker that does it.           *)
LEMMA AnsweredStep ==
  ASSUME HandlerInv, NEW w \in Workers, WorkerStep_(w), NEW v \in Workers
  PROVE  AnsweredBy(v)' = IF CloseConn(w) /\ v = w /\ request[conn[w]] # "nothing"
                          THEN AnsweredBy(v) \cup {conn[w]} ELSE AnsweredBy(v)
<1> USE DEF HandlerInv
<1>1. \A c \in closed : request'[c] = request[c] /\ StatOf(c)' = StatOf(c)
  BY ClosedStay
<1>2. CASE ~ CloseConn(w)
  <2>1. closed' = closed
    BY <1>2, HandleKeeps DEF WorkerStep_, Dequeue, client
  <2>2. \A c : c \in AnsweredBy(v)' <=> c \in AnsweredBy(v)
    BY <1>1, <2>1 DEF AnsweredBy, Answered
  <2> QED
    BY <1>2, <2>2
<1>3. CASE CloseConn(w)
  <2>1. /\ closed' = closed \cup {conn[w]} /\ request' = request /\ response' = response
        /\ pc[w] = "close"
    BY <1>3 DEF CloseConn, At
  <2> PICK d : d = conn[w]
    OBVIOUS
  <2>2. StatOf(d)' = StatOf(d)
    BY <2>1 DEF StatOf, StatPos
  <2>3. request[d] # "nothing" => StatOf(d).id = w
    BY <2>1, OverStats, StatLineIs
  <2>4. \A c : c \in AnsweredBy(v)' <=>
                 \/ c \in AnsweredBy(v)
                 \/ v = w /\ request[conn[w]] # "nothing" /\ c = conn[w]
    BY <1>1, <2>1, <2>2, <2>3 DEF AnsweredBy, Answered
  <2> QED
    BY <1>3, <2>4
<1> QED
  BY <1>2, <1>3

(* What a worker that does not step has counted.                           *)
LEMMA CountedElsewhere ==
  ASSUME HandlerInv, NEW w \in Workers, WorkerStep_(w), NEW v \in Workers \ {w}
  PROVE  /\ Counted(v)' = Counted(v)
         /\ \A kinds : CountedAs(v, kinds)' = CountedAs(v, kinds)
         /\ InHand(v, {"serveStatic"})' = InHand(v, {"serveStatic"})
<1>1. pc'[v] = pc[v] /\ conn'[v] = conn[v]
  BY OthersStay DEF HandlerInv
<1>2. \A c \in Conns : c = conn[v] => request'[c] = request[c]
  BY OthersStay, ConnNumbers DEF HandlerInv, ConnsOwned
<1>3. AnsweredBy(v)' = AnsweredBy(v)
  BY AnsweredStep
<1>4. \A c \in AnsweredBy(v) : request'[c] = request[c]
  BY ClosedStay DEF AnsweredBy, Answered
<1>5. \A c : c \in Counted(v)' <=> c \in Counted(v)
  BY <1>1, <1>2, <1>3 DEF Counted
<1>6. \A c \in Counted(v) : request'[c] = request[c]
  BY <1>2, <1>4 DEF Counted
<1>7. ASSUME NEW kinds PROVE CountedAs(v, kinds)' = CountedAs(v, kinds)
  BY <1>5, <1>6 DEF CountedAs
<1>8. InHand(v, {"serveStatic"})' = InHand(v, {"serveStatic"})
  BY <1>1 DEF InHand
<1> QED
  BY <1>5, <1>7, <1>8

(* What the worker that steps has counted: it counts a request when it     *)
(* reads it, under the kind of the request.                                *)
LEMMA CountedHere ==
  ASSUME HandlerInv, NEW w \in Workers, WorkerStep_(w)
  PROVE  /\ Counted(w) \in SUBSET Conns
         /\ IF pc[w] = "read" /\ request'[conn[w]] \notin Unread
            THEN /\ conn[w] \in Conns \ Counted(w)
                 /\ Counted(w)' = Counted(w) \cup {conn[w]}
            ELSE Counted(w)' = Counted(w)
         /\ \A c \in Counted(w) : request'[c] = request[c]
<1>1. AnsweredBy(w) \subseteq Conns
  BY AnsweredAreConns
<1>2. \A c \in AnsweredBy(w) : request'[c] = request[c]
  BY ClosedStay DEF AnsweredBy, Answered
<1>3. Counted(w) \in SUBSET Conns
  BY <1>1 DEF Counted
<1>4. CASE Dequeue(w)
  <2>1. /\ pc[w] = "idle" /\ pc'[w] = "read" /\ request' = request
        /\ AnsweredBy(w)' = AnsweredBy(w)
    BY <1>4, AnsweredStep DEF Dequeue, At, Goto, client, HandlerInv, TypeOK, CloseConn
  <2>2. \A c : c \in Counted(w)' <=> c \in Counted(w)
    BY <2>1 DEF Counted
  <2> QED
    BY <1>3, <2>1, <2>2
<1>5. CASE Handle(w)
  <2>1. /\ AnsweredBy(w)' = AnsweredBy(w) /\ conn' = conn /\ conn[w] \in Conns
        /\ pc[w] # "idle" /\ pc'[w] \notin {"idle", "read"}
        /\ pc[w] # "read" => request' = request
    BY <1>5, AnsweredStep, HandleKeeps DEF HandlerInv, CloseConn, At
  <2>2. conn[w] \notin AnsweredBy(w)
    BY <2>1, CountedIs
  <2>3. CASE pc[w] = "read"
    <3>1. Counted(w) = AnsweredBy(w)
      BY <2>3, CountedIs
    <3>2. \A c : c \in Counted(w)' <=>
                   c \in AnsweredBy(w) \/ (c = conn[w] /\ request'[c] \notin Unread)
      BY <2>1 DEF Counted, Unread
    <3>3. CASE request'[conn[w]] \notin Unread
      <4>1. \A c : c \in Counted(w)' <=> c \in Counted(w) \cup {conn[w]}
        BY <3>1, <3>2, <3>3
      <4> QED
        BY <1>2, <1>3, <2>1, <2>2, <2>3, <3>1, <3>3, <4>1
    <3>4. CASE request'[conn[w]] \in Unread
      <4>1. \A c : c \in Counted(w)' <=> c \in Counted(w)
        BY <3>1, <3>2, <3>4
      <4> QED
        BY <1>2, <1>3, <3>1, <3>4, <4>1
    <3> QED
      BY <3>3, <3>4
  <2>4. CASE pc[w] # "read"
    <3>1. \A c : c \in Counted(w)' <=> c \in Counted(w)
      BY <2>1, <2>4 DEF Counted
    <3> QED
      BY <1>3, <2>1, <2>4, <3>1
  <2> QED
    BY <2>3, <2>4
<1>6. CASE CloseConn(w)
  <2>1. /\ pc[w] = "close" /\ pc'[w] = "idle" /\ request' = request
        /\ AnsweredBy(w)' = IF request[conn[w]] # "nothing"
                            THEN AnsweredBy(w) \cup {conn[w]} ELSE AnsweredBy(w)
    BY <1>6, AnsweredStep DEF CloseConn, At, Goto, HandlerInv, TypeOK
  <2>2. conn[w] \in Conns /\ request[conn[w]] # "silent"
    BY <2>1 DEF HandlerInv, TypeOK, AtRequest, At_, NeverDone
  <2>3. \A c : c \in Counted(w)' <=> c \in Counted(w)
    BY <2>1, <2>2 DEF Counted
  <2> QED
    BY <1>3, <2>1, <2>3
<1> QED
  BY <1>4, <1>5, <1>6 DEF WorkerStep_

(* The connections a thread has counted as some kinds of request grow exactly
   when it counts one of them, by that one. *)
LEMMA CountedAsHere ==
  ASSUME HandlerInv, NEW w \in Workers, WorkerStep_(w), NEW kinds, kinds \cap Unread = {}
  PROVE  /\ CountedAs(w, kinds) \in SUBSET Conns
         /\ IF pc[w] = "read" /\ request'[conn[w]] \in kinds
            THEN /\ conn[w] \in Conns \ CountedAs(w, kinds)
                 /\ CountedAs(w, kinds)' = CountedAs(w, kinds) \cup {conn[w]}
            ELSE CountedAs(w, kinds)' = CountedAs(w, kinds)
<1>1. \A c : c \in CountedAs(w, kinds)' <=>
               \/ c \in CountedAs(w, kinds)
               \/ pc[w] = "read" /\ request'[c] \in kinds /\ c = conn[w]
  BY CountedHere DEF CountedAs
<1>2. Counted(w) \in SUBSET Conns /\ CountedAs(w, kinds) \subseteq Counted(w)
  BY CountedHere DEF CountedAs
<1>3. pc[w] = "read" /\ request'[conn[w]] \in kinds => conn[w] \in Conns \ Counted(w)
  BY CountedHere
<1> QED
  BY <1>1, <1>2, <1>3

(* What a step does to the counters of its worker.                         *)
LEMMA StatsStep ==
  ASSUME HandlerInv, NEW w \in Workers, WorkerStep_(w)
  PROVE  /\ stats' \in [Workers -> [total : Int, static : Int, dynamic : Int, post : Int]]
         /\ IF pc[w] = "read"
            THEN LET r == request'[conn[w]] IN
                 /\ stats'[w].total = IF r \in Unread THEN stats[w].total ELSE stats[w].total + 1
                 /\ stats'[w].static = IF r \in StaticFiles
                                       THEN stats[w].static + 1 ELSE stats[w].static
                 /\ stats'[w].dynamic = IF r = "cgi" THEN stats[w].dynamic + 1
                                        ELSE stats[w].dynamic
                 /\ stats'[w].post = IF r = "post" THEN stats[w].post + 1 ELSE stats[w].post
            ELSE /\ stats'[w].total = stats[w].total /\ stats'[w].dynamic = stats[w].dynamic
                 /\ stats'[w].post = stats[w].post
                 /\ stats'[w].static = IF pc[w] = "serveStatic" /\ request[conn[w]] = "empty"
                                       THEN stats[w].static - 1 ELSE stats[w].static
<1> DEFINE Loose == [total : Int, static : Int, dynamic : Int, post : Int]
<1>1. stats \in [Workers -> Counters] /\ stats \in [Workers -> Loose]
  <2>1. stats \in [Workers -> Counters] /\ Counters \subseteq Loose
    BY MaxConnsAssumption DEF HandlerInv, TypeOK, Counters
  <2> QED
    BY <2>1
<1>2. ASSUME NEW ks \in SUBSET {"total", "static", "dynamic", "post"}, Count(w, ks)
      PROVE  /\ stats' \in [Workers -> Loose]
             /\ stats'[w].total = IF "total" \in ks THEN stats[w].total + 1 ELSE stats[w].total
             /\ stats'[w].static = IF "static" \in ks THEN stats[w].static + 1 ELSE stats[w].static
             /\ stats'[w].dynamic = IF "dynamic" \in ks THEN stats[w].dynamic + 1
                                    ELSE stats[w].dynamic
             /\ stats'[w].post = IF "post" \in ks THEN stats[w].post + 1 ELSE stats[w].post
  <2> DEFINE s == [k \in DOMAIN stats[w] |-> IF k \in ks THEN stats[w][k] + 1 ELSE stats[w][k]]
  <2>1. stats' = [stats EXCEPT ![w] = s]
    BY <1>2 DEF Count
  <2>2. /\ DOMAIN stats[w] = {"total", "static", "dynamic", "post"}
        /\ stats[w].total \in Int /\ stats[w].static \in Int
        /\ stats[w].dynamic \in Int /\ stats[w].post \in Int
    BY <1>1
  <2>3. s \in Loose
    BY <2>2
  <2>4. stats'[w] = s /\ stats' \in [Workers -> Loose]
    BY <1>1, <2>1, <2>3
  <2> QED
    BY <2>2, <2>4
<1>3. CASE pc[w] = "read"
  <2>1. conn[w] \in Conns /\ request \in [Conns -> Requests \cup {"unread"}]
    BY <1>3, ConnNumbers DEF HandlerInv, TypeOK
  <2>2. CASE HandleNothing(w) \/ HandleSilent(w)
    BY <1>1, <1>3, <2>1, <2>2 DEF HandleNothing, HandleSilent, Read, local, Unread, StaticFiles
  <2>3. CASE HandleCut(w) \/ HandleError(w)
    <3>1. Count(w, {"total"}) /\ request'[conn[w]] \in {"cut", "missing", "forbidden", "other"}
      BY <2>1, <2>3 DEF HandleCut, HandleError, Read
    <3> QED
      BY <1>2, <1>3, <3>1 DEF Unread, StaticFiles
  <2>4. CASE HandleStatic(w)
    <3>1. Count(w, {"total", "static"}) /\ request'[conn[w]] \in StaticFiles
      BY <2>1, <2>4 DEF HandleStatic, Read
    <3> QED
      BY <1>2, <1>3, <3>1 DEF Unread, StaticFiles
  <2>5. CASE HandleDynamic(w)
    <3>1. Count(w, {"total", "dynamic"}) /\ request'[conn[w]] = "cgi"
      BY <2>1, <2>5 DEF HandleDynamic, Read
    <3> QED
      BY <1>2, <1>3, <3>1 DEF Unread, StaticFiles
  <2>6. CASE HandlePost(w)
    <3>1. Count(w, {"total", "post"}) /\ request'[conn[w]] = "post"
      BY <2>1, <2>6 DEF HandlePost, Read
    <3> QED
      BY <1>2, <1>3, <3>1 DEF Unread, StaticFiles
  <2> QED
    BY <1>3, <2>2, <2>3, <2>4, <2>5, <2>6 DEF WorkerStep_, Handle, Dequeue, CloseConn,
       ServeStatic, WriteBlocks, OpenFails, ServeEmpty, ServeDynamic, RunScript, AddToLog,
       GetLog, ServePost, At
<1>4. CASE pc[w] # "read"
  <2>1. CASE ServeEmpty(w)
    <3>1. stats' = [stats EXCEPT ![w] = [stats[w] EXCEPT !.static = @ - 1]]
      BY <2>1 DEF ServeEmpty
    <3>2. pc[w] = "serveStatic" /\ request[conn[w]] = "empty"
      BY <2>1 DEF ServeEmpty, At
    <3>3. stats[w] \in Loose
      BY <1>1
    <3> DEFINE s == [stats[w] EXCEPT !.static = @ - 1]
    <3>4. /\ s \in Loose /\ s.total = stats[w].total /\ s.static = stats[w].static - 1
          /\ s.dynamic = stats[w].dynamic /\ s.post = stats[w].post
      BY <3>3
    <3>5. stats'[w] = s /\ stats' \in [Workers -> Loose]
      BY <1>1, <3>1, <3>4
    <3> QED
      BY <1>4, <3>2, <3>4, <3>5
  <2>2. CASE ~ ServeEmpty(w)
    <3>1. stats' = stats
      BY <1>4, <2>2 DEF WorkerStep_, Handle, Dequeue, CloseConn, HandleNothing, HandleSilent,
         HandleCut, HandleError, HandleStatic, HandleDynamic, HandlePost, Read, ServeStatic,
         WriteBlocks, OpenFails, ServeDynamic, RunScript, AddToLog, GetLog, ServePost, At, local
    <3>2. ~ (pc[w] = "serveStatic" /\ request[conn[w]] = "empty")
      BY <1>4, <2>2 DEF WorkerStep_, Handle, Dequeue, CloseConn, HandleNothing, HandleSilent,
         HandleCut, HandleError, HandleStatic, HandleDynamic, HandlePost, Read, ServeStatic,
         WriteBlocks, OpenFails, ServeDynamic, RunScript, AddToLog, GetLog, ServePost, At
    <3> QED
      BY <1>1, <1>4, <3>1, <3>2
  <2> QED
    BY <2>1, <2>2
<1> QED
  BY <1>3, <1>4

(* Of one thread, at most the connection in its hands is about to be served. *)
LEMMA InHandIs ==
  ASSUME HandlerInv, NEW w \in Workers
  PROVE  InHand(w, {"serveStatic"}) = IF pc[w] = "serveStatic" THEN {conn[w]} ELSE {}
<1>1. pc[w] = "serveStatic" => conn[w] \in Conns
  BY DEF HandlerInv, TypeOK
<1> QED
  BY <1>1 DEF InHand

(* What the worker that steps counts as static: files that turn out to be  *)
(* empty are among them while they are served.                             *)
LEMMA StaticStep ==
  ASSUME HandlerInv, NEW w \in Workers, WorkerStep_(w)
  PROVE  stats'[w].static =
           Cardinality(CountedAs(w, {"static", "deaf"})' \cup InHand(w, {"serveStatic"})')
<1> DEFINE S == CountedAs(w, {"static", "deaf"})
           H == InHand(w, {"serveStatic"})
<1>0. {"static", "deaf"} \cap Unread = {}
  BY DEF Unread
<1>1. H = IF pc[w] = "serveStatic" THEN {conn[w]} ELSE {}
  BY InHandIs
<1>2. S \in SUBSET Conns
  BY <1>0, CountedAsHere
<1>3. stats[w].static = Cardinality(S \cup H)
  BY DEF HandlerInv, CountsKept
<1>4. CASE pc[w] = "read"
  <2>1. /\ conn[w] \in Conns /\ conn' = conn
        /\ (pc'[w] = "serveStatic") <=> request'[conn[w]] \in StaticFiles
    BY <1>4, HandleMoves, HandleKeeps
       DEF WorkerStep_, Dequeue, CloseConn, At, Moves, HandlerInv, StaticFiles
  <2>2. \A c : c \in H' <=> c = conn[w] /\ pc'[w] = "serveStatic"
    BY <2>1 DEF InHand
  <2>3. S \cup H = S
    BY <1>1, <1>4
  <2>4. CASE request'[conn[w]] \in StaticFiles
    <3>1. conn[w] \in Conns \ S
      <4>1. conn[w] \notin Counted(w)
        BY <1>4, <2>4, CountedHere DEF Unread, StaticFiles
      <4> QED
        BY <2>1, <4>1 DEF CountedAs
    <3>2. S' = S \/ S' = S \cup {conn[w]}
      BY <1>0, CountedAsHere
    <3>3. H' = {conn[w]}
      BY <2>1, <2>2, <2>4
    <3>4. S' \cup H' = S \cup {conn[w]}
      BY <3>2, <3>3
    <3>5. Cardinality(S \cup {conn[w]}) = Cardinality(S) + 1
      BY <1>2, <3>1, OneMore
    <3>6. stats'[w].static = stats[w].static + 1
      BY <1>4, <2>4, StatsStep
    <3> QED
      BY <1>3, <2>3, <3>4, <3>5, <3>6
  <2>5. CASE request'[conn[w]] \notin StaticFiles
    <3>1. S' = S
      BY <1>0, <2>5, CountedAsHere DEF StaticFiles
    <3>2. S' \cup H' = S
      BY <2>1, <2>2, <2>5, <3>1
    <3>3. stats'[w].static = stats[w].static
      BY <1>4, <2>5, StatsStep
    <3> QED
      BY <1>3, <2>3, <3>2, <3>3
  <2> QED
    BY <2>4, <2>5
<1>5. CASE pc[w] = "serveStatic"
  <2>1. /\ conn[w] \in Conns /\ conn' = conn /\ request' = request
    BY <1>5, HandleKeeps DEF WorkerStep_, Dequeue, CloseConn, At, HandlerInv
  <2>2. S' = S
    BY <1>0, <1>5, CountedAsHere
  <2>3. \A c : c \in H' <=> c = conn[w] /\ pc'[w] = "serveStatic"
    BY <2>1 DEF InHand
  <2>4. \/ pc'[w] = "addToLog" /\ request[conn[w]] \in {"static", "empty"}
        \/ pc'[w] = "serveStatic" /\ request[conn[w]] = "gone"
        \/ pc'[w] = "lost" /\ request[conn[w]] = "deaf"
    BY <1>5, <2>1, HandleMoves, AtStep DEF WorkerStep_, Dequeue, CloseConn, At, Moves
  <2>5. (conn[w] \in S) <=> request[conn[w]] \in {"static", "deaf"}
    BY <1>5, <2>1, CountedIs DEF CountedAs, Counted
  <2>6. CASE request[conn[w]] = "empty"
    <3>1. S' \cup H' = S
      BY <2>2, <2>3, <2>4, <2>6
    <3>2. Cardinality(S \cup H) = Cardinality(S) + 1
      BY <1>1, <1>2, <1>5, <2>1, <2>5, <2>6, OneMore
    <3>3. stats'[w].static = stats[w].static - 1
      BY <1>5, <2>6, StatsStep
    <3>4. Cardinality(S) \in Nat
      BY <1>2, ConnsFinite
    <3>5. \A n \in Nat : (n + 1) - 1 = n
      OBVIOUS
    <3>6. stats'[w].static = Cardinality(S)
      BY <1>3, <3>2, <3>3, <3>4, <3>5
    <3> QED
      BY <3>1, <3>6
  <2>7. CASE request[conn[w]] # "empty"
    <3>1. S' \cup H' = S \cup H
      BY <1>1, <1>5, <2>2, <2>3, <2>4, <2>5, <2>7
    <3>2. stats'[w].static = stats[w].static
      BY <1>5, <2>7, StatsStep
    <3> QED
      BY <1>3, <3>1, <3>2
  <2> QED
    BY <2>6, <2>7
<1>6. CASE pc[w] \notin {"read", "serveStatic"}
  <2>1. S' = S
    BY <1>0, <1>6, CountedAsHere
  <2>2. pc'[w] # "serveStatic"
    <3>1. pc \in [Workers -> {"idle", "read", "serveStatic", "serveDynamic", "script",
                              "addToLog", "getLog", "servePost", "close", "lost"}]
      BY DEF HandlerInv, TypeOK
    <3>2. CASE Dequeue(w) \/ CloseConn(w)
      BY <3>1, <3>2 DEF Dequeue, CloseConn, Goto
    <3>3. CASE Handle(w)
      BY <1>6, <3>3, HandleMoves DEF Moves
    <3> QED
      BY <3>2, <3>3 DEF WorkerStep_
  <2>3. H = {} /\ H' = {}
    BY <1>1, <1>6, <2>2 DEF InHand
  <2>4. stats'[w].static = stats[w].static
    BY <1>6, StatsStep
  <2> QED
    BY <1>3, <2>1, <2>3, <2>4
<1> QED
  BY <1>4, <1>5, <1>6

(* The counters of every thread stay the numbers of its connections of each
   kind. *)
LEMMA CountsStep ==
  ASSUME HandlerInv, NEW w \in Workers, WorkerStep_(w)
  PROVE  CountsKept'
<1> DEFINE Totals(v) == {StatOf(c).of.total : c \in AnsweredBy(v)}
           Kept(v) ==
             /\ stats[v].total = Cardinality(Counted(v))
             /\ stats[v].static =
                  Cardinality(CountedAs(v, {"static", "deaf"}) \cup InHand(v, {"serveStatic"}))
             /\ stats[v].dynamic = Cardinality(CountedAs(v, {"cgi"}))
             /\ stats[v].post = Cardinality(CountedAs(v, {"post"}))
             /\ Totals(v) = 1..Cardinality(AnsweredBy(v))
<1>1. \A v \in Workers : Kept(v)
  BY DEF HandlerInv, CountsKept
<1>2. \A c \in closed : StatOf(c)' = StatOf(c)
  BY ClosedStay
<1>3. ASSUME NEW v \in Workers, AnsweredBy(v)' = AnsweredBy(v)
      PROVE  Totals(v)' = 1..Cardinality(AnsweredBy(v)')
  <2>1. \A c \in AnsweredBy(v) : StatOf(c)' = StatOf(c)
    BY <1>2 DEF AnsweredBy, Answered
  <2>2. Totals(v)' = Totals(v)
    BY <1>3, <2>1
  <2> QED
    BY <1>1, <1>3, <2>2
<1>4. ASSUME NEW v \in Workers \ {w} PROVE Kept(v)'
  <2>1. stats'[v] = stats[v]
    BY OthersStay DEF HandlerInv
  <2>2. AnsweredBy(v)' = AnsweredBy(v)
    BY AnsweredStep
  <2>3. /\ Counted(v)' = Counted(v) /\ InHand(v, {"serveStatic"})' = InHand(v, {"serveStatic"})
        /\ \A kinds : CountedAs(v, kinds)' = CountedAs(v, kinds)
    BY CountedElsewhere
  <2>4. Totals(v)' = 1..Cardinality(AnsweredBy(v)')
    BY <1>3, <2>2
  <2> HIDE DEF Totals
  <2> QED
    BY <1>1, <2>1, <2>2, <2>3, <2>4
<1>5. Kept(w)'
  <2>1. stats'[w].static =
          Cardinality(CountedAs(w, {"static", "deaf"})' \cup InHand(w, {"serveStatic"})')
    BY StaticStep
  <2>2. stats'[w].total = Cardinality(Counted(w)')
    <3>1. CASE pc[w] = "read" /\ request'[conn[w]] \notin Unread
      <4>1. /\ Counted(w) \in SUBSET Conns /\ conn[w] \in Conns \ Counted(w)
            /\ Counted(w)' = Counted(w) \cup {conn[w]}
        BY <3>1, CountedHere
      <4>2. Cardinality(Counted(w)') = Cardinality(Counted(w)) + 1
        BY <4>1, OneMore
      <4>3. stats'[w].total = stats[w].total + 1
        BY <3>1, StatsStep
      <4> QED
        BY <1>1, <4>2, <4>3
    <3>2. CASE ~ (pc[w] = "read" /\ request'[conn[w]] \notin Unread)
      <4>1. Counted(w)' = Counted(w)
        BY <3>2, CountedHere
      <4>2. stats'[w].total = stats[w].total
        BY <3>2, StatsStep
      <4> QED
        BY <1>1, <4>1, <4>2
    <3> QED
      BY <3>1, <3>2
  <2>3. stats'[w].dynamic = Cardinality(CountedAs(w, {"cgi"})')
    <3>0. {"cgi"} \cap Unread = {}
      BY DEF Unread
    <3>1. CASE pc[w] = "read" /\ request'[conn[w]] = "cgi"
      <4>1. /\ CountedAs(w, {"cgi"}) \in SUBSET Conns
            /\ conn[w] \in Conns \ CountedAs(w, {"cgi"})
            /\ CountedAs(w, {"cgi"})' = CountedAs(w, {"cgi"}) \cup {conn[w]}
        BY <3>0, <3>1, CountedAsHere
      <4>2. Cardinality(CountedAs(w, {"cgi"})') = Cardinality(CountedAs(w, {"cgi"})) + 1
        BY <4>1, OneMore
      <4>3. stats'[w].dynamic = stats[w].dynamic + 1
        BY <3>1, StatsStep
      <4> QED
        BY <1>1, <4>2, <4>3
    <3>2. CASE ~ (pc[w] = "read" /\ request'[conn[w]] = "cgi")
      <4>1. CountedAs(w, {"cgi"})' = CountedAs(w, {"cgi"})
        BY <3>0, <3>2, CountedAsHere
      <4>2. stats'[w].dynamic = stats[w].dynamic
        BY <3>2, StatsStep
      <4> QED
        BY <1>1, <4>1, <4>2
    <3> QED
      BY <3>1, <3>2
  <2>4. stats'[w].post = Cardinality(CountedAs(w, {"post"})')
    <3>0. {"post"} \cap Unread = {}
      BY DEF Unread
    <3>1. CASE pc[w] = "read" /\ request'[conn[w]] = "post"
      <4>1. /\ CountedAs(w, {"post"}) \in SUBSET Conns
            /\ conn[w] \in Conns \ CountedAs(w, {"post"})
            /\ CountedAs(w, {"post"})' = CountedAs(w, {"post"}) \cup {conn[w]}
        BY <3>0, <3>1, CountedAsHere
      <4>2. Cardinality(CountedAs(w, {"post"})') = Cardinality(CountedAs(w, {"post"})) + 1
        BY <4>1, OneMore
      <4>3. stats'[w].post = stats[w].post + 1
        BY <3>1, StatsStep
      <4> QED
        BY <1>1, <4>2, <4>3
    <3>2. CASE ~ (pc[w] = "read" /\ request'[conn[w]] = "post")
      <4>1. CountedAs(w, {"post"})' = CountedAs(w, {"post"})
        BY <3>0, <3>2, CountedAsHere
      <4>2. stats'[w].post = stats[w].post
        BY <3>2, StatsStep
      <4> QED
        BY <1>1, <4>1, <4>2
    <3> QED
      BY <3>1, <3>2
  <2>5. Totals(w)' = 1..Cardinality(AnsweredBy(w)')
    <3>1. CASE CloseConn(w) /\ request[conn[w]] # "nothing"
      <4> PICK d : d = conn[w]
        OBVIOUS
      <4>1. /\ pc[w] = "close" /\ response' = response
            /\ AnsweredBy(w)' = AnsweredBy(w) \cup {d}
        BY <3>1, AnsweredStep DEF CloseConn, At
      <4>2. /\ StatOf(d)' = StatOf(d) /\ StatOf(d) = StatLine(w, stats[w])
        BY <3>1, <4>1, OverStats DEF StatOf, StatPos
      <4>3. d \in Conns \ AnsweredBy(w) /\ Counted(w) = AnsweredBy(w) \cup {d}
        BY <3>1, <4>1, CountedIs DEF HandlerInv, TypeOK, AtRequest, At_, NeverDone, Unread
      <4>4. stats[w].total = Cardinality(AnsweredBy(w)) + 1
        <5>1. AnsweredBy(w) \in SUBSET Conns
          BY AnsweredAreConns
        <5>2. Cardinality(AnsweredBy(w) \cup {d}) = Cardinality(AnsweredBy(w)) + 1
          BY <4>3, <5>1, OneMore
        <5>3. stats[w].total = Cardinality(Counted(w))
          BY <1>1
        <5> QED
          BY <4>3, <5>2, <5>3
      <4>5. StatOf(d)'.of.total = Cardinality(AnsweredBy(w)) + 1
        <5>1. StatLine(w, stats[w]).of = stats[w]
          BY StatLineIs
        <5>2. StatOf(d)'.of = stats[w]
          BY <4>2, <5>1
        <5> QED
          BY <4>4, <5>2
      <4>6. Cardinality(AnsweredBy(w)') = Cardinality(AnsweredBy(w)) + 1
        <5>1. AnsweredBy(w) \in SUBSET Conns
          BY AnsweredAreConns
        <5>2. Cardinality(AnsweredBy(w) \cup {d}) = Cardinality(AnsweredBy(w)) + 1
          BY <4>3, <5>1, OneMore
        <5> QED
          BY <4>1, <5>2
      <4>7. \A c \in AnsweredBy(w) : StatOf(c)' = StatOf(c)
        BY <1>2 DEF AnsweredBy, Answered
      <4>8. Totals(w)' = Totals(w) \cup {Cardinality(AnsweredBy(w)) + 1}
        BY <4>1, <4>5, <4>7
      <4>9. Cardinality(AnsweredBy(w)) \in Nat
        BY AnsweredAreConns, ConnsFinite
      <4>10. Totals(w) = 1..Cardinality(AnsweredBy(w))
        BY <1>1
      <4> HIDE DEF Totals
      <4> QED
        BY <4>6, <4>8, <4>9, <4>10
    <3>2. CASE ~ (CloseConn(w) /\ request[conn[w]] # "nothing")
      <4>1. AnsweredBy(w)' = AnsweredBy(w)
        BY <3>2, AnsweredStep
      <4> QED
        BY <1>3, <4>1
    <3> QED
      BY <3>1, <3>2
  <2> QED
    BY <2>1, <2>2, <2>3, <2>4, <2>5
<1> QED
  BY <1>4, <1>5 DEF CountsKept

-----------------------------------------------------------------------------
(* A worker's step keeps the types. *)
LEMMA TypeStep ==
  ASSUME HandlerInv, NEW w \in Workers, WorkerStep_(w)
  PROVE  TypeOK'
<1> USE DEF TypeOK
<1>1. stats' \in [Workers -> Counters]
  <2>1. ASSUME NEW v \in Workers
        PROVE  /\ stats'[v].total \in 0..MaxConns /\ stats'[v].static \in 0..MaxConns
               /\ stats'[v].dynamic \in 0..MaxConns /\ stats'[v].post \in 0..MaxConns
    <3>1. /\ stats'[v].total = Cardinality(Counted(v)')
          /\ stats'[v].static =
               Cardinality(CountedAs(v, {"static", "deaf"})' \cup InHand(v, {"serveStatic"})')
          /\ stats'[v].dynamic = Cardinality(CountedAs(v, {"cgi"})')
          /\ stats'[v].post = Cardinality(CountedAs(v, {"post"})')
      BY CountsStep DEF CountsKept
    <3>2. AnsweredBy(v)' \subseteq Conns
      <4>1. closed' \subseteq Conns
        <5>1. closed \subseteq Conns
          BY AnsweredAreConns
        <5>2. CloseConn(w) => conn[w] \in Conns /\ closed' = closed \cup {conn[w]}
          BY DEF CloseConn, At, HandlerInv
        <5>3. Dequeue(w) => closed' = closed
          BY DEF Dequeue, client
        <5>4. Handle(w) => closed' = closed
          BY HandleKeeps DEF HandlerInv
        <5> QED
          BY <5>1, <5>2, <5>3, <5>4 DEF WorkerStep_
      <4> QED
        BY <4>1 DEF AnsweredBy, Answered
    <3>3. Counted(v)' \subseteq Conns /\ InHand(v, {"serveStatic"})' \subseteq Conns
      BY <3>2 DEF Counted, InHand
    <3>4. \A kinds : CountedAs(v, kinds)' \subseteq Conns
      BY <3>3 DEF CountedAs
    <3>5. CountedAs(v, {"static", "deaf"})' \cup InHand(v, {"serveStatic"})' \in SUBSET Conns
      BY <3>3, <3>4
    <3> QED
      BY <3>1, <3>3, <3>4, <3>5, ConnsFinite
  <2>2. stats' \in [Workers -> [total : Int, static : Int, dynamic : Int, post : Int]]
    BY StatsStep
  <2> QED
    BY <2>1, <2>2 DEF Counters
<1>2. CASE Dequeue(w)
  BY <1>1, <1>2, ConnNumbers, MaxConnsAssumption
     DEF HandlerInv, Dequeue, At, Goto, client, Conns, NoConn, Counters
<1>3. CASE Handle(w)
  <2>1. /\ conn' = conn /\ taken' = taken /\ closed' = closed
        /\ pc[w] # "idle" /\ pc'[w] # "idle"
    BY <1>3, HandleKeeps DEF HandlerInv
  <2>2. \A v \in Workers \ {w} : pc'[v] = pc[v]
    BY <1>3, OthersStay DEF HandlerInv, WorkerStep_
  <2>3. /\ pc' \in [Workers -> {"idle", "read", "serveStatic", "serveDynamic", "script",
                                "addToLog", "getLog", "servePost", "close", "lost"}]
        /\ alive' \in BOOLEAN /\ request' \in [Conns -> Requests \cup {"unread"}]
        /\ script' \in [Conns -> {"none", "done", "failed", "stopped"}]
    <3> USE DEF HandlerInv, Read, Goto, At, client, main
    <3>1. CASE HandleNothing(w)
      BY <3>1 DEF HandleNothing
    <3>2. CASE HandleCut(w)
      BY <3>2 DEF HandleCut
    <3>3. CASE HandleError(w)
      BY <3>3 DEF HandleError
    <3>4. CASE HandleStatic(w)
      BY <3>4 DEF HandleStatic
    <3>5. CASE HandleDynamic(w)
      BY <3>5 DEF HandleDynamic
    <3>6. CASE HandlePost(w)
      BY <3>6 DEF HandlePost
    <3>7. CASE ServeStatic(w)
      BY <3>7 DEF ServeStatic
    <3>8. CASE OpenFails(w)
      BY <3>8 DEF OpenFails
    <3>9. CASE ServeEmpty(w)
      BY <3>9 DEF ServeEmpty
    <3>10. CASE ServeDynamic(w)
      BY <3>10 DEF ServeDynamic
    <3>11. CASE RunScript(w)
      BY <3>11 DEF RunScript
    <3>12. CASE AddToLog(w)
      BY <3>12 DEF AddToLog
    <3>13. CASE GetLog(w)
      BY <3>13 DEF GetLog
    <3>14. CASE ServePost(w)
      BY <3>14 DEF ServePost
    <3>15. CASE HandleSilent(w)
      BY <3>15 DEF HandleSilent
    <3>16. CASE WriteBlocks(w)
      BY <3>16 DEF WriteBlocks
    <3> QED
      BY <1>3, <3>1, <3>2, <3>3, <3>4, <3>5, <3>6, <3>7, <3>8, <3>9, <3>10,
         <3>11, <3>12, <3>13, <3>14, <3>15, <3>16 DEF Handle
  <2>4. \A v \in Workers : (conn'[v] = NoConn) <=> (pc'[v] = "idle")
    BY <2>1, <2>2 DEF HandlerInv
  <2> QED
    BY <1>1, <2>1, <2>3, <2>4 DEF HandlerInv, Counters
<1>4. CASE CloseConn(w)
  <2>1. conn[w] \in 1..taken
    BY <1>4 DEF CloseConn, At, HandlerInv, ConnsOwned
  <2> QED
    BY <1>1, <1>4, <2>1 DEF HandlerInv, CloseConn, At, Goto, main, Counters
<1> QED
  BY <1>2, <1>3, <1>4 DEF WorkerStep_

-----------------------------------------------------------------------------
(* The responses.                                                          *)

(* The counters are counters before and after a step. *)
LEMMA StatsAreTyped ==
  ASSUME HandlerInv, NEW w \in Workers, WorkerStep_(w)
  PROVE  /\ \A v \in Workers : stats[v] \in Counters /\ stats'[v] \in Counters
         /\ stats' \in [Workers -> Counters]
BY TypeStep DEF HandlerInv, TypeOK, Counters

(* Where a response is empty, what is written to it is all of it.          *)
LEMMA FirstWrite ==
  ASSUME HandlerInv, NEW w \in Workers, NEW t \in Seq(Lines), conn[w] \in Conns,
         response[conn[w]] = <<>>, Write(w, t)
  PROVE  response'[conn[w]] = t /\ response' \in [Conns -> Seq(Lines)]
<1>1. response \in [Conns -> Seq(Lines)]
  BY DEF HandlerInv, TextsTyped
<1>2. response[conn[w]] \o t = t
  BY EmptyText
<1> QED
  BY <1>1, <1>2 DEF Write

(* What a worker has written to its client after a step of requestHandle.  *)
LEMMA HandleResponds ==
  ASSUME HandlerInv, NEW w \in Workers, Handle(w)
  PROVE  /\ response' \in [Conns -> Seq(Lines)]
         /\ IF \/ pc'[w] \in {"serveStatic", "serveDynamic", "getLog", "servePost"}
               \/ pc'[w] = "lost" /\ request'[conn[w]] # "deaf"
               \/ pc'[w] = "close" /\ request'[conn[w]] = "nothing"
            THEN response'[conn[w]] = <<>>
            ELSE FirstStat(response'[conn[w]], StatLine(w, stats'[w]))
         /\ pc'[w] = "addToLog" => HasPageOrWhy(conn[w])'
<1>1. conn[w] \in Conns /\ response \in [Conns -> Seq(Lines)] /\ body[w] \in Seq(Lines)
  BY HandleKeeps DEF HandlerInv, TextsTyped
<1>0. \/ HasPage(response'[conn[w]])
      \/ request'[conn[w]] = "cgi" /\ script'[conn[w]] \in {"failed", "stopped"}
      => HasPageOrWhy(conn[w])'
  <2>1. conn' = conn
    BY HandleKeeps DEF HandlerInv
  <2> QED
    BY <2>1 DEF HasPageOrWhy
<1>2. stats[w] \in Counters /\ stats'[w] \in Counters
  BY StatsAreTyped DEF WorkerStep_
<1>3. pc[w] \in {"read", "serveStatic", "serveDynamic", "getLog", "servePost"} =>
        response[conn[w]] = <<>>
  BY DEF HandlerInv, Responded, Silent
<1>4. pc[w] \in {"script", "addToLog"} => FirstStat(response[conn[w]], StatLine(w, stats[w]))
  BY DEF HandlerInv, Responded, Silent
<1>5. pc \in [Workers -> {"idle", "read", "serveStatic", "serveDynamic", "script",
                         "addToLog", "getLog", "servePost", "close", "lost"}]
      /\ request \in [Conns -> Requests \cup {"unread"}]
  BY DEF HandlerInv, TypeOK
<1> USE DEF At, Goto
<1>6. CASE \/ HandleNothing(w) \/ HandleSilent(w) \/ HandleCut(w)
           \/ HandleStatic(w) \/ HandleDynamic(w) \/ HandlePost(w)
  <2>1. /\ response' = response /\ pc[w] = "read"
        /\ \/ pc'[w] \in {"serveStatic", "serveDynamic", "getLog"}
           \/ pc'[w] = "lost" /\ request'[conn[w]] # "deaf"
           \/ pc'[w] = "close" /\ request'[conn[w]] = "nothing"
    BY <1>1, <1>5, <1>6
       DEF HandleNothing, HandleSilent, HandleCut, HandleStatic, HandleDynamic, HandlePost, Read
  <2> QED
    BY <1>1, <1>3, <2>1
<1>7. CASE HandleError(w)
  <2>1. PICK code \in Nat, s \in Counters :
         s = stats'[w] /\ Write(w, ErrorText(code, w, s)) /\ request'[conn[w]] # "nothing"
    BY <1>1, <1>2, <1>5, <1>7 DEF HandleError, Read
  <2>2. /\ ErrorText(code, w, s) \in Seq(Lines)
        /\ FirstStat(ErrorText(code, w, s), StatLine(w, s))
    BY <1>1, <1>2, <2>1, ErrorTextIs
  <2>3. response'[conn[w]] = ErrorText(code, w, s) /\ response' \in [Conns -> Seq(Lines)]
    BY <1>1, <1>3, <1>7, <2>1, <2>2, FirstWrite DEF HandleError, Read
  <2>4. pc'[w] = "close"
    BY <1>5, <1>7 DEF HandleError
  <2> QED
    BY <2>1, <2>2, <2>3, <2>4
<1>8. CASE ServeStatic(w)
  <2>1. Write(w, StaticText(w)) /\ pc[w] = "serveStatic" /\ pc'[w] = "addToLog" /\ stats' = stats
    BY <1>5, <1>8 DEF ServeStatic, local
  <2>2. /\ StaticText(w) \in Seq(Lines) /\ HasPage(StaticText(w))
        /\ FirstStat(StaticText(w), StatLine(w, stats[w]))
    BY <1>1, <1>2, PageTextIs
  <2>3. response'[conn[w]] = StaticText(w) /\ response' \in [Conns -> Seq(Lines)]
    BY <1>1, <1>3, <2>1, <2>2, FirstWrite
  <2> QED
    BY <2>1, <2>2, <2>3, <1>0
<1>16. CASE WriteBlocks(w)
  <2>1. /\ Write(w, StaticHead(w)) /\ pc[w] = "serveStatic" /\ pc'[w] = "lost"
        /\ stats' = stats /\ request'[conn[w]] = "deaf"
    BY <1>5, <1>16 DEF WriteBlocks, local
  <2>2. /\ StaticHead(w) \in Seq(Lines)
        /\ FirstStat(StaticHead(w), StatLine(w, stats[w]))
    BY <1>1, <1>2, PageTextIs
  <2>3. response'[conn[w]] = StaticHead(w) /\ response' \in [Conns -> Seq(Lines)]
    BY <1>1, <1>3, <2>1, <2>2, FirstWrite
  <2> QED
    BY <2>1, <2>2, <2>3
<1>9. CASE OpenFails(w)
  <2>1. response' = response /\ pc' = pc /\ pc[w] = "serveStatic"
    BY <1>9 DEF OpenFails, client
  <2> QED
    BY <1>1, <1>3, <2>1
<1>10. CASE ServeEmpty(w)
  <2>1. PICK s \in Counters : s = stats'[w] /\ Write(w, ErrorText(403, w, s))
    BY <1>2, <1>10 DEF ServeEmpty
  <2>2. pc[w] = "serveStatic" /\ pc'[w] = "addToLog"
    BY <1>5, <1>10 DEF ServeEmpty
  <2>3. /\ ErrorText(403, w, s) \in Seq(Lines) /\ HasPage(ErrorText(403, w, s))
        /\ FirstStat(ErrorText(403, w, s), StatLine(w, s))
    <3>1. conn[w] \in Conns /\ s \in Counters /\ 403 \in Nat
      BY <1>1, <1>2, <2>1
    <3> QED
      BY <3>1, ErrorTextIs
  <2>4. response'[conn[w]] = ErrorText(403, w, s) /\ response' \in [Conns -> Seq(Lines)]
    <3>1. response[conn[w]] = <<>>
      BY <1>3, <2>2
    <3> QED
      BY <1>1, <2>1, <2>3, <3>1, FirstWrite
  <2> QED
    BY <2>1, <2>2, <2>3, <2>4, <1>0
<1>11. CASE ServeDynamic(w)
  <2>1. Write(w, DynamicText(w)) /\ pc[w] = "serveDynamic" /\ pc'[w] = "script" /\ stats' = stats
    BY <1>5, <1>11 DEF ServeDynamic, local
  <2>2. /\ DynamicText(w) \in Seq(Lines)
        /\ FirstStat(DynamicText(w), StatLine(w, stats[w]))
    BY <1>1, <1>2, DynamicTextIs
  <2>3. response'[conn[w]] = DynamicText(w) /\ response' \in [Conns -> Seq(Lines)]
    BY <1>1, <1>3, <2>1, <2>2, FirstWrite
  <2> QED
    BY <2>1, <2>2, <2>3
<1>12. CASE RunScript(w)
  <2> PICK t \in Seq(Lines) : t = response[conn[w]]
    BY <1>1
  <2>1. PICK end \in {"done", "failed", "stopped"} :
          /\ script' = [script EXCEPT ![conn[w]] = end]
          /\ Write(w, IF end = "done" THEN ScriptText ELSE <<>>)
    BY <1>12 DEF RunScript
  <2>2. pc[w] = "script" /\ pc'[w] = "addToLog" /\ stats' = stats /\ request' = request
    BY <1>5, <1>12 DEF RunScript, local
  <2>3. FirstStat(t, StatLine(w, stats[w])) /\ request[conn[w]] = "cgi"
    BY <1>4, <2>2 DEF HandlerInv, AtRequest, At_
  <2>4. ScriptText \in Seq(Lines) /\ HasPage(ScriptText)
    BY ScriptTextIs
  <2>5. CASE end = "done"
    <3>1. /\ t \o ScriptText \in Seq(Lines) /\ HasPage(t \o ScriptText)
          /\ FirstStat(t \o ScriptText, StatLine(w, stats[w]))
      BY <2>3, <2>4, FirstStatStays, PageStays
    <3>2. response'[conn[w]] = t \o ScriptText /\ response' \in [Conns -> Seq(Lines)]
      BY <1>1, <2>1, <2>5, <3>1 DEF Write
    <3> QED
      BY <2>2, <3>1, <3>2, <1>0
  <2>6. CASE end # "done"
    <3>1. t \o <<>> = t
      OBVIOUS
    <3>2. response'[conn[w]] = t /\ response' \in [Conns -> Seq(Lines)]
      BY <1>1, <2>1, <2>6, <3>1 DEF Write
    <3>3. script'[conn[w]] \in {"failed", "stopped"} /\ request'[conn[w]] = "cgi"
      BY <1>1, <2>1, <2>2, <2>3, <2>6 DEF HandlerInv, TypeOK
    <3> QED
      BY <1>0, <2>2, <2>3, <3>2, <3>3
  <2> QED
    BY <2>5, <2>6
<1>13. CASE AddToLog(w)
  <2>1. /\ response' = response /\ stats' = stats /\ request' = request
        /\ pc[w] = "addToLog" /\ pc'[w] = "close"
    BY <1>5, <1>13 DEF AddToLog, client, local
  <2>2. request[conn[w]] # "nothing"
    BY <2>1 DEF HandlerInv, AtRequest, At_
  <2> QED
    BY <1>1, <1>4, <2>1, <2>2
<1>14. CASE GetLog(w)
  <2>1. response' = response /\ pc[w] = "getLog" /\ pc'[w] = "servePost"
    BY <1>5, <1>14 DEF GetLog, client
  <2> QED
    BY <1>1, <1>3, <2>1
<1>15. CASE ServePost(w)
  <2>1. /\ Write(w, PostText(w)) /\ pc[w] = "servePost" /\ pc'[w] = "close" /\ stats' = stats
        /\ request' = request
    BY <1>5, <1>15 DEF ServePost, local
  <2>2. PostText(w) \in Seq(Lines) /\ FirstStat(PostText(w), StatLine(w, stats[w]))
    BY <1>1, <1>2, PageTextIs
  <2>3. response'[conn[w]] = PostText(w) /\ response' \in [Conns -> Seq(Lines)]
    BY <1>1, <1>3, <2>1, <2>2, FirstWrite
  <2>4. request[conn[w]] # "nothing"
    BY <2>1 DEF HandlerInv, AtRequest, At_
  <2> QED
    BY <2>1, <2>2, <2>3, <2>4
<1> QED
  BY <1>6, <1>7, <1>8, <1>9, <1>10, <1>11, <1>12, <1>13, <1>14, <1>15, <1>16 DEF Handle

(* Responses, entries and the log stay sequences of lines. *)
LEMMA TextsStep ==
  ASSUME HandlerInv, NEW w \in Workers, WorkerStep_(w)
  PROVE  TextsTyped'
<1>1. TextsTyped
  BY DEF HandlerInv
<1>2. pc[w] # "idle" => conn[w] \in Conns
  BY DEF HandlerInv, TypeOK
<1>3. ASSUME NEW s \in Counters, conn[w] \in Conns
      PROVE  AppendStats(w, s) \in Seq(Lines)
  <2>1. PICK l \in Lines : l = StatLine(w, s)
    BY <1>3, StatLineTyped
  <2>2. <<l, Blank>> \in Seq(Lines)
    BY ConstLines
  <2> QED
    BY <2>1, <2>2, AppendStatsIs
<1>4. CASE Dequeue(w)
  BY <1>1, <1>4 DEF Dequeue, client, TextsTyped
<1>5. CASE CloseConn(w)
  BY <1>1, <1>5, EmptyText DEF CloseConn, TextsTyped
<1>6. CASE Handle(w)
  <2>1. response' \in [Conns -> Seq(Lines)]
    BY <1>6, HandleResponds
  <2>2. CASE HandleStatic(w) \/ HandleDynamic(w)
    <3> PICK s \in Counters :
          s = stats'[w] /\ stats_buf' = [stats_buf EXCEPT ![w] = AppendStats(w, s)]
      BY <2>2, StatsAreTyped DEF HandleStatic, HandleDynamic, WorkerStep_
    <3>1. AppendStats(w, s) \in Seq(Lines)
      BY <1>2, <1>3, <2>2 DEF HandleStatic, HandleDynamic, Read, At
    <3>2. body' = body /\ log' = log
      BY <2>2 DEF HandleStatic, HandleDynamic
    <3> QED
      BY <1>1, <2>1, <3>1, <3>2 DEF TextsTyped
  <2>3. CASE AddToLog(w)
    <3>1. log \o stats_buf[w] \in Seq(Lines)
      <4>1. log \in Seq(Lines) /\ stats_buf[w] \in Seq(Lines)
        BY <1>1 DEF TextsTyped
      <4> QED
        BY <4>1
    <3> QED
      BY <1>1, <2>1, <2>3, <3>1 DEF AddToLog, local, TextsTyped
  <2>4. CASE GetLog(w)
    BY <1>1, <2>1, <2>4 DEF GetLog, TextsTyped
  <2>5. CASE \/ HandleNothing(w) \/ HandleSilent(w) \/ HandleCut(w) \/ HandleError(w)
             \/ HandlePost(w) \/ ServeStatic(w) \/ WriteBlocks(w) \/ OpenFails(w)
             \/ ServeEmpty(w) \/ ServeDynamic(w) \/ RunScript(w) \/ ServePost(w)
    <3>1. stats_buf' = stats_buf /\ body' = body /\ log' = log
      BY <2>5 DEF HandleNothing, HandleSilent, HandleCut, HandleError, HandlePost, ServeStatic,
         WriteBlocks, OpenFails, ServeEmpty, ServeDynamic, RunScript, ServePost, local
    <3> QED
      BY <1>1, <2>1, <3>1 DEF TextsTyped
  <2> QED
    BY <1>6, <2>2, <2>3, <2>4, <2>5 DEF Handle
<1> QED
  BY <1>4, <1>5, <1>6 DEF WorkerStep_

(* What was written to a connection begins with the counters of the thread
   that answers it. *)
LEMMA RespondedStep ==
  ASSUME HandlerInv, NEW w \in Workers, WorkerStep_(w)
  PROVE  Responded'
<1> DEFINE Answer(v) == /\ pc[v] # "idle" =>
                             IF Silent(v) THEN response[conn[v]] = <<>>
                             ELSE FirstStat(response[conn[v]], StatLine(v, stats[v]))
                        /\ pc[v] = "addToLog" => HasPageOrWhy(conn[v])
<1>1. \A v \in Workers : Answer(v)
  BY DEF HandlerInv, Responded
<1>2. ASSUME NEW v \in Workers \ {w} PROVE Answer(v)'
  <2>1. pc'[v] = pc[v] /\ conn'[v] = conn[v] /\ stats'[v] = stats[v]
    BY OthersStay DEF HandlerInv
  <2>2. CASE pc[v] = "idle"
    BY <2>1, <2>2
  <2>3. CASE pc[v] # "idle"
    <3> PICK d, s : d = conn[v] /\ s = stats[v]
      OBVIOUS
    <3>1. d \in Conns \ {conn[w]}
      BY <2>3 DEF HandlerInv, TypeOK, ConnsOwned
    <3>2. request'[d] = request[d] /\ response'[d] = response[d] /\ script'[d] = script[d]
      BY <3>1, OthersStay DEF HandlerInv
    <3>3. StatLine(v, stats[v])' = StatLine(v, stats[v])
      BY <2>1 DEF StatLine
    <3>4. Silent(v)' <=> Silent(v)
      BY <2>1, <3>2 DEF Silent
    <3>5. /\ response'[conn'[v]] = response[conn[v]]
          /\ HasPageOrWhy(conn[v]) => HasPageOrWhy(conn[v])'
      BY <2>1, <3>2 DEF HasPageOrWhy
    <3> QED
      BY <1>1, <2>1, <3>3, <3>4, <3>5
  <2> QED
    BY <2>2, <2>3
<1>3. Answer(w)'
  <2>1. CASE Dequeue(w)
    <3>1. /\ pc'[w] = "read" /\ conn'[w] = taken + 1 /\ response' = response
          /\ taken + 1 \in Conns /\ taken + 1 > taken
      BY <2>1, MaxConnsAssumption DEF HandlerInv, Dequeue, At, Goto, client, TypeOK, Conns
    <3>2. response[taken + 1] = <<>>
      BY <3>1 DEF HandlerInv, ConnsOwned
    <3> QED
      BY <3>1, <3>2 DEF Silent
  <2>2. CASE Handle(w)
    <3>1. conn' = conn
      BY <2>2, HandleKeeps DEF HandlerInv
    <3>2. StatLine(w, stats[w])' = StatLine(w, stats'[w])
      BY <3>1 DEF StatLine
    <3>3. pc'[w] # "read"
      BY <2>2, HandleKeeps DEF HandlerInv
    <3>4. Silent(w)' <=> \/ pc'[w] \in {"serveStatic", "serveDynamic", "getLog", "servePost"}
                         \/ pc'[w] = "lost" /\ request'[conn[w]] # "deaf"
                         \/ pc'[w] = "close" /\ request'[conn[w]] = "nothing"
      BY <3>1, <3>3 DEF Silent
    <3> QED
      BY <2>2, <3>1, <3>2, <3>4, HandleResponds
  <2>3. CASE CloseConn(w)
    BY <2>3 DEF CloseConn, At, Goto, HandlerInv, TypeOK
  <2> QED
    BY <2>1, <2>2, <2>3 DEF WorkerStep_
<1>4. ASSUME NEW c \in Answered'
      PROVE  \E k \in DOMAIN response'[c] : FirstStat(response'[c], response'[c][k])
  <2>1. CASE c \in closed
    <3>1. request'[c] = request[c] /\ response'[c] = response[c]
      BY <2>1, ClosedStay
    <3> QED
      BY <2>1, <3>1 DEF HandlerInv, Responded, Answered
  <2>2. CASE c \notin closed
    <3>1. CloseConn(w) /\ c = conn[w] /\ response' = response /\ request' = request
      BY <2>2, HandleKeeps DEF WorkerStep_, Dequeue, CloseConn, client, HandlerInv, Answered
    <3>2. pc[w] = "close" /\ request[c] # "nothing"
      BY <3>1 DEF CloseConn, At, Answered
    <3>3. FirstStat(response[c], StatLine(w, stats[w]))
      BY <1>1, <3>1, <3>2 DEF Silent
    <3>4. PICK k \in DOMAIN response[c] : response[c][k] = StatLine(w, stats[w])
      BY <3>3 DEF FirstStat
    <3> QED
      BY <3>1, <3>3, <3>4
  <2> QED
    BY <2>1, <2>2
<1> QED
  BY <1>2, <1>3, <1>4 DEF Responded

(* The entry a thread is about to append is the text of its own connection. *)
LEMMA ComposedStep ==
  ASSUME HandlerInv, NEW w \in Workers, WorkerStep_(w)
  PROVE  Composed'
<1> DEFINE Entry(v) ==
      pc[v] \in {"serveStatic", "serveDynamic", "script", "addToLog"} =>
        \E s \in Counters :
          /\ stats_buf[v] = AppendStats(v, s)
          /\ (pc[v] = "addToLog" /\ request[conn[v]] = "empty") \/ s = stats[v]
<1>1. \A v \in Workers : Entry(v)
  BY DEF HandlerInv, Composed
<1>2. ASSUME NEW v \in Workers, conn'[v] = conn[v], NEW s
      PROVE  AppendStats(v, s)' = AppendStats(v, s)
  BY <1>2 DEF AppendStats
<1>3. ASSUME NEW v \in Workers \ {w} PROVE Entry(v)'
  <2>1. /\ pc'[v] = pc[v] /\ conn'[v] = conn[v] /\ stats'[v] = stats[v]
        /\ stats_buf'[v] = stats_buf[v]
    BY OthersStay DEF HandlerInv
  <2>2. pc[v] # "idle" => request'[conn[v]] = request[conn[v]]
    <3>1. pc[v] # "idle" => conn[v] \in Conns \ {conn[w]}
      BY DEF HandlerInv, TypeOK, ConnsOwned
    <3> QED
      BY <3>1, OthersStay DEF HandlerInv
  <2> QED
    BY <1>1, <1>2, <2>1, <2>2
<1>4. Entry(w)'
  <2> USE DEF At, Goto
  <2>1. /\ pc \in [Workers -> {"idle", "read", "serveStatic", "serveDynamic", "script",
                               "addToLog", "getLog", "servePost", "close", "lost"}]
        /\ stats_buf \in [Workers -> Seq(Lines)] /\ stats'[w] \in Counters
    BY StatsAreTyped DEF HandlerInv, TypeOK, TextsTyped
  <2>2. CASE Dequeue(w) \/ CloseConn(w)
    BY <2>1, <2>2 DEF Dequeue, CloseConn
  <2>3. CASE \/ HandleNothing(w) \/ HandleSilent(w) \/ HandleCut(w) \/ HandleError(w)
             \/ HandlePost(w) \/ WriteBlocks(w) \/ AddToLog(w) \/ GetLog(w) \/ ServePost(w)
    BY <2>1, <2>3 DEF HandleNothing, HandleSilent, HandleCut, HandleError, HandlePost,
       WriteBlocks, AddToLog, GetLog, ServePost
  <2>4. CASE HandleStatic(w) \/ HandleDynamic(w)
    <3> PICK s \in Counters :
          s = stats'[w] /\ stats_buf' = [stats_buf EXCEPT ![w] = AppendStats(w, s)]
      BY <2>1, <2>4 DEF HandleStatic, HandleDynamic
    <3>1. stats_buf'[w] = AppendStats(w, s) /\ conn'[w] = conn[w]
      BY <2>1, <2>4 DEF HandleStatic, HandleDynamic
    <3> QED
      BY <1>2, <3>1
  <2>5. CASE ServeStatic(w) \/ OpenFails(w) \/ ServeDynamic(w) \/ RunScript(w)
    <3>1. /\ stats_buf'[w] = stats_buf[w] /\ conn'[w] = conn[w] /\ stats'[w] = stats[w]
          /\ pc[w] \in {"serveStatic", "serveDynamic", "script"}
      BY <2>5 DEF ServeStatic, OpenFails, ServeDynamic, RunScript, local
    <3> QED
      BY <1>1, <1>2, <3>1
  <2>6. CASE ServeEmpty(w)
    <3>1. /\ stats_buf'[w] = stats_buf[w] /\ conn'[w] = conn[w] /\ request' = request
          /\ pc[w] = "serveStatic" /\ request[conn[w]] = "empty" /\ pc'[w] = "addToLog"
      BY <2>1, <2>6 DEF ServeEmpty
    <3> QED
      BY <1>1, <1>2, <3>1
  <2> QED
    BY <2>2, <2>3, <2>4, <2>5, <2>6 DEF WorkerStep_, Handle
<1> QED
  BY <1>3, <1>4 DEF Composed

-----------------------------------------------------------------------------
(* The log.                                                                *)

(* An entry that is added is the last one.                                 *)
LEMMA EntryAdded ==
  ASSUME NEW L \in Seq(Lines), NEW l \in Lines, l.line = "Stat"
  PROVE  /\ \A i \in DOMAIN L : i \in DOMAIN (L \o <<l, Blank>>) /\ (L \o <<l, Blank>>)[i] = L[i]
         /\ \A i : IsStat(L \o <<l, Blank>>, i) <=> IsStat(L, i) \/ i = Len(L) + 1
         /\ (L \o <<l, Blank>>)[Len(L) + 1] = l /\ Len(L) + 1 \in DOMAIN (L \o <<l, Blank>>)
         /\ ~ IsStat(L, Len(L) + 1)
<1> DEFINE M == L \o <<l, Blank>>
<1>1. <<l, Blank>> \in Seq(Lines)
  BY ConstLines
<1>2. /\ M \in Seq(Lines) /\ DOMAIN M = 1..(Len(L) + 2) /\ DOMAIN L = 1..Len(L)
      /\ M[Len(L) + 1] = l /\ M[Len(L) + 2] = Blank
      /\ \A i \in DOMAIN L : i \in DOMAIN M /\ M[i] = L[i]
  BY <1>1
<1>3. \A i : i \in DOMAIN M <=> i \in DOMAIN L \/ i = Len(L) + 1 \/ i = Len(L) + 2
  BY <1>2
<1>4. Len(L) + 1 \notin DOMAIN L /\ Len(L) + 2 \notin DOMAIN L /\ Len(L) + 1 # Len(L) + 2
  BY <1>2
<1> HIDE DEF M
<1>5. \A i : IsStat(M, i) <=> IsStat(L, i) \/ i = Len(L) + 1
  BY <1>2, <1>3, <1>4, NoStatLines DEF IsStat
<1>6. ~ IsStat(L, Len(L) + 1)
  BY <1>4 DEF IsStat
<1> QED
  BY <1>2, <1>3, <1>5, <1>6 DEF M

(* What a step does to the log.                                            *)
LEMMA LogStep ==
  ASSUME HandlerInv, NEW w \in Workers, WorkerStep_(w)
  PROVE  \/ log' = log /\ ~ AddToLog(w)
         \/ /\ AddToLog(w) /\ pc[w] = "addToLog" /\ pc'[w] = "close"
            /\ conn[w] \in Conns /\ conn' = conn
            /\ stats' = stats /\ request' = request /\ response' = response
            /\ script' = script
            /\ \E s \in Counters :
                 /\ log' = log \o <<StatLine(w, s), Blank>>
                 /\ request[conn[w]] # "empty" => s = stats[w]
<1>1. CASE AddToLog(w)
  <2>1. /\ pc[w] = "addToLog" /\ pc'[w] = "close" /\ conn' = conn /\ stats' = stats
        /\ request' = request /\ response' = response /\ script' = script
        /\ log' = log \o stats_buf[w]
    BY <1>1 DEF AddToLog, At, Goto, local, client, HandlerInv, TypeOK
  <2>2. PICK s \in Counters : /\ stats_buf[w] = AppendStats(w, s)
                              /\ request[conn[w]] # "empty" => s = stats[w]
    BY <2>1 DEF HandlerInv, Composed
  <2>3. log' = log \o <<StatLine(w, s), Blank>>
    BY <2>1, <2>2, AppendStatsIs
  <2>4. conn[w] \in Conns
    BY <2>1 DEF HandlerInv, TypeOK
  <2> QED
    BY <1>1, <2>1, <2>2, <2>3, <2>4
<1>2. CASE ~ AddToLog(w)
  BY <1>2 DEF WorkerStep_, Handle, Dequeue, CloseConn, HandleNothing, HandleSilent, HandleCut,
     HandleError, HandleStatic, HandleDynamic, HandlePost, ServeStatic, WriteBlocks, OpenFails,
     ServeEmpty, ServeDynamic, RunScript, GetLog, ServePost, client
<1> QED
  BY <1>1, <1>2

(* A request that is over stays as it is.                                  *)
LEMMA OverStay ==
  ASSUME HandlerInv, NEW w \in Workers, WorkerStep_(w), NEW c \in Conns, Over(c)
  PROVE  /\ Over(c)' /\ request'[c] = request[c] /\ response'[c] = response[c]
         /\ script'[c] = script[c]
         /\ StatOf(c)' = StatOf(c)
         /\ ~ Handle(w) \/ c # conn[w]
<1>1. CASE c \in closed
  BY <1>1, ClosedStay DEF Over
<1>2. CASE c \notin closed
  <2>1. PICK v \in Workers : conn[v] = c /\ pc[v] = "close"
    BY <1>2 DEF Over
  <2>2. CASE v = w
    <3>1. ~ Handle(w)
      BY <2>1, <2>2, HandleKeeps DEF HandlerInv
    <3>2. CloseConn(w)
      BY <2>1, <2>2, <3>1 DEF WorkerStep_, Dequeue, At
    <3>3. c \in closed' /\ request' = request /\ response' = response /\ script' = script
      BY <2>1, <2>2, <3>2 DEF CloseConn
    <3> QED
      BY <3>1, <3>3 DEF Over, StatOf, StatPos
  <2>3. CASE v # w
    <3>1. conn'[v] = c /\ pc'[v] = "close"
      BY <2>1, <2>3, OthersStay DEF HandlerInv
    <3>2. c # conn[w]
      BY <2>1, <2>3, ConnNumbers DEF HandlerInv, ConnsOwned
    <3>3. request'[c] = request[c] /\ response'[c] = response[c] /\ script'[c] = script[c]
      BY <3>2, OthersStay DEF HandlerInv
    <3> QED
      BY <3>1, <3>2, <3>3 DEF Over, StatOf, StatPos
  <2> QED
    BY <2>2, <2>3
<1> QED
  BY <1>1, <1>2

(* Only the end of a request's handling makes it be over.                  *)
LEMMA BecomesOver ==
  ASSUME HandlerInv, NEW w \in Workers, WorkerStep_(w), NEW c \in Conns, Over(c)', ~ Over(c)
  PROVE  Handle(w) /\ c = conn[w] /\ pc'[w] = "close"
<1>1. CASE c \in closed'
  <2>1. CloseConn(w) /\ c = conn[w]
    BY <1>1, HandleKeeps DEF WorkerStep_, Dequeue, CloseConn, client, HandlerInv, Over
  <2>2. pc[w] = "close"
    BY <2>1 DEF CloseConn, At
  <2> QED
    BY <2>1, <2>2 DEF Over
<1>2. CASE c \notin closed'
  <2>1. PICK v \in Workers : conn'[v] = c /\ pc'[v] = "close"
    BY <1>2 DEF Over
  <2>2. v = w
    BY <2>1, OthersStay DEF HandlerInv, Over
  <2>3. Handle(w)
    BY <2>1, <2>2 DEF WorkerStep_, Dequeue, CloseConn, Goto, HandlerInv, TypeOK
  <2>4. conn' = conn
    BY <2>3, HandleKeeps DEF HandlerInv
  <2> QED
    BY <2>1, <2>2, <2>3, <2>4
<1> QED
  BY <1>1, <1>2

(* Every line of the log belongs to a connection whose response is complete. *)
LEMMA LogOfOverStep ==
  ASSUME HandlerInv, NEW w \in Workers, WorkerStep_(w)
  PROVE  LogOfOver'
<1> DEFINE Good(c) == /\ c \in 1..taken /\ Over(c) /\ request[c] \in {"static", "empty", "cgi"}
                      /\ HasPageOrWhy(c)
<1>1. taken \in Nat /\ taken' \in Nat /\ taken <= taken' /\ 1..taken \subseteq Conns
  <2>1. taken \in 0..MaxConns
    BY DEF HandlerInv, TypeOK
  <2>2. taken' = taken \/ taken' = taken + 1
    BY HandleKeeps DEF HandlerInv, WorkerStep_, Dequeue, CloseConn, main
  <2> QED
    BY <2>1, <2>2, MaxConnsAssumption DEF Conns
<1>2. ASSUME NEW c, Good(c) PROVE Good(c)'
  <2>1. c \in Conns
    BY <1>1, <1>2
  <2>2. /\ Over(c)' /\ request'[c] = request[c] /\ response'[c] = response[c]
        /\ script'[c] = script[c]
    BY <1>2, <2>1, OverStay
  <2> QED
    BY <1>1, <1>2, <2>2 DEF HasPageOrWhy
<1>3. \A i \in DOMAIN log : IsStat(log, i) => Good(log[i].conn)
  BY DEF HandlerInv, LogOfOver
<1>4. CASE log' = log
  <2>1. \A i \in DOMAIN log' : IsStat(log', i) => \E c : c = log'[i].conn /\ Good(c)'
    BY <1>2, <1>3, <1>4
  <2> HIDE DEF Good
  <2>2. \A i \in DOMAIN log' : IsStat(log', i) => Good(log[i].conn)'
    BY <2>1, <1>4
  <2> QED
    BY <2>2 DEF Good, LogOfOver
<1>5. CASE log' # log
  <2> PICK s \in Counters, d \in Conns, l \in Lines :
        /\ d = conn[w] /\ l = StatLine(w, s) /\ log' = log \o <<l, Blank>>
        /\ pc[w] = "addToLog" /\ pc'[w] = "close" /\ conn' = conn
        /\ request' = request /\ response' = response /\ script' = script
    BY <1>5, LogStep, StatLineTyped
  <2>1. l.line = "Stat" /\ l.conn = d /\ log \in Seq(Lines)
    BY StatLineIs DEF HandlerInv, TextsTyped
  <2>2. Good(d)'
    <3>1. d \in 1..taken /\ request[d] \in {"static", "empty", "cgi"} /\ HasPageOrWhy(d)
      BY ConnNumbers DEF HandlerInv, ConnsOwned, AtRequest, At_, Responded
    <3>2. Over(d)'
      BY DEF Over
    <3>3. HasPageOrWhy(d)'
      BY <3>1 DEF HasPageOrWhy
    <3> QED
      BY <1>1, <3>1, <3>2, <3>3
  <2>3. ASSUME NEW i \in DOMAIN log', IsStat(log', i)
        PROVE  \E c : c = log'[i].conn /\ Good(c)'
    <3>1. IsStat(log, i) \/ i = Len(log) + 1
      BY <2>1, <2>3, EntryAdded
    <3>2. CASE IsStat(log, i)
      <4>1. i \in DOMAIN log
        BY <3>2 DEF IsStat
      <4>2. log'[i] = log[i]
        BY <2>1, <4>1, EntryAdded
      <4> QED
        BY <1>2, <1>3, <3>2, <4>1, <4>2
    <3>3. CASE i = Len(log) + 1
      <4>1. log'[i] = l
        BY <2>1, <3>3, EntryAdded
      <4> QED
        BY <2>1, <2>2, <4>1
    <3> QED
      BY <3>1, <3>2, <3>3
  <2> QED
    BY <2>3 DEF LogOfOver
<1> QED
  BY <1>4, <1>5

(* The entries of a connection are those it had, and the added one.        *)
LEMMA OverIsLoggedStep ==
  ASSUME HandlerInv, NEW w \in Workers, WorkerStep_(w)
  PROVE  OverIsLogged'
<1> SUFFICES ASSUME NEW c \in Conns, Over(c)', request'[c] \in {"static", "cgi"}
             PROVE  \E i \in EntriesOf(c)' : EntriesOf(c)' = {i} /\ log'[i] = StatOf(c)'
  BY DEF OverIsLogged
<1>1. CASE Over(c)
  <2>1. /\ request'[c] = request[c] /\ StatOf(c)' = StatOf(c)
        /\ ~ Handle(w) \/ c # conn[w]
    BY <1>1, OverStay
  <2>2. PICK i \in EntriesOf(c) : EntriesOf(c) = {i} /\ log[i] = StatOf(c)
    BY <1>1, <2>1 DEF HandlerInv, OverIsLogged
  <2>3. i \in DOMAIN log
    BY <2>2 DEF EntriesOf
  <2>4. CASE log' = log
    BY <2>1, <2>2, <2>4 DEF EntriesOf
  <2>5. CASE log' # log
    <3> PICK s \in Counters, l \in Lines :
          l = StatLine(w, s) /\ log' = log \o <<l, Blank>> /\ AddToLog(w)
      BY <2>5, LogStep, StatLineTyped
    <3>1. l.line = "Stat" /\ l.conn # c /\ log \in Seq(Lines)
      BY <2>1, StatLineIs DEF HandlerInv, TextsTyped, Handle
    <3>2. \A j : j \in EntriesOf(c)' <=> j \in EntriesOf(c)
      <4>1. \A j : IsStat(log', j) <=> IsStat(log, j) \/ j = Len(log) + 1
        BY <3>1, EntryAdded
      <4>2. \A j \in DOMAIN log : j \in DOMAIN log' /\ log'[j] = log[j]
        BY <3>1, EntryAdded
      <4>3. log'[Len(log) + 1] = l /\ ~ IsStat(log, Len(log) + 1)
        BY <3>1, EntryAdded
      <4>4. \A j : IsStat(log, j) => j \in DOMAIN log
        BY DEF IsStat
      <4>5. \A j : IsStat(log', j) => j \in DOMAIN log'
        BY DEF IsStat
      <4> QED
        BY <3>1, <4>1, <4>2, <4>3, <4>4, <4>5 DEF EntriesOf
    <3>3. EntriesOf(c)' = EntriesOf(c)
      BY <3>2
    <3>4. log'[i] = log[i]
      BY <2>3, <3>1, EntryAdded
    <3> QED
      BY <2>1, <2>2, <3>3, <3>4
  <2> QED
    BY <2>4, <2>5
<1>2. CASE ~ Over(c)
  <2>1. Handle(w) /\ c = conn[w] /\ pc'[w] = "close"
    BY <1>2, BecomesOver
  <2>2. pc[w] = "addToLog"
    BY <2>1, HandleMoves DEF Moves
  <2>3. AddToLog(w)
    BY <2>1, <2>2 DEF Handle, At, HandleNothing, HandleSilent, HandleCut, HandleError,
       HandleStatic, HandleDynamic, HandlePost, Read, ServeStatic, WriteBlocks, OpenFails,
       ServeEmpty, ServeDynamic, RunScript, GetLog, ServePost
  <2> PICK s \in Counters, l \in Lines :
        /\ l = StatLine(w, s) /\ log' = log \o <<l, Blank>>
        /\ s = stats[w] /\ request' = request /\ stats' = stats
    BY <2>1, <2>3, LogStep, StatLineTyped
  <2>4. l.line = "Stat" /\ l.conn = c /\ log \in Seq(Lines)
    BY <2>1, StatLineIs DEF HandlerInv, TextsTyped
  <2>5. EntriesOf(c) = {}
    BY <1>2 DEF HandlerInv, LogOfOver, EntriesOf
  <2>6. \A j : j \in EntriesOf(c)' <=> j = Len(log) + 1
    <3>1. /\ \A j : IsStat(log', j) <=> IsStat(log, j) \/ j = Len(log) + 1
          /\ \A j \in DOMAIN log : j \in DOMAIN log' /\ log'[j] = log[j]
          /\ log'[Len(log) + 1] = l /\ Len(log) + 1 \in DOMAIN log'
      BY <2>4, EntryAdded
    <3>2. \A j : IsStat(log, j) => j \in DOMAIN log /\ log[j].conn # c
      BY <2>5 DEF IsStat, EntriesOf
    <3> QED
      BY <2>4, <3>1, <3>2 DEF EntriesOf
  <2>7. log'[Len(log) + 1] = l
    BY <2>4, EntryAdded
  <2>8. StatOf(c)' = l
    <3>1. request'[conn[w]] # "nothing"
      BY <2>1
    <3>2. FirstStat(response'[c], l) /\ response'[c] \in Seq(Lines)
      BY <2>1, <3>1, HandleResponds
    <3> QED
      BY <3>2, FirstStatIs DEF StatOf, StatPos
  <2> QED
    BY <2>6, <2>7, <2>8
<1> QED
  BY <1>1, <1>2

-----------------------------------------------------------------------------
(* The invariant, and what follows from it.                                *)

(* HandlerInv holds before anything is dequeued. *)
LEMMA InitHandler == Init => HandlerInv
<1> SUFFICES ASSUME Init PROVE HandlerInv
  OBVIOUS
<1>1. TypeOK
  BY MaxConnsAssumption, ConnNumbers DEF Init, TypeOK
<1>2. TextsTyped
  BY EmptyText DEF Init, TextsTyped
<1>3. ConnsOwned /\ AtRequest /\ Composed
  BY DEF Init, ConnsOwned, AtRequest, At_, Composed
<1>4. Responded
  BY DEF Init, Responded, Answered
<1>5. LogOfOver
  BY DEF Init, LogOfOver
<1>6. OverIsLogged
  BY DEF Init, OverIsLogged, Over
<1>7. CountsKept
  <2> SUFFICES ASSUME NEW w \in Workers
               PROVE  /\ stats[w].total = Cardinality(Counted(w))
                      /\ stats[w].static =
                           Cardinality(CountedAs(w, {"static", "deaf"}) \cup InHand(w, {"serveStatic"}))
                      /\ stats[w].dynamic = Cardinality(CountedAs(w, {"cgi"}))
                      /\ stats[w].post = Cardinality(CountedAs(w, {"post"}))
                      /\ {StatOf(c).of.total : c \in AnsweredBy(w)} = 1..Cardinality(AnsweredBy(w))
    BY DEF CountsKept
  <2>1. AnsweredBy(w) = {}
    BY DEF Init, AnsweredBy, Answered
  <2>2. Counted(w) = {} /\ InHand(w, {"serveStatic"}) = {}
    BY <2>1 DEF Init, Counted, InHand
  <2>3. \A kinds : CountedAs(w, kinds) = {}
    BY <2>2 DEF CountedAs
  <2>4. stats[w] = [total |-> 0, static |-> 0, dynamic |-> 0, post |-> 0]
    BY DEF Init
  <2> HIDE DEF Init
  <2>5. CountedAs(w, {"static", "deaf"}) \cup InHand(w, {"serveStatic"}) = {}
    BY <2>2, <2>3
  <2> QED
    BY <2>1, <2>2, <2>3, <2>4, <2>5, FS_EmptySet
<1> QED
  BY <1>1, <1>2, <1>3, <1>4, <1>5, <1>6, <1>7 DEF HandlerInv

(* HandlerInv depends on the variables only. *)
LEMMA StutterHandler == HandlerInv /\ UNCHANGED vars => HandlerInv'
<1> SUFFICES ASSUME HandlerInv, UNCHANGED vars PROVE HandlerInv'
  OBVIOUS
<1> USE DEF vars, local, main, client
<1>1. TypeOK' /\ TextsTyped' /\ ConnsOwned'
  BY DEF HandlerInv, TypeOK, TextsTyped, ConnsOwned
<1>2. AtRequest'
  BY DEF HandlerInv, AtRequest, At_
<1>3. Responded' /\ Composed'
  BY DEF HandlerInv, Responded, Composed, Silent, StatLine, AppendStats, Answered, HasPageOrWhy
<1>4. \A c : StatOf(c)' = StatOf(c) /\ EntriesOf(c)' = EntriesOf(c) /\ (Over(c)' <=> Over(c))
  BY DEF StatOf, StatPos, EntriesOf, Over
<1>5. LogOfOver' /\ OverIsLogged'
  BY <1>4 DEF HandlerInv, LogOfOver, OverIsLogged, Over, HasPageOrWhy
<1>6. \A w : AnsweredBy(w)' = AnsweredBy(w)
  BY <1>4 DEF AnsweredBy, Answered
<1>7. \A w : Counted(w)' = Counted(w) /\ \A labels : InHand(w, labels)' = InHand(w, labels)
  BY <1>6 DEF Counted, InHand
<1>8. \A w, kinds : CountedAs(w, kinds)' = CountedAs(w, kinds)
  BY <1>7 DEF CountedAs
<1>9. CountsKept'
  BY <1>4, <1>6, <1>7, <1>8 DEF HandlerInv, CountsKept
<1> QED
  BY <1>1, <1>2, <1>3, <1>5, <1>9 DEF HandlerInv

(* The response of a request that is over has its header. *)
LEMMA OverHasHead ==
  ASSUME HandlerInv, NEW c \in Conns, Over(c), request[c] # "nothing"
  PROVE  \E l : FirstStat(response[c], l)
<1>1. CASE c \in closed
  BY <1>1 DEF HandlerInv, Responded, Answered
<1>2. CASE c \notin closed
  <2>1. PICK v \in Workers : conn[v] = c /\ pc[v] = "close"
    BY <1>2 DEF Over
  <2>2. ~ Silent(v)
    BY <2>1 DEF Silent
  <2> QED
    BY <2>1, <2>2 DEF HandlerInv, Responded
<1> QED
  BY <1>1, <1>2

(* A script that goes on only adds to the response of its own connection,
   behind the first Stat lines. *)
LEMMA ContinueAdds ==
  ASSUME HandlerInv, NEW c \in Conns, ContinueScript(c)
  PROVE  /\ request[c] = "cgi" /\ response' \in [Conns -> Seq(Lines)]
         /\ \A d \in Conns \ {c} : response'[d] = response[d] /\ script'[d] = script[d]
         /\ \A d \in Conns : \A l : FirstStat(response[d], l) => FirstStat(response'[d], l)
         /\ \A d \in Conns : \A l : FirstStat(response[d], l) => StatOf(d)' = StatOf(d)
         /\ \A d \in Conns : HasPageOrWhy(d) => HasPageOrWhy(d)'
<1>1. script[c] = "stopped" /\ request' = request
  BY DEF ContinueScript
<1>2. request[c] = "cgi"
  BY <1>1 DEF HandlerInv, AtRequest
<1>3. ScriptText \in Seq(Lines) /\ HasPage(ScriptText)
  BY ScriptTextIs
<1>4. response \in [Conns -> Seq(Lines)]
  BY DEF HandlerInv, TextsTyped
<1> PICK t \in Seq(Lines) : t = response[c]
  BY <1>4
<1>5. t \o ScriptText \in Seq(Lines)
  BY <1>3
<1>6. response' = [response EXCEPT ![c] = t \o ScriptText]
  BY DEF ContinueScript
<1>7. response' \in [Conns -> Seq(Lines)] /\ response'[c] = t \o ScriptText
  BY <1>4, <1>5, <1>6
<1>8. \A d \in Conns \ {c} : response'[d] = response[d] /\ script'[d] = script[d]
  BY <1>4, <1>6 DEF ContinueScript, HandlerInv, TypeOK
<1>9. ASSUME NEW d \in Conns, NEW l, FirstStat(response[d], l)
      PROVE  FirstStat(response'[d], l)
  <2>1. CASE d = c
    BY <1>3, <1>7, <1>9, <2>1, FirstStatStays
  <2>2. CASE d # c
    BY <1>8, <1>9, <2>2
  <2> QED
    BY <2>1, <2>2
<1>10. ASSUME NEW d \in Conns, NEW l, FirstStat(response[d], l)
       PROVE  StatOf(d)' = StatOf(d)
  <2>1. StatOf(d) = l
    BY <1>4, <1>10, FirstStatIs DEF StatOf, StatPos
  <2>2. FirstStat(response'[d], l) /\ response'[d] \in Seq(Lines)
    BY <1>7, <1>9, <1>10
  <2>3. StatOf(d)' = l
    BY <2>2, FirstStatIs DEF StatOf, StatPos
  <2> QED
    BY <2>1, <2>3
<1>11. ASSUME NEW d \in Conns, HasPageOrWhy(d) PROVE HasPageOrWhy(d)'
  <2>1. CASE d = c
    <3>1. HasPage(response'[c])
      BY <1>3, <1>7, PageStays
    <3> QED
      BY <2>1, <3>1 DEF HasPageOrWhy
  <2>2. CASE d # c
    BY <1>1, <1>8, <1>11, <2>2 DEF HasPageOrWhy
  <2> QED
    BY <2>1, <2>2
<1> QED
  BY <1>2, <1>7, <1>8, <1>9, <1>10, <1>11

(* So it keeps HandlerInv: nothing else looks at what comes behind. *)
LEMMA ContinueKeeps ==
  ASSUME HandlerInv, NEW c \in Conns, ContinueScript(c)
  PROVE  HandlerInv'
<1>1. /\ pc' = pc /\ conn' = conn /\ stats' = stats /\ stats_buf' = stats_buf /\ body' = body
      /\ taken' = taken /\ alive' = alive /\ request' = request /\ closed' = closed
      /\ log' = log
      /\ script[c] = "stopped" /\ script' = [script EXCEPT ![c] = "done"]
  BY DEF ContinueScript, local, main
<1>2. /\ request[c] = "cgi" /\ response' \in [Conns -> Seq(Lines)]
      /\ \A d \in Conns \ {c} : response'[d] = response[d] /\ script'[d] = script[d]
  BY ContinueAdds
<1>3. ASSUME NEW d \in Answered
      PROVE  d \in Conns /\ StatOf(d)' = StatOf(d)
  <2>1. d \in Conns
    BY AnsweredAreConns DEF Answered
  <2>2. PICK k \in DOMAIN response[d] : FirstStat(response[d], response[d][k])
    BY DEF HandlerInv, Responded
  <2> QED
    BY <2>1, <2>2, ContinueAdds
<1>4. \A v \in Workers : Silent(v) /\ pc[v] # "idle" => conn[v] # c
  <2> SUFFICES ASSUME NEW v \in Workers, Silent(v), pc[v] # "idle", conn[v] = c
               PROVE  FALSE
    OBVIOUS
  <2>1. pc[v] \notin {"addToLog", "close"}
    BY <1>2 DEF Silent
  <2> QED
    BY <1>1, <2>1, ConnNumbers DEF HandlerInv, AtRequest
<1>5. TypeOK' /\ TextsTyped'
  BY <1>1, <1>2 DEF HandlerInv, TypeOK, TextsTyped
<1>6. ConnsOwned'
  BY <1>1, <1>2 DEF HandlerInv, ConnsOwned
<1>7. AtRequest'
  <2>1. \A d \in Conns : script'[d] # "none" => request[d] = "cgi"
    BY <1>2 DEF HandlerInv, AtRequest
  <2>2. \A v \in Workers : pc[v] \notin {"addToLog", "close"} =>
          conn[v] = NoConn \/ script'[conn[v]] = "none"
    <3>1. \A v \in Workers : pc[v] \notin {"addToLog", "close"} => conn[v] # c
      BY <1>1, ConnNumbers DEF HandlerInv, AtRequest
    <3>2. \A v \in Workers : conn[v] # NoConn => conn[v] \in Conns
      BY DEF HandlerInv, TypeOK
    <3> QED
      BY <1>2, <3>1, <3>2 DEF HandlerInv, AtRequest
  <2> QED
    BY <1>1, <2>1, <2>2 DEF HandlerInv, AtRequest, At_
<1>8. Responded'
  <2>1. ASSUME NEW v \in Workers, pc[v] # "idle"
        PROVE  IF Silent(v)' THEN response'[conn[v]] = <<>>
               ELSE FirstStat(response'[conn[v]], StatLine(v, stats[v])')
    <3>1. conn[v] \in Conns
      BY <2>1 DEF HandlerInv, TypeOK
    <3>2. (Silent(v)' <=> Silent(v)) /\ StatLine(v, stats[v])' = StatLine(v, stats[v])
      BY <1>1 DEF Silent, StatLine
    <3>3. CASE Silent(v)
      BY <1>2, <1>4, <2>1, <3>1, <3>2, <3>3 DEF HandlerInv, Responded
    <3>4. CASE ~ Silent(v)
      <4>1. FirstStat(response[conn[v]], StatLine(v, stats[v]))
        BY <2>1, <3>4 DEF HandlerInv, Responded
      <4> QED
        BY <3>1, <3>2, <3>4, <4>1, ContinueAdds
    <3> QED
      BY <3>3, <3>4
  <2>2. ASSUME NEW v \in Workers, pc[v] = "addToLog" PROVE HasPageOrWhy(conn[v])'
    <3> PICK d \in Conns : d = conn[v]
      BY <2>2 DEF HandlerInv, TypeOK
    <3>1. HasPageOrWhy(d)
      BY <2>2 DEF HandlerInv, Responded
    <3>2. HasPageOrWhy(d)'
      BY <3>1, ContinueAdds
    <3> QED
      BY <1>1, <3>2 DEF HasPageOrWhy
  <2>3. ASSUME NEW d \in Answered
        PROVE  \E k \in DOMAIN response'[d] : FirstStat(response'[d], response'[d][k])
    <3>1. PICK k \in DOMAIN response[d] : FirstStat(response[d], response[d][k])
      BY DEF HandlerInv, Responded
    <3> PICK l : l = response[d][k]
      OBVIOUS
    <3>2. FirstStat(response'[d], l)
      BY <1>3, <3>1, ContinueAdds
    <3>3. PICK j \in DOMAIN response'[d] : response'[d][j] = l
      BY <3>2 DEF FirstStat
    <3> QED
      BY <3>2, <3>3
  <2>4. Answered' = Answered
    BY <1>1 DEF Answered
  <2> QED
    BY <1>1, <2>1, <2>2, <2>3, <2>4 DEF Responded
<1>9. Composed'
  BY <1>1 DEF HandlerInv, Composed, AppendStats
<1>10. \A d : (Over(d)' <=> Over(d)) /\ EntriesOf(d)' = EntriesOf(d)
  BY <1>1 DEF Over, EntriesOf
<1>11. LogOfOver'
  <2> SUFFICES ASSUME NEW i \in DOMAIN log, IsStat(log, i)
               PROVE  /\ log[i].conn \in 1..taken /\ Over(log[i].conn)'
                      /\ request[log[i].conn] \in {"static", "empty", "cgi"}
                      /\ HasPageOrWhy(log[i].conn)'
    BY <1>1 DEF LogOfOver
  <2>1. PICK d : d = log[i].conn /\ d \in Conns
    BY MaxConnsAssumption DEF HandlerInv, LogOfOver, TypeOK, Conns
  <2>2. d \in 1..taken /\ Over(d) /\ request[d] \in {"static", "empty", "cgi"} /\ HasPageOrWhy(d)
    BY <2>1 DEF HandlerInv, LogOfOver
  <2>3. Over(d)' /\ HasPageOrWhy(d)'
    BY <1>10, <2>1, <2>2, ContinueAdds
  <2>4. log'[i].conn = d
    BY <1>1, <2>1
  <2> QED
    BY <2>1, <2>2, <2>3, <2>4 DEF HasPageOrWhy, Over
<1>12. OverIsLogged'
  <2> SUFFICES ASSUME NEW d \in Conns, Over(d), request[d] \in {"static", "cgi"}
               PROVE  \E i \in EntriesOf(d) : EntriesOf(d) = {i} /\ log[i] = StatOf(d)'
    BY <1>1, <1>10 DEF OverIsLogged
  <2>1. PICK i \in EntriesOf(d) : EntriesOf(d) = {i} /\ log[i] = StatOf(d)
    BY DEF HandlerInv, OverIsLogged
  <2>2. StatOf(d)' = StatOf(d)
    BY OverHasHead, ContinueAdds
  <2> QED
    BY <2>1, <2>2
<1>13. \A v \in Workers : AnsweredBy(v)' = AnsweredBy(v)
  <2>1. Answered' = Answered
    BY <1>1 DEF Answered
  <2> QED
    BY <1>3, <2>1 DEF AnsweredBy
<1>14. \A v \in Workers : Counted(v)' = Counted(v)
  BY <1>1, <1>13 DEF Counted
<1>15. CountsKept'
  <2>1. \A v \in Workers : \A kinds : CountedAs(v, kinds)' = CountedAs(v, kinds)
    BY <1>1, <1>14 DEF CountedAs
  <2>2. \A v \in Workers : InHand(v, {"serveStatic"})' = InHand(v, {"serveStatic"})
    BY <1>1 DEF InHand
  <2>3. ASSUME NEW v \in Workers
        PROVE  {StatOf(d).of.total : d \in AnsweredBy(v)}' = {StatOf(d).of.total : d \in AnsweredBy(v)}
    BY <1>3, <1>13 DEF AnsweredBy
  <2> QED
    BY <1>1, <1>13, <1>14, <2>1, <2>2, <2>3 DEF HandlerInv, CountsKept
<1> QED
  BY <1>5, <1>6, <1>7, <1>8, <1>9, <1>11, <1>12, <1>15 DEF HandlerInv

(* Every step keeps HandlerInv. *)
LEMMA NextHandler == HandlerInv /\ [Next]_vars => HandlerInv'
<1> SUFFICES ASSUME HandlerInv, [Next]_vars PROVE HandlerInv'
  OBVIOUS
<1>1. ASSUME NEW w \in Workers, WorkerStep_(w) PROVE HandlerInv'
  <2>1. TypeOK' /\ TextsTyped' /\ ConnsOwned' /\ AtRequest'
    BY <1>1, TypeStep, TextsStep, OwnedStep, AtStep
  <2>2. Responded' /\ Composed'
    BY <1>1, RespondedStep, ComposedStep
  <2>3. LogOfOver' /\ OverIsLogged' /\ CountsKept'
    BY <1>1, LogOfOverStep, OverIsLoggedStep, CountsStep
  <2> QED
    BY <2>1, <2>2, <2>3 DEF HandlerInv
<1> QED
  BY <1>1, ContinueKeeps, StutterHandler DEF Next, WorkerStep_

(* The inductive invariant holds in every behaviour of the workers.        *)
THEOREM HandlerInvariant == Spec => []HandlerInv
<1>1. Init => HandlerInv
  BY InitHandler
<1>2. HandlerInv /\ [Next]_vars => HandlerInv'
  BY NextHandler
<1> QED
  BY <1>1, <1>2, PTL DEF Spec

(* Every worker is somewhere in requestHandle with a connection exactly    *)
(* when it is not between two requests, and no counter passes the number of*)
(* connections there were.                                                 *)
THEOREM HandlerTypes == Spec => []TypeOK
<1>1. HandlerInv => TypeOK
  BY DEF HandlerInv
<1> QED
  BY <1>1, HandlerInvariant, PTL

(* CountersAccurate is part of HandlerInv. *)
LEMMA CountersFollow == HandlerInv => CountersAccurate
<1> SUFFICES ASSUME HandlerInv, NEW w \in Workers, pc[w] = "idle"
             PROVE  LET Count_(kind) == Cardinality({c \in AnsweredBy(w) : request[c] = kind}) IN
                      /\ stats[w].static = Count_("static")
                      /\ stats[w].dynamic = Count_("cgi")
                      /\ stats[w].post = Count_("post")
                      /\ stats[w].total = Cardinality(AnsweredBy(w))
                      /\ {StatOf(c).of.total : c \in AnsweredBy(w)} = 1..stats[w].total
  BY DEF CountersAccurate
<1>1. Counted(w) = AnsweredBy(w)
  BY CountedIs
<1>2. /\ \A kind : CountedAs(w, {kind}) = {c \in AnsweredBy(w) : request[c] = kind}
      /\ CountedAs(w, {"static", "deaf"}) = {c \in AnsweredBy(w) : request[c] = "static"}
  <2>1. \A c \in AnsweredBy(w) : request[c] # "deaf"
    BY DEF AnsweredBy, Answered, HandlerInv, AtRequest, NeverDone
  <2> QED
    BY <1>1, <2>1 DEF CountedAs
<1>3. InHand(w, {"serveStatic"}) = {}
  BY InHandIs
<1>4. /\ stats[w].total = Cardinality(Counted(w))
      /\ stats[w].static =
           Cardinality(CountedAs(w, {"static", "deaf"}) \cup InHand(w, {"serveStatic"}))
      /\ stats[w].dynamic = Cardinality(CountedAs(w, {"cgi"}))
      /\ stats[w].post = Cardinality(CountedAs(w, {"post"}))
      /\ {StatOf(c).of.total : c \in AnsweredBy(w)} = 1..Cardinality(AnsweredBy(w))
  BY DEF HandlerInv, CountsKept
<1> QED
  BY <1>1, <1>2, <1>3, <1>4

(* Between two requests the counters of a thread are the numbers of        *)
(* responses it gave, of each kind and in all, and its responses were      *)
(* numbered 1, 2, ... in their Stat lines.                                 *)
THEOREM CountersAreAccurate == Spec => []CountersAccurate
BY CountersFollow, HandlerInvariant, PTL

(* ClosedIsLogged follows from HandlerInv. *)
LEMMA ClosedFollows == HandlerInv => ClosedIsLogged
<1> SUFFICES ASSUME HandlerInv, NEW c \in closed
             PROVE  IF request[c] \in {"static", "cgi"}
                    THEN \E i \in EntriesOf(c) : EntriesOf(c) = {i} /\ log[i] = StatOf(c)
                    ELSE request[c] # "empty" => EntriesOf(c) = {}
  BY DEF ClosedIsLogged
<1>1. c \in Conns /\ Over(c)
  BY AnsweredAreConns DEF Over
<1>2. request[c] \in {"static", "cgi"} =>
        \E i \in EntriesOf(c) : EntriesOf(c) = {i} /\ log[i] = StatOf(c)
  BY <1>1 DEF HandlerInv, OverIsLogged
<1>3. ASSUME request[c] \notin {"static", "cgi", "empty"} PROVE EntriesOf(c) = {}
  BY <1>3 DEF HandlerInv, LogOfOver, EntriesOf
<1> QED
  BY <1>2, <1>3

(* A GET that succeeded and was closed is in the log once, with the Stat   *)
(* lines it was sent; refused requests and POSTs never are.                *)
THEOREM ClosedAreLogged == Spec => []ClosedIsLogged
BY ClosedFollows, HandlerInvariant, PTL

(* LogFollowsResponses follows from HandlerInv. *)
LEMMA LogFollows == HandlerInv => LogFollowsResponses
<1> SUFFICES ASSUME HandlerInv, NEW i \in DOMAIN log, IsStat(log, i), NEW c, c = log[i].conn
             PROVE  \/ HasPage(response[c])
                    \/ /\ request[c] = "cgi" /\ script[c] \in {"failed", "stopped"}
                       /\ HasHead(response[c])
  BY DEF LogFollowsResponses
<1>1. /\ c \in Conns /\ Over(c) /\ request[c] \in {"static", "empty", "cgi"}
      /\ HasPageOrWhy(c)
  BY MaxConnsAssumption DEF HandlerInv, LogOfOver, TypeOK, Conns
<1>2. PICK l : FirstStat(response[c], l)
  BY <1>1, OverHasHead
<1>3. HasHead(response[c])
  BY <1>2 DEF FirstStat, HasHead, IsStat
<1> QED
  BY <1>1, <1>3 DEF HasPageOrWhy

(* A request is in the log only when its response was written: to its end, *)
(* or, when WaitPid returned for a script that failed or is stopped, as far*)
(* as the server writes it itself.                                         *)
THEOREM LogIsBehindResponses == Spec => []LogFollowsResponses
BY LogFollows, HandlerInvariant, PTL

-----------------------------------------------------------------------------
(* With the history variable of RequestHistory.                            *)

(* Where the elements of two sequences stand in their concatenation. *)
LEMMA Concatenated ==
  ASSUME NEW h \in Seq(Lines), NEW t \in Seq(Lines)
  PROVE  /\ \A i \in DOMAIN t : Len(h) + i \in DOMAIN (h \o t) /\ (h \o t)[Len(h) + i] = t[i]
         /\ \A i \in DOMAIN h : i \in DOMAIN (h \o t) /\ (h \o t)[i] = h[i]
OBVIOUS

(* A POST response shows, behind its own Stat lines, the whole log it read.*)
LEMMA PostTextShows ==
  ASSUME NEW w \in Workers, stats[w] \in Counters, conn[w] \in Conns, body[w] \in Seq(Lines),
         NEW i \in DOMAIN body[w]
  PROVE  \E k \in DOMAIN PostText(w) : /\ k > FirstStatPos(PostText(w))
                                       /\ PostText(w)[k] = body[w][i]
<1> DEFINE l == StatLine(w, stats[w])
           head == <<Status(200), Server, Length, Type>> \o <<l, Blank>>
<1>1. PostText(w) = head \o body[w]
  BY AppendStatsIs DEF PostText
<1>2. head \in Seq(Lines) /\ Len(head) = 6 /\ head[5] = l
  <2> PICK m \in Lines : m = l
    BY StatLineTyped
  <2>1. <<Status(200), Server, Length, Type>> \in Seq(Lines) /\ <<m, Blank>> \in Seq(Lines)
    BY ConstLines
  <2> QED
    BY <2>1
<1>3. PICK h \in Seq(Lines), t \in Seq(Lines) : h = head /\ t = body[w]
  BY <1>2
<1>4. /\ Len(h) = 6 /\ h[5] = l /\ i \in DOMAIN t /\ i \in Nat \ {0}
      /\ PostText(w) = h \o t
  BY <1>1, <1>2, <1>3
<1> HIDE DEF head, l
<1>9. 6 + i \in DOMAIN (h \o t) /\ (h \o t)[6 + i] = t[i]
  <2>1. \A k \in DOMAIN t : Len(h) + k \in DOMAIN (h \o t) /\ (h \o t)[Len(h) + k] = t[k]
    BY Concatenated
  <2>2. Len(h) = 6 /\ i \in DOMAIN t
    BY <1>4
  <2> QED
    BY ONLY <2>1, <2>2
<1>10. 5 \in DOMAIN (h \o t) /\ (h \o t)[5] = l
  <2>1. 5 \in DOMAIN h
    BY <1>4
  <2> QED
    BY <1>4, <2>1, Concatenated
<1>5. /\ FirstStatPos(PostText(w)) \in DOMAIN PostText(w)
      /\ \A j \in 1..(FirstStatPos(PostText(w)) - 1) : ~ IsStat(PostText(w), j)
  BY PageTextIs, FirstStatIs
<1>6. IsStat(PostText(w), 5)
  BY <1>4, <1>10, StatLineIs DEF IsStat, l
<1>7. PostText(w) \in Seq(Lines)
  BY PageTextIs
<1>8. FirstStatPos(PostText(w)) <= 5
  BY <1>5, <1>6, <1>7
<1> QED
  BY <1>3, <1>4, <1>5, <1>7, <1>8, <1>9

-----------------------------------------------------------------------------
(* A step of a worker takes a connection or leaves the history alone.      *)
LEMMA BeforeStep ==
  ASSUME HandlerInv, BeforeClosed, HistoryNext, NEW w \in Workers, WorkerStep_(w)
  PROVE  /\ \A c \in Conns : c <= taken => before'[c] = before[c]
         /\ \A c \in Conns : before'[c] = before[c] \/ before'[c] = closed
         /\ before' \in [Conns -> SUBSET Conns]
         /\ ~ Dequeue(w) => before' = before
<1>1. taken \in Nat
  BY MaxConnsAssumption DEF HandlerInv, TypeOK
<1>2. CASE Dequeue(w)
  <2>1. /\ taken' = taken + 1 /\ before' = [before EXCEPT ![taken + 1] = closed]
        /\ taken' # taken /\ closed \in SUBSET Conns
    BY <1>1, <1>2, AnsweredAreConns DEF Dequeue, HistoryNext
  <2>2. \A c \in Conns : c # taken + 1 => before'[c] = before[c]
    BY <2>1 DEF BeforeClosed
  <2>3. \A c \in Conns : before'[c] = before[c] \/ before'[c] = closed
    BY <2>1 DEF BeforeClosed
  <2>4. \A c \in Conns : c <= taken => c # taken + 1
    BY <1>1, ConnNumbers
  <2>5. before' \in [Conns -> SUBSET Conns]
    BY <2>1 DEF BeforeClosed
  <2> QED
    BY <1>2, <2>2, <2>3, <2>4, <2>5
<1>3. CASE ~ Dequeue(w)
  <2>1. taken' = taken
    BY <1>3, HandleKeeps DEF WorkerStep_, CloseConn, main, HandlerInv
  <2> QED
    BY <1>3, <2>1 DEF HistoryNext, BeforeClosed
<1> QED
  BY <1>2, <1>3

(* What was closed before a connection was dequeued stays closed. *)
LEMMA BeforeClosedStep ==
  ASSUME HandlerInv, BeforeClosed, HistoryNext, NEW w \in Workers, WorkerStep_(w)
  PROVE  BeforeClosed'
<1>1. closed \subseteq closed'
  BY ClosedStay
<1> QED
  BY <1>1, BeforeStep DEF BeforeClosed

(* A text that shows the GETs before p goes on showing them.               *)
LEMMA ShowsStay ==
  ASSUME HandlerInv, BeforeClosed, NEW w \in Workers, WorkerStep_(w), NEW p \in Conns,
         before'[p] = before[p], NEW text, NEW from, Shows(text, from, p)
  PROVE  Shows(text, from, p)'
<1>1. \A c \in before[p] : request'[c] = request[c] /\ StatOf(c)' = StatOf(c)
  BY ClosedStay DEF BeforeClosed
<1>2. \A c \in ToShow(p)' : c \in ToShow(p) /\ StatOf(c)' = StatOf(c)
  BY <1>1 DEF ToShow
<1> QED
  BY <1>2 DEF Shows

(* A copy of the log keeps the entries of what was closed before. *)
LEMMA PostsShowStep ==
  ASSUME HandlerInv, BeforeClosed, PostsShow, HistoryNext, NEW w \in Workers, WorkerStep_(w)
  PROVE  PostsShow'
<1>1. \A c \in Conns : c \in closed \/ (\E v \in Workers : conn[v] = c) => c <= taken
  BY MaxConnsAssumption, ConnNumbers DEF HandlerInv, TypeOK, ConnsOwned
<1>2. ASSUME NEW v \in Workers, pc'[v] = "servePost" PROVE Shows(body[v], 0, conn[v])'
  <2>1. CASE v # w
    <3> PICK d, text : d = conn[v] /\ text = body[v]
      OBVIOUS
    <3>1. pc[v] = "servePost" /\ conn'[v] = d /\ body'[v] = text
      BY <1>2, <2>1, OthersStay DEF HandlerInv
    <3>2. d \in Conns /\ Shows(text, 0, d)
      BY <3>1 DEF HandlerInv, TypeOK, PostsShow
    <3>3. before'[d] = before[d]
      BY <1>1, <3>2, BeforeStep
    <3>4. Shows(text, 0, d)'
      BY <3>2, <3>3, ShowsStay
    <3> QED
      BY <3>1, <3>4 DEF Shows
  <2>2. CASE v = w
    <3>1. Handle(w) /\ pc[w] = "getLog"
      <4>1. Handle(w)
        BY <1>2, <2>2 DEF WorkerStep_, Dequeue, CloseConn, Goto, HandlerInv, TypeOK
      <4> QED
        BY <1>2, <2>2, <4>1, HandleMoves DEF Moves
    <3>2. GetLog(w)
      BY <3>1 DEF Handle, At, HandleNothing, HandleSilent, HandleCut, HandleError,
         HandleStatic, HandleDynamic, HandlePost, Read, ServeStatic, WriteBlocks, OpenFails,
         ServeEmpty, ServeDynamic, RunScript, AddToLog, ServePost
    <3> PICK d : d = conn[w]
      OBVIOUS
    <3>3. /\ body'[w] = log /\ conn'[w] = d /\ request' = request /\ response' = response
      BY <3>2 DEF GetLog, client, HandlerInv, TextsTyped
    <3>4. ~ Dequeue(w)
      BY <3>1 DEF Dequeue, At
    <3>5. before' = before /\ d \in Conns
      BY <3>1, <3>4, BeforeStep DEF HandlerInv, TypeOK
    <3>6. ASSUME NEW c \in ToShow(d) PROVE \E i \in DOMAIN log : i > 0 /\ log[i] = StatOf(c)
      <4>1. c \in closed /\ c \in Conns /\ request[c] \in {"static", "cgi"}
        BY <3>5 DEF ToShow, BeforeClosed
      <4>2. PICK i \in EntriesOf(c) : log[i] = StatOf(c)
        BY <4>1 DEF HandlerInv, OverIsLogged, Over
      <4>3. i \in DOMAIN log /\ log \in Seq(Lines)
        BY DEF EntriesOf, HandlerInv, TextsTyped
      <4> QED
        BY <4>2, <4>3
    <3>7. \A c : c \in ToShow(d)' => c \in ToShow(d) /\ StatOf(c)' = StatOf(c)
      BY <3>3, <3>5 DEF ToShow, StatOf, StatPos
    <3>8. \A c \in ToShow(d)' : \E i \in DOMAIN body'[w] : i > 0 /\ body'[w][i] = StatOf(c)'
      BY <3>3, <3>6, <3>7
    <3>9. ToShow(d)' = ToShow(conn[w])'
      BY <3>3 DEF ToShow
    <3> QED
      BY <2>2, <3>8, <3>9 DEF Shows
  <2> QED
    BY <2>1, <2>2
<1>3. ASSUME NEW p \in Conns, Over(p)', request'[p] = "post"
      PROVE  Shows(response[p], StatPos(p), p)'
  <2>1. CASE Over(p)
    <3> PICK text, from : text = response[p] /\ from = StatPos(p)
      OBVIOUS
    <3>1. request'[p] = request[p] /\ response'[p] = text
      BY <2>1, OverStay
    <3>2. StatPos(p)' = from
      BY <3>1 DEF StatPos
    <3>3. Shows(text, from, p)
      BY <1>3, <2>1, <3>1 DEF PostsShow
    <3>4. before'[p] = before[p]
      BY <1>1, <2>1, BeforeStep DEF Over
    <3>5. Shows(text, from, p)'
      BY <3>3, <3>4, ShowsStay
    <3> QED
      BY <3>1, <3>2, <3>5 DEF Shows
  <2>2. CASE ~ Over(p)
    <3>1. Handle(w) /\ p = conn[w] /\ pc'[w] = "close"
      BY <1>3, <2>2, BecomesOver
    <3>2. pc[w] = "servePost"
      BY <1>3, <3>1, HandleMoves DEF Moves
    <3>3. ServePost(w)
      BY <3>1, <3>2 DEF Handle, At, HandleNothing, HandleSilent, HandleCut, HandleError,
         HandleStatic, HandleDynamic, HandlePost, Read, ServeStatic, WriteBlocks, OpenFails,
         ServeEmpty, ServeDynamic, RunScript, AddToLog, GetLog
    <3>4. /\ stats[w] \in Counters /\ body[w] \in Seq(Lines) /\ response[p] = <<>>
          /\ Shows(body[w], 0, p)
      BY <3>1, <3>2, StatsAreTyped DEF HandlerInv, TextsTyped, PostsShow, Responded, Silent
    <3> PICK text, from : text = PostText(w) /\ from = FirstStatPos(text)
      OBVIOUS
    <3>5. text \in Seq(Lines)
      BY <3>1, <3>4, PageTextIs
    <3>6. response'[p] = text
      BY <3>1, <3>3, <3>4, <3>5, FirstWrite DEF ServePost
    <3>7. StatPos(p)' = from
      BY <3>6 DEF StatPos
    <3>8. Shows(text, from, p)
      <4>1. ASSUME NEW c \in ToShow(p) PROVE \E k \in DOMAIN text : k > from /\ text[k] = StatOf(c)
        <5>1. PICK i \in DOMAIN body[w] : body[w][i] = StatOf(c)
          BY <3>4 DEF Shows
        <5> QED
          BY <3>1, <3>4, <5>1, PostTextShows
      <4> QED
        BY <4>1 DEF Shows
    <3>9. before'[p] = before[p]
      BY <3>2, BeforeStep DEF Dequeue, At
    <3>10. Shows(text, from, p)'
      BY <3>8, <3>9, ShowsStay
    <3> QED
      BY <3>6, <3>7, <3>10 DEF Shows
  <2> QED
    BY <2>1, <2>2
<1> QED
  BY <1>2, <1>3 DEF PostsShow

(* An entry that is added is behind those of all connections closed before,*)
(* and belongs to a connection that no other was dequeued after.           *)
LEMMA LogInRealTimeStep ==
  ASSUME HandlerInv, BeforeClosed, LogInRealTime, HistoryNext,
         NEW w \in Workers, WorkerStep_(w)
  PROVE  LogInRealTime'
<1>1. ASSUME NEW i \in DOMAIN log, IsStat(log, i)
      PROVE  log[i].conn \in Conns /\ before'[log[i].conn] = before[log[i].conn]
  <2>1. log[i].conn \in 1..taken /\ taken \in 0..MaxConns
    BY <1>1 DEF HandlerInv, LogOfOver, TypeOK
  <2>2. log[i].conn \in Conns /\ log[i].conn <= taken
    BY <2>1, MaxConnsAssumption DEF Conns
  <2> QED
    BY <2>2, BeforeStep
<1>2. CASE log' = log
  BY <1>1, <1>2 DEF LogInRealTime
<1>3. CASE log' # log
  <2> PICK s \in Counters, d \in Conns, l \in Lines :
        /\ d = conn[w] /\ l = StatLine(w, s) /\ log' = log \o <<l, Blank>>
        /\ pc[w] = "addToLog"
    BY <1>3, LogStep, StatLineTyped
  <2>1. l.line = "Stat" /\ l.conn = d /\ log \in Seq(Lines)
    BY StatLineIs DEF HandlerInv, TextsTyped
  <2>2. before' = before /\ d \notin closed
    BY BeforeStep, ConnNumbers DEF Dequeue, At, HandlerInv, ConnsOwned
  <2>3. \A c \in Conns : d \notin before[c] /\ before[c] \subseteq closed
    BY <2>2 DEF BeforeClosed
  <2>4. /\ \A j : IsStat(log', j) <=> IsStat(log, j) \/ j = Len(log) + 1
        /\ \A j \in DOMAIN log : j \in DOMAIN log' /\ log'[j] = log[j]
        /\ log'[Len(log) + 1] = l
    BY <2>1, EntryAdded
  <2> SUFFICES ASSUME NEW i \in DOMAIN log', NEW j \in DOMAIN log',
                      IsStat(log', i), IsStat(log', j), log'[i].conn \in before'[log'[j].conn]
               PROVE  i < j
    BY DEF LogInRealTime
  <2>5. CASE IsStat(log, i) /\ IsStat(log, j)
    <3>1. i \in DOMAIN log /\ j \in DOMAIN log
      BY <2>5 DEF IsStat
    <3> QED
      BY <2>2, <2>4, <2>5, <3>1 DEF LogInRealTime
  <2>6. CASE IsStat(log, i) /\ j = Len(log) + 1
    <3>1. i \in DOMAIN log
      BY <2>6 DEF IsStat
    <3> QED
      BY <2>1, <2>6, <3>1
  <2>7. CASE i = Len(log) + 1
    <3>1. log'[i].conn = d
      BY <2>1, <2>4, <2>7
    <3>2. log'[j].conn \in Conns
      <4>1. CASE IsStat(log, j)
        <5>1. j \in DOMAIN log
          BY <4>1 DEF IsStat
        <5> QED
          BY <1>1, <2>4, <4>1, <5>1
      <4>2. CASE j = Len(log) + 1
        BY <2>1, <2>4, <4>2
      <4> QED
        BY <2>4, <4>1, <4>2
    <3> QED
      BY <2>2, <2>3, <3>1, <3>2
  <2> QED
    BY <2>4, <2>5, <2>6, <2>7
<1> QED
  BY <1>2, <1>3

-----------------------------------------------------------------------------
(* The history invariant holds before anything is dequeued. *)
LEMMA InitHistory == HistoryInit => HandlerInv /\ HistoryInv
<1> SUFFICES ASSUME HistoryInit PROVE HandlerInv /\ HistoryInv
  OBVIOUS
<1>1. HandlerInv
  BY InitHandler DEF HistoryInit
<1>2. BeforeClosed
  BY DEF HistoryInit, BeforeClosed
<1>3. PostsShow
  BY DEF HistoryInit, Init, PostsShow, Over
<1>4. LogInRealTime
  BY DEF HistoryInit, Init, LogInRealTime
<1> QED
  BY <1>1, <1>2, <1>3, <1>4 DEF HistoryInv

(* A script that goes on touches no response that HistoryInv is about. *)
LEMMA ContinueHistory ==
  ASSUME HandlerInv, HistoryInv, HistoryNext, NEW c \in Conns, ContinueScript(c)
  PROVE  HistoryInv'
<1>1. /\ pc' = pc /\ conn' = conn /\ body' = body /\ taken' = taken /\ request' = request
      /\ closed' = closed /\ log' = log /\ before' = before
  BY DEF ContinueScript, local, main, HistoryNext
<1>2. request[c] = "cgi" /\ \A d \in Conns \ {c} : response'[d] = response[d]
  BY ContinueAdds
<1>3. BeforeClosed' /\ LogInRealTime'
  BY <1>1 DEF HistoryInv, BeforeClosed, LogInRealTime
<1>4. \A p \in Conns : \A d \in ToShow(p) : StatOf(d)' = StatOf(d)
  <2> SUFFICES ASSUME NEW p \in Conns, NEW d \in ToShow(p) PROVE StatOf(d)' = StatOf(d)
    OBVIOUS
  <2>1. d \in closed /\ d \in Conns /\ request[d] # "nothing"
    BY AnsweredAreConns DEF HistoryInv, BeforeClosed, ToShow
  <2>2. PICK l : FirstStat(response[d], l)
    BY <2>1, OverHasHead DEF Over
  <2> QED
    BY <2>1, <2>2, ContinueAdds
<1>5. ASSUME NEW p \in Conns, NEW text, NEW from, Shows(text, from, p)
      PROVE  Shows(text, from, p)'
  <2>1. ToShow(p)' = ToShow(p)
    BY <1>1 DEF ToShow
  <2> QED
    BY <1>4, <1>5, <2>1 DEF Shows
<1>6. ASSUME NEW w \in Workers, pc[w] = "servePost" PROVE Shows(body[w], 0, conn[w])'
  <2> PICK p, text : p = conn[w] /\ text = body[w]
    OBVIOUS
  <2>1. p \in Conns /\ Shows(text, 0, p)
    BY <1>6 DEF HandlerInv, TypeOK, HistoryInv, PostsShow
  <2>2. Shows(text, 0, p)'
    BY <1>5, <2>1
  <2> QED
    BY <1>1, <2>2 DEF Shows
<1>7. ASSUME NEW p \in Conns, Over(p), request[p] = "post" PROVE Shows(response[p], StatPos(p), p)'
  <2> PICK text, from : text = response[p] /\ from = StatPos(p)
    OBVIOUS
  <2>1. response'[p] = text /\ StatPos(p)' = from
    BY <1>2, <1>7 DEF StatPos
  <2>2. Shows(text, from, p)
    BY <1>7 DEF HistoryInv, PostsShow
  <2>3. Shows(text, from, p)'
    BY <1>5, <2>2
  <2> QED
    BY <2>1, <2>3 DEF Shows
<1>8. PostsShow'
  BY <1>1, <1>6, <1>7 DEF PostsShow, Over
<1> QED
  BY <1>3, <1>8 DEF HistoryInv

(* Every step with its history keeps both invariants. *)
LEMMA NextHistory ==
  HandlerInv /\ HistoryInv /\ [HistoryNext]_historyVars => HandlerInv' /\ HistoryInv'
<1> SUFFICES ASSUME HandlerInv, HistoryInv, [HistoryNext]_historyVars
             PROVE  HandlerInv' /\ HistoryInv'
  OBVIOUS
<1>1. HandlerInv'
  BY NextHandler DEF HistoryNext, historyVars
<1>2. CASE HistoryNext
  <2>1. ASSUME NEW w \in Workers, WorkerStep_(w) PROVE HistoryInv'
    BY <1>2, <2>1, BeforeClosedStep, PostsShowStep, LogInRealTimeStep DEF HistoryInv
  <2> QED
    BY <1>1, <1>2, <2>1, ContinueHistory DEF HistoryNext, Next, WorkerStep_
<1>3. CASE UNCHANGED historyVars
  <2> USE <1>3 DEF historyVars, vars, local, main, client
  <2>1. BeforeClosed' /\ LogInRealTime'
    BY DEF HistoryInv, BeforeClosed, LogInRealTime, IsStat
  <2>2. /\ \A c : StatOf(c)' = StatOf(c) /\ StatPos(c)' = StatPos(c)
        /\ \A c : Over(c)' <=> Over(c)
    BY DEF StatOf, StatPos, Over
  <2>3. \A p : ToShow(p)' = ToShow(p)
    BY DEF ToShow
  <2>4. PostsShow'
    BY <2>2, <2>3 DEF HistoryInv, PostsShow, Shows, Over, ToShow
  <2> QED
    BY <1>1, <2>1, <2>4 DEF HistoryInv
<1> QED
  BY <1>2, <1>3

(* The invariant of RequestHandler and that of the history hold together.  *)
THEOREM HistoryInvariant == HistorySpec => [](HandlerInv /\ HistoryInv)
<1>1. HistoryInit => HandlerInv /\ HistoryInv
  BY InitHistory
<1>2. HandlerInv /\ HistoryInv /\ [HistoryNext]_historyVars => HandlerInv' /\ HistoryInv'
  BY NextHistory
<1> QED
  BY <1>1, <1>2, PTL DEF HistorySpec

(* A POST that is dequeued after a served GET was closed shows the entry of*)
(* that GET behind its own Stat lines, whichever workers handle the two.   *)
THEOREM PostsShowClosedGets == HistorySpec => []PostShowsClosedGets
<1>1. HandlerInv /\ HistoryInv => PostShowsClosedGets
  <2> SUFFICES ASSUME HandlerInv, HistoryInv, NEW p \in closed, request[p] = "post",
                      NEW c \in before[p], request[c] \in {"static", "cgi"}
               PROVE  \E i \in DOMAIN response[p] : i > StatPos(p) /\ response[p][i] = StatOf(c)
    BY DEF PostShowsClosedGets
  <2>1. p \in Conns /\ Over(p)
    BY AnsweredAreConns DEF Over
  <2>2. c \in ToShow(p)
    BY DEF ToShow
  <2> QED
    BY <2>1, <2>2 DEF HistoryInv, PostsShow, Shows
<1> QED
  BY <1>1, HistoryInvariant, PTL

(* The entries of the log are in an order that clients can confirm.        *)
THEOREM LogIsInRealTime == HistorySpec => []LogInRealTime
<1>1. HandlerInv /\ HistoryInv => LogInRealTime
  BY DEF HistoryInv
<1> QED
  BY <1>1, HistoryInvariant, PTL

-----------------------------------------------------------------------------
(* WebServer, for every capacity of the queue.                             *)

(* What main does leaves the workers alone, and finishHandling does too.   *)
LEMMA ServerStepHandles == [ServerNext]_serverVars => [Next]_vars
<1> SUFFICES ASSUME [ServerNext]_serverVars PROVE [Next]_vars
  OBVIOUS
<1>1. CASE MainStep
  BY <1>1 DEF MainStep, AcceptConn, EnqueueConn
<1>2. ASSUME NEW w \in Workers, WorkerStep(w) PROVE [Next]_vars
  BY <1>2 DEF WorkerStep, DequeueConn, HandleConn, CloseServed, FinishHandling, Next
<1>3. CASE UNCHANGED serverVars
  BY <1>3 DEF serverVars
<1>4. CASE ScriptStep
  BY <1>4 DEF ScriptStep, Next
<1> QED
  BY <1>1, <1>2, <1>3, <1>4 DEF ServerNext

(* The server as a whole is RequestHandler: what is proved of the requests *)
(* holds behind the queue, whatever main and the queue do.                 *)
THEOREM ServerHandles == ServerSpec => Spec
<1>1. ServerInit => Init
  BY DEF ServerInit
<1>2. [ServerNext]_serverVars => [Next]_vars
  BY ServerStepHandles
<1> QED
  BY <1>1, <1>2, PTL DEF ServerSpec, Spec

(* AdmissionQueue counts with the same Cardinality.                        *)
LEMMA SameCardinality == \A S : Queue!Cardinality(S) = Cardinality(S)
BY DEF Queue!Cardinality, Cardinality

-----------------------------------------------------------------------------
(* One member more adds at most one to the size of a set. *)
LEMMA OneMoreAtMost ==
  ASSUME NEW S, IsFiniteSet(S), NEW x
  PROVE  /\ IsFiniteSet(S \cup {x}) /\ Cardinality(S \cup {x}) \in Nat
         /\ Cardinality(S \cup {x}) <= Cardinality(S) + 1
<1>1. Cardinality(S) \in Nat
  BY FS_CardinalityType
<1> QED
  BY <1>1, FS_AddElement, FS_CardinalityType

(* The places: finite, and no more than the workers have in their hands.   *)
LEMMA HeldFinite ==
  ASSUME HandlerInv, Finishing
  PROVE  /\ Held \subseteq Conns /\ IsFiniteSet(Held) /\ Cardinality(Held) \in Nat
         /\ \A w \in Workers : finishing[w] \in Conns \cup {NoConn}
<1>1. closed \subseteq Conns
  BY AnsweredAreConns
<1>2. \A w \in Workers : conn[w] \in Conns \cup {NoConn} /\ finishing[w] \in Conns \cup {NoConn}
  BY <1>1 DEF HandlerInv, TypeOK, Finishing
<1>3. Held \subseteq Conns
  BY <1>2 DEF Held
<1> QED
  BY <1>2, <1>3, ConnsFinite

(* What main, the queue and the workers hold are connections that were
   accepted, each in one place. *)
LEMMA NumberedStep ==
  ASSUME HandlerInv, ServerInv, ServerNext
  PROVE  Numbered'
<1>1. Numbered /\ taken \in Nat /\ taken \in 0..MaxConns /\ MaxConns \in Nat
  BY MaxConnsAssumption DEF ServerInv, HandlerInv, TypeOK
<1>2. CASE AcceptConn
  BY <1>1, <1>2 DEF AcceptConn, vars, main, queue, Numbered
<1>3. CASE EnqueueConn
  <2>1. /\ admitted' = admitted + 1 /\ waiting' = Append(waiting, admitted + 1)
        /\ taken' = taken /\ accepted' = accepted /\ accepted > admitted
    BY <1>3 DEF EnqueueConn, Queue!Admit, vars, main
  <2>2. /\ waiting \in Seq(Nat) /\ admitted + 1 \in Nat /\ Len(waiting) \in Nat
        /\ admitted + 1 = taken + (Len(waiting) + 1)
    BY <1>1 DEF Numbered
  <2>3. /\ waiting' \in Seq(Nat) /\ Len(waiting') = Len(waiting) + 1
        /\ \A i \in DOMAIN waiting' :
             waiting'[i] = IF i = Len(waiting) + 1 THEN admitted + 1 ELSE waiting[i]
        /\ \A i \in DOMAIN waiting' : i \in DOMAIN waiting \/ i = Len(waiting) + 1
    BY <2>1, <2>2
  <2>4. ASSUME NEW i \in DOMAIN waiting' PROVE waiting'[i] = taken + i
    <3>1. CASE i = Len(waiting) + 1
      BY <2>2, <2>3, <3>1
    <3>2. CASE i # Len(waiting) + 1
      <4>1. i \in DOMAIN waiting /\ waiting'[i] = waiting[i]
        BY <2>3, <3>2
      <4> QED
        BY <1>1, <4>1 DEF Numbered
    <3> QED
      BY <3>1, <3>2
  <2> QED
    BY <1>1, <2>1, <2>2, <2>3, <2>4 DEF Numbered
<1>4. ASSUME NEW w \in Workers, DequeueConn(w) PROVE Numbered'
  <2>1. /\ waiting # <<>> /\ waiting' = Tail(waiting) /\ taken' = taken + 1
        /\ admitted' = admitted /\ accepted' = accepted
    BY <1>4 DEF DequeueConn, Queue!Dispatch, Dequeue
  <2>2. /\ waiting' \in Seq(Nat) /\ Len(waiting) \in Nat /\ Len(waiting') = Len(waiting) - 1
        /\ \A i \in DOMAIN waiting' : i \in Nat /\ i + 1 \in DOMAIN waiting /\ waiting'[i] = waiting[i + 1]
    BY <1>1, <2>1 DEF Numbered
  <2>3. ASSUME NEW i \in DOMAIN waiting' PROVE waiting'[i] = taken' + i
    <3>1. i \in Nat /\ waiting'[i] = taken + (i + 1)
      BY <1>1, <2>2 DEF Numbered
    <3>2. taken \in Nat
      BY <1>1
    <3> QED
      BY <2>1, <3>1, <3>2
  <2>4. \A i \in DOMAIN waiting' : waiting'[i] = taken' + i
    BY <2>3
  <2>5. Len(waiting') + taken' = admitted'
    <3>1. Len(waiting) + taken = admitted /\ taken \in Nat
      BY <1>1 DEF Numbered
    <3> QED
      BY <2>1, <2>2, <3>1
  <2>6. accepted' \in 0..MaxConns /\ admitted' \in Nat /\ admitted' <= accepted' /\ accepted' <= admitted' + 1
    BY <1>1, <2>1 DEF Numbered
  <2> QED
    BY <2>2, <2>4, <2>5, <2>6 DEF Numbered
<1>5. ASSUME NEW w \in Workers, HandleConn(w) \/ CloseServed(w) \/ FinishHandling(w)
      PROVE  Numbered'
  <2>1. taken' = taken /\ admitted' = admitted /\ waiting' = waiting /\ accepted' = accepted
    BY <1>5, HandleKeeps DEF HandleConn, CloseServed, CloseConn, FinishHandling, queue,
       Queue!Complete, vars, main, HandlerInv
  <2> QED
    BY <1>1, <2>1 DEF Numbered
<1>6. CASE ScriptStep
  <2>1. taken' = taken /\ admitted' = admitted /\ waiting' = waiting /\ accepted' = accepted
    BY <1>6 DEF ScriptStep, ContinueScript, queue, main
  <2> QED
    BY <1>1, <2>1 DEF Numbered
<1> QED
  BY <1>2, <1>3, <1>4, <1>5, <1>6 DEF ServerNext, MainStep, WorkerStep

(* What a step does to the connections the workers have in their hands.    *)
LEMMA FinishingStep ==
  ASSUME HandlerInv, ServerInv, ServerNext
  PROVE  /\ Finishing'
         /\ MainStep \/ ScriptStep => Held' = Held
         /\ \A w \in Workers :
              /\ DequeueConn(w) => Held' = Held \cup {taken + 1}
              /\ HandleConn(w) \/ CloseServed(w) => Held' = Held
              /\ FinishHandling(w) => Held' = Held \ {finishing[w]}
<1>1. Finishing /\ TypeOK /\ ConnsOwned
  BY DEF ServerInv, HandlerInv
<1>2. ASSUME MainStep \/ ScriptStep PROVE Finishing' /\ Held' = Held
  <2>1. MainStep => UNCHANGED <<vars, finishing>>
    BY DEF MainStep, AcceptConn, EnqueueConn
  <2>2. pc' = pc /\ conn' = conn /\ closed' = closed /\ finishing' = finishing
    BY <1>2, <2>1 DEF vars, local, client, ScriptStep, ContinueScript
  <2>3. Finishing'
    BY <1>1, <2>2 DEF Finishing
  <2>4. Held' = Held
    BY <2>2 DEF Held
  <2> QED
    BY <2>3, <2>4
<1>3. ASSUME NEW w \in Workers, DequeueConn(w)
      PROVE  Finishing' /\ Held' = Held \cup {taken + 1}
  <2>1. /\ pc[w] = "idle" /\ pc' = [pc EXCEPT ![w] = "read"] /\ conn[w] = NoConn
        /\ conn' = [conn EXCEPT ![w] = taken + 1] /\ closed' = closed
        /\ finishing' = finishing /\ finishing[w] = NoConn /\ taken + 1 # NoConn
    BY <1>1, <1>3, MaxConnsAssumption DEF DequeueConn, Dequeue, At, Goto, client, TypeOK, NoConn
  <2>2. Finishing'
    BY <1>1, <2>1 DEF Finishing, TypeOK
  <2>3. \A v \in Workers : conn'[v] = IF v = w THEN taken + 1 ELSE conn[v]
    BY <1>1, <2>1 DEF TypeOK
  <2>4. \A c : c \in Held' <=> c \in Held \/ c = taken + 1
    BY <2>1, <2>3 DEF Held
  <2> QED
    BY <2>2, <2>4
<1>4. ASSUME NEW w \in Workers, HandleConn(w) PROVE Finishing' /\ Held' = Held
  <2>1. conn' = conn /\ closed' = closed /\ finishing' = finishing /\ pc[w] # "idle"
    BY <1>1, <1>4, HandleKeeps DEF HandleConn
  <2>2. \A v \in Workers \ {w} : pc'[v] = pc[v]
    BY <1>4, OthersStay DEF HandleConn, WorkerStep_, HandlerInv
  <2> QED
    BY <1>1, <2>1, <2>2 DEF Finishing, Held
<1>5. ASSUME NEW w \in Workers, CloseServed(w) PROVE Finishing' /\ Held' = Held
  <2>1. /\ pc[w] = "close" /\ pc' = [pc EXCEPT ![w] = "idle"] /\ closed' = closed \cup {conn[w]}
        /\ conn' = [conn EXCEPT ![w] = NoConn] /\ finishing' = [finishing EXCEPT ![w] = conn[w]]
    BY <1>5 DEF CloseServed, CloseConn, At, Goto
  <2>2. finishing[w] = NoConn /\ conn[w] # NoConn /\ conn[w] \notin closed
    BY <1>1, <2>1 DEF Finishing, TypeOK, ConnsOwned
  <2>3. \A v \in Workers : /\ conn'[v] = IF v = w THEN NoConn ELSE conn[v]
                           /\ finishing'[v] = IF v = w THEN conn[w] ELSE finishing[v]
                           /\ pc'[v] = IF v = w THEN "idle" ELSE pc[v]
    BY <1>1, <2>1 DEF TypeOK, Finishing
  <2>4. finishing' \in [Workers -> closed' \cup {NoConn}]
    BY <1>1, <2>1 DEF Finishing
  <2>5. \A u, v \in Workers : u # v /\ finishing'[u] # NoConn => finishing'[u] # finishing'[v]
    BY <1>1, <2>2, <2>3 DEF Finishing
  <2>6. \A v \in Workers : pc'[v] # "idle" => finishing'[v] = NoConn
    BY <1>1, <2>3 DEF Finishing
  <2>7. \A c : c \in Held' <=> c \in Held
    BY <2>2, <2>3 DEF Held
  <2> QED
    BY <2>4, <2>5, <2>6, <2>7 DEF Finishing
<1>6. ASSUME NEW w \in Workers, FinishHandling(w)
      PROVE  Finishing' /\ Held' = Held \ {finishing[w]}
  <2>1. /\ conn' = conn /\ closed' = closed /\ pc' = pc /\ finishing[w] # NoConn
        /\ finishing' = [finishing EXCEPT ![w] = NoConn]
    BY <1>6 DEF FinishHandling, vars, local, client
  <2>2. \A v \in Workers : finishing'[v] = IF v = w THEN NoConn ELSE finishing[v]
    BY <1>1, <2>1 DEF Finishing
  <2>3. Finishing'
    BY <1>1, <2>1, <2>2 DEF Finishing
  <2>4. finishing[w] \in closed
    BY <1>1, <2>1 DEF Finishing
  <2>5. \A v \in Workers : conn[v] # finishing[w] /\ (v # w => finishing[v] # finishing[w])
    BY <1>1, <2>1, <2>4 DEF Finishing, ConnsOwned
  <2>6. \A c : c \in Held' <=> c \in Held /\ c # finishing[w]
    BY <2>1, <2>2, <2>5 DEF Held
  <2> QED
    BY <2>3, <2>6
<1> QED
  BY <1>2, <1>3, <1>4, <1>5, <1>6 DEF ServerNext, WorkerStep

(* The requests in the queue and with the workers stay within the queue size. *)
LEMMA WithinCapacityStep ==
  ASSUME HandlerInv, ServerInv, ServerNext
  PROVE  WithinCapacity'
<1>1. /\ serving = Held /\ Len(waiting) + Cardinality(serving) <= Capacity
      /\ waiting \in Seq(Nat) /\ Len(waiting) \in Nat /\ Capacity \in Nat
  BY CapacityAssumption DEF ServerInv, WithinCapacity, Numbered
<1>2. IsFiniteSet(serving) /\ Cardinality(serving) \in Nat /\ serving \subseteq Conns
  BY <1>1, HeldFinite DEF ServerInv
<1>3. CASE EnqueueConn
  <2>1. /\ Len(waiting) + Cardinality(serving) < Capacity
        /\ waiting' = Append(waiting, admitted + 1) /\ serving' = serving
        /\ admitted + 1 \in Nat
    BY <1>3, SameCardinality DEF EnqueueConn, Queue!Admit, ServerInv, Numbered
  <2>2. Len(waiting') = Len(waiting) + 1
    BY <1>1, <2>1
  <2>3. Held' = Held
    BY <1>3, FinishingStep DEF MainStep
  <2> QED
    BY <1>1, <1>2, <2>1, <2>2, <2>3 DEF WithinCapacity
<1>4. ASSUME NEW w \in Workers, DequeueConn(w) PROVE WithinCapacity'
  <2>1. /\ waiting # <<>> /\ waiting' = Tail(waiting) /\ conn[w] = NoConn
        /\ serving' = serving \cup {Head(waiting)} /\ pc[w] = "idle"
    BY <1>4 DEF DequeueConn, Queue!Dispatch, Dequeue, At, HandlerInv, TypeOK
  <2>2. Head(waiting) = taken + 1 /\ Len(waiting') = Len(waiting) - 1
    <3>1. /\ 1 \in DOMAIN waiting /\ Head(waiting) = waiting[1]
          /\ Len(waiting') = Len(waiting) - 1
      BY <1>1, <2>1
    <3> QED
      BY <3>1 DEF ServerInv, Numbered
  <2>3. Held' = Held \cup {taken + 1}
    BY <1>4, FinishingStep
  <2>4. /\ Cardinality(serving \cup {Head(waiting)}) <= Cardinality(serving) + 1
        /\ Cardinality(serving \cup {Head(waiting)}) \in Nat
    BY <1>2, OneMoreAtMost
  <2> QED
    BY <1>1, <1>2, <2>1, <2>2, <2>3, <2>4 DEF WithinCapacity
<1>5. ASSUME NEW w \in Workers, FinishHandling(w) PROVE WithinCapacity'
  <2> PICK f : f = finishing[w]
    OBVIOUS
  <2>1. f \in serving /\ serving' = serving \ {f} /\ waiting' = waiting
    BY <1>5 DEF FinishHandling, Queue!Complete
  <2>2. Held' = Held \ {f}
    BY <1>5, FinishingStep
  <2>3. Cardinality(serving \ {f}) <= Cardinality(serving) /\ Cardinality(serving \ {f}) \in Nat
    BY <1>2, FS_Subset, FS_CardinalityType
  <2> QED
    BY <1>1, <1>2, <2>1, <2>2, <2>3 DEF WithinCapacity
<1>6. CASE AcceptConn
  <2>1. serving' = serving /\ waiting' = waiting
    BY <1>6 DEF AcceptConn, queue
  <2> QED
    BY <1>1, <1>6, <2>1, FinishingStep DEF MainStep, WithinCapacity
<1>7. ASSUME NEW w \in Workers, HandleConn(w) \/ CloseServed(w) PROVE WithinCapacity'
  <2>1. serving' = serving /\ waiting' = waiting
    BY <1>7 DEF HandleConn, CloseServed, queue
  <2> QED
    BY <1>1, <1>7, <2>1, FinishingStep DEF WithinCapacity
<1>8. CASE ScriptStep
  <2>1. serving' = serving /\ waiting' = waiting
    BY <1>8 DEF ScriptStep, queue
  <2> QED
    BY <1>1, <1>8, <2>1, FinishingStep DEF WithinCapacity
<1> QED
  BY <1>3, <1>4, <1>5, <1>6, <1>7, <1>8 DEF ServerNext, MainStep, WorkerStep

-----------------------------------------------------------------------------
(* The server starts with every place free. *)
LEMMA InitServer == ServerInit => HandlerInv /\ ServerInv
<1> SUFFICES ASSUME ServerInit PROVE HandlerInv /\ ServerInv
  OBVIOUS
<1>1. HandlerInv
  BY InitHandler DEF ServerInit
<1>2. Numbered
  BY MaxConnsAssumption DEF ServerInit, Init, Queue!Init, Numbered
<1>3. Finishing
  BY DEF ServerInit, Init, Finishing
<1>4. Held = {}
  BY DEF ServerInit, Init, Held
<1>5. WithinCapacity
  BY <1>4, CapacityAssumption, FS_EmptySet DEF ServerInit, Queue!Init, WithinCapacity
<1> QED
  BY <1>1, <1>2, <1>3, <1>5 DEF ServerInv

(* Every step of the server keeps both invariants. *)
LEMMA NextServer ==
  HandlerInv /\ ServerInv /\ [ServerNext]_serverVars => HandlerInv' /\ ServerInv'
<1> SUFFICES ASSUME HandlerInv, ServerInv, [ServerNext]_serverVars
             PROVE  HandlerInv' /\ ServerInv'
  OBVIOUS
<1>1. HandlerInv'
  BY ServerStepHandles, NextHandler
<1>2. CASE ServerNext
  BY <1>1, <1>2, NumberedStep, FinishingStep, WithinCapacityStep DEF ServerInv
<1>3. CASE UNCHANGED serverVars
  <2> USE <1>3 DEF serverVars, vars, local, main, client, queue
  <2>1. Numbered' /\ Finishing'
    BY DEF ServerInv, Numbered, Finishing
  <2>2. Held' = Held
    BY DEF Held
  <2>3. WithinCapacity'
    BY <2>2 DEF ServerInv, WithinCapacity
  <2> QED
    BY <1>1, <2>1, <2>3 DEF ServerInv
<1> QED
  BY <1>2, <1>3

(* The invariant of the requests and that of the queue around them hold    *)
(* together.                                                               *)
THEOREM ServerInvariant == ServerSpec => [](HandlerInv /\ ServerInv)
<1>1. ServerInit => HandlerInv /\ ServerInv
  BY InitServer
<1>2. HandlerInv /\ ServerInv /\ [ServerNext]_serverVars => HandlerInv' /\ ServerInv'
  BY NextServer
<1> QED
  BY <1>1, <1>2, PTL DEF ServerSpec

(* PlacesAreHeld follows from the invariants. *)
LEMMA PlacesFollow == HandlerInv /\ ServerInv => PlacesAreHeld
<1> SUFFICES ASSUME HandlerInv, ServerInv PROVE PlacesAreHeld
  OBVIOUS
<1> DEFINE Open == {c \in 1..accepted : c \notin closed}
           Waiting == (taken + 1)..admitted
<1>1. /\ taken \in 0..MaxConns /\ taken \in Nat /\ MaxConns \in Nat /\ admitted \in Nat
      /\ accepted \in 0..MaxConns /\ admitted <= accepted /\ accepted <= admitted + 1
      /\ Len(waiting) + taken = admitted /\ Len(waiting) \in Nat /\ Capacity \in Nat
      /\ serving = Held /\ Len(waiting) + Cardinality(serving) <= Capacity
  BY MaxConnsAssumption, CapacityAssumption
     DEF HandlerInv, TypeOK, ServerInv, Numbered, WithinCapacity
<1>2. IsFiniteSet(serving) /\ Cardinality(serving) \in Nat
  BY <1>1, HeldFinite DEF ServerInv
<1>3. IsFiniteSet(Waiting) /\ Cardinality(Waiting) = Len(waiting)
  <2>1. IsFiniteSet(Waiting)
        /\ Cardinality(Waiting) = IF taken + 1 <= admitted THEN admitted - (taken + 1) + 1 ELSE 0
    BY <1>1, FS_Interval
  <2> QED
    BY <1>1, <2>1
<1>4. IsFiniteSet(serving \cup Waiting) /\ Cardinality(serving \cup Waiting) <= Capacity
  <2>1. /\ IsFiniteSet(serving \cup Waiting) /\ IsFiniteSet(serving \cap Waiting)
        /\ Cardinality(serving \cup Waiting) =
             Cardinality(serving) + Cardinality(Waiting) - Cardinality(serving \cap Waiting)
    BY <1>2, <1>3, FS_Union, FS_Intersection
  <2>2. Cardinality(serving \cap Waiting) \in Nat
    BY <2>1, FS_CardinalityType
  <2> QED
    BY <1>1, <1>2, <1>3, <2>1, <2>2
<1>5. Open \subseteq (serving \cup Waiting) \cup {admitted + 1}
  <2> SUFFICES ASSUME NEW c \in 1..accepted, c \notin closed
               PROVE  c \in serving \/ c \in Waiting \/ c = admitted + 1
    OBVIOUS
  <2>1. CASE c <= taken
    <3>1. PICK w \in Workers : conn[w] = c
      BY <1>1, <2>1 DEF HandlerInv, ConnsOwned
    <3> QED
      BY <1>1, <3>1 DEF Held, NoConn
  <2>2. CASE c > taken
    BY <1>1, <2>2
  <2> QED
    BY <1>1, <2>1, <2>2
<1>6. Cardinality(Open) <= Capacity + 1
  <2> HIDE DEF Open, Waiting
  <2> DEFINE All == (serving \cup Waiting) \cup {admitted + 1}
  <2>1. /\ IsFiniteSet(All)
        /\ Cardinality(All) <= Cardinality(serving \cup Waiting) + 1
    BY <1>4, OneMoreAtMost
  <2>2. Cardinality(Open) <= Cardinality(All) /\ Cardinality(Open) \in Nat /\ Cardinality(All) \in Nat
    BY <1>5, <2>1, FS_Subset, FS_CardinalityType
  <2>3. Cardinality(serving \cup Waiting) \in Nat
    BY <1>4, FS_CardinalityType
  <2> HIDE DEF All
  <2> QED
    BY <1>1, <1>4, <2>1, <2>2, <2>3
<1> QED
  BY <1>1, <1>6 DEF PlacesAreHeld, Held, ServerInv, Numbered

(* No place in the queue leaks: the places taken are the connections the   *)
(* workers have in their hands, and outside of the queue waits one at most.*)
THEOREM PlacesHeld == ServerSpec => []PlacesAreHeld
BY PlacesFollow, ServerInvariant, PTL
=============================================================================
