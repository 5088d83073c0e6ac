--------------------------- MODULE RequestHandler ---------------------------
(***************************************************************************)
(* What the workers do with a connection between dequeue and               *)
(* finishHandling: requestHandle of src/request.c and the Close after it,  *)
(* with the counters of each thread, the text it writes to the client and  *)
(* the text it appends to the log.                                         *)
(*                                                                         *)
(* A text is a sequence of lines and a line is a record that says which    *)
(* line of the response it is.  A request is what requestHandle tells      *)
(* apart, the state of the requested file included.  The log is a sequence *)
(* appended to and copied in one step, which ServerLog implements.         *)
(***************************************************************************)
EXTENDS Naturals, Sequences, FiniteSets

CONSTANTS
  Workers,    \* the threads of the pool
  Requests,   \* the requests clients send
  MaxConns    \* bound on the connections of a behaviour

(* nothing: the client closed before a request line; silent: it neither    *)
(* sends one nor closes; cut: it closed, or fell silent, before the blank  *)
(* line of a GET; missing: stat fails; forbidden: not a regular file with  *)
(* the owner's permission; empty: a static file of size 0; gone: one that  *)
(* stat finds and Open or Mmap does not; deaf: one larger than the socket  *)
(* holds, by a client that does not read it; other: a method that is       *)
(* neither GET nor POST.                                                   *)
AllRequests == {"nothing", "silent", "cut", "missing", "forbidden", "empty",
                "gone", "deaf", "static", "cgi", "post", "other"}

ASSUME RequestsAssumption == Requests \subseteq AllRequests
ASSUME MaxConnsAssumption == MaxConns \in Nat

VARIABLES
  pc,          \* where each worker is
  conn,        \* the connection each worker handles, NoConn if none
  stats,       \* struct Threads_stats of each worker
  stats_buf,   \* the entry each worker is about to log
  body,        \* the copy of the log each worker is about to send
  taken,       \* how many connections were dequeued
  alive,       \* whether the server process runs
  request,     \* what each connection asked, "unread" before it was read
  response,    \* the text written to each connection
  script,      \* what became of the script of each connection
  closed,      \* the connections that are closed
  log          \* the text in the server log

local == <<conn, stats, stats_buf, body>>
client == <<request, response, script, closed>>
main == <<taken, alive>>
vars == <<pc, local, main, client, log>>

NoConn == 0
Conns == 1..MaxConns

Init ==
  /\ pc = [w \in Workers |-> "idle"]
  /\ conn = [w \in Workers |-> NoConn]
  /\ stats = [w \in Workers |-> [total |-> 0, static |-> 0, dynamic |-> 0, post |-> 0]]
  /\ stats_buf = [w \in Workers |-> <<>>]
  /\ body = [w \in Workers |-> <<>>]
  /\ taken = 0 /\ alive = TRUE
  /\ request = [c \in Conns |-> "unread"]
  /\ response = [c \in Conns |-> <<>>]
  /\ script = [c \in Conns |-> "none"]
  /\ closed = {} /\ log = <<>>

-----------------------------------------------------------------------------
(* Texts                                                                   *)

Status(code) == [line |-> "status", code |-> code]
Server == [line |-> "Server"]
Length == [line |-> "Content-Length"]
Type == [line |-> "Content-Type"]
Blank == [line |-> "blank"]
Page == [line |-> "body"]

(* The Stat lines of a request (the arrival and dispatch times identify its*)
(* connection) and the blank line append_stats puts behind them.           *)
AppendStats(w, s) ==
  <<[line |-> "Stat", id |-> w, conn |-> conn[w], of |-> s], Blank>>

ErrorText(code, w, s) ==
  <<Status(code), Type, Length>> \o AppendStats(w, s) \o <<Page>>

StaticHead(w) == <<Status(200), Server, Length, Type>> \o AppendStats(w, stats[w])
StaticText(w) == StaticHead(w) \o <<Page>>

PostText(w) ==
  <<Status(200), Server, Length, Type>> \o AppendStats(w, stats[w]) \o body[w]

DynamicText(w) == <<Status(200), Server>> \o AppendStats(w, stats[w])

(* What a script like output.cgi writes, in one write.                     *)
ScriptText == <<Length, Type, Blank, Page>>

-----------------------------------------------------------------------------
At(w, label) == alive /\ pc[w] = label
Goto(w, label) == pc' = [pc EXCEPT ![w] = label]

(* Text is only ever appended to what the client already got.              *)
Write(w, text) == response' = [response EXCEPT ![conn[w]] = @ \o text]

Dequeue(w) ==
  /\ At(w, "idle")
  /\ taken < MaxConns
  /\ taken' = taken + 1
  /\ conn' = [conn EXCEPT ![w] = taken + 1]
  /\ Goto(w, "read")
  /\ UNCHANGED <<stats, stats_buf, body, alive, client, log>>

Read(w, r) ==
  /\ At(w, "read")
  /\ r \in Requests
  /\ request' = [request EXCEPT ![conn[w]] = r]

Count(w, counters) ==
  stats' = [stats EXCEPT ![w] = [k \in DOMAIN @ |-> IF k \in counters THEN @[k] + 1 ELSE @[k]]]

HandleNothing(w) ==
  /\ Read(w, "nothing")
  /\ Goto(w, "close")
  /\ UNCHANGED <<local, main, response, script, closed, log>>

(* The first read never returns: the worker is lost.                       *)
HandleSilent(w) ==
  /\ Read(w, "silent")
  /\ Goto(w, "lost")
  /\ UNCHANGED <<local, main, response, script, closed, log>>

(* requestReadhdrs never returns: it reads the end of the stream again and *)
(* again, or waits for more.                                               *)
HandleCut(w) ==
  /\ Read(w, "cut")
  /\ Count(w, {"total"})
  /\ Goto(w, "lost")
  /\ UNCHANGED <<conn, stats_buf, body, main, response, script, closed, log>>

HandleError(w) ==
  /\ \E e \in {<<"missing", 404>>, <<"forbidden", 403>>, <<"other", 501>>} :
       /\ Read(w, e[1])
       /\ Count(w, {"total"})
       /\ Write(w, ErrorText(e[2], w, stats'[w]))
  /\ Goto(w, "close")
  /\ UNCHANGED <<conn, stats_buf, body, main, script, closed, log>>

StaticFiles == {"static", "empty", "gone", "deaf"}

\* MUTANT of HandleStatic: the static counter is forgotten.
HandleStaticUncounted(w) ==
  /\ \E r \in StaticFiles : Read(w, r)
  /\ Count(w, {"total"})
  /\ stats_buf' = [stats_buf EXCEPT ![w] = AppendStats(w, stats'[w])]
  /\ Goto(w, "serveStatic")
  /\ UNCHANGED <<conn, body, main, response, script, closed, log>>

(* The entry is composed before the file is served.                        *)
HandleStatic(w) ==
  /\ \E r \in StaticFiles : Read(w, r)
  /\ Count(w, {"total", "static"})
  /\ stats_buf' = [stats_buf EXCEPT ![w] = AppendStats(w, stats'[w])]
  /\ Goto(w, "serveStatic")
  /\ UNCHANGED <<conn, body, main, response, script, closed, log>>

HandleDynamic(w) ==
  /\ Read(w, "cgi")
  /\ Count(w, {"total", "dynamic"})
  /\ stats_buf' = [stats_buf EXCEPT ![w] = AppendStats(w, stats'[w])]
  /\ Goto(w, "serveDynamic")
  /\ UNCHANGED <<conn, body, main, response, script, closed, log>>

HandlePost(w) ==
  /\ Read(w, "post")
  /\ Count(w, {"total", "post"})
  /\ Goto(w, "getLog")
  /\ UNCHANGED <<conn, stats_buf, body, main, response, script, closed, log>>

\* MUTANT of ServeStatic: the request is not logged.
ServeStaticUnlogged(w) ==
  /\ At(w, "serveStatic")
  /\ request[conn[w]] = "static"
  /\ Write(w, StaticText(w))
  /\ Goto(w, "close")
  /\ UNCHANGED <<local, main, request, script, closed, log>>

ServeStatic(w) ==
  /\ At(w, "serveStatic")
  /\ request[conn[w]] = "static"
  /\ Write(w, StaticText(w))
  /\ Goto(w, "addToLog")
  /\ UNCHANGED <<local, main, request, script, closed, log>>

(* The header fits into the socket, the file does not: Rio_writen never    *)
(* returns.                                                                *)
WriteBlocks(w) ==
  /\ At(w, "serveStatic")
  /\ request[conn[w]] = "deaf"
  /\ Write(w, StaticHead(w))
  /\ Goto(w, "lost")
  /\ UNCHANGED <<local, main, request, script, closed, log>>

(* The wrapper of open or mmap fails: unix_error ends the process, and the *)
(* 403 behind the call is never sent.                                      *)
OpenFails(w) ==
  /\ At(w, "serveStatic")
  /\ request[conn[w]] = "gone"
  /\ alive' = FALSE
  /\ UNCHANGED <<pc, local, taken, client, log>>

\* MUTANT of ServeEmpty: the request stays counted as static.
ServeEmptyCounted(w) ==
  /\ At(w, "serveStatic")
  /\ request[conn[w]] = "empty"
  /\ Write(w, ErrorText(403, w, stats[w]))
  /\ Goto(w, "addToLog")
  /\ UNCHANGED <<local, main, request, script, closed, log>>

(* An empty file cannot be mapped: the request is no static one any more.  *)
ServeEmpty(w) ==
  /\ At(w, "serveStatic")
  /\ request[conn[w]] = "empty"
  /\ stats' = [stats EXCEPT ![w].static = @ - 1]
  /\ Write(w, ErrorText(403, w, stats'[w]))
  /\ Goto(w, "addToLog")
  /\ UNCHANGED <<conn, stats_buf, body, main, request, script, closed, log>>

\* MUTANT of ServeDynamic: the worker does not wait for the script.
ServeDynamicNoWait(w) ==
  /\ At(w, "serveDynamic")
  /\ Write(w, DynamicText(w))
  /\ Goto(w, "addToLog")
  /\ UNCHANGED <<local, main, request, script, closed, log>>

ServeDynamic(w) ==
  /\ At(w, "serveDynamic")
  /\ Write(w, DynamicText(w))
  /\ Goto(w, "script")
  /\ UNCHANGED <<local, main, request, script, closed, log>>

(* The child writes to the client's socket; WaitPid returns when it exited,*)
(* when it failed (killed, or not executable) without a word, and, being   *)
(* WUNTRACED, also when it is stopped.  The worker does not look which.    *)
RunScript(w) ==
  /\ At(w, "script")
  /\ \E end \in {"done", "failed", "stopped"} :
       /\ script' = [script EXCEPT ![conn[w]] = end]
       /\ Write(w, IF end = "done" THEN ScriptText ELSE <<>>)
  /\ Goto(w, "addToLog")
  /\ UNCHANGED <<local, main, request, closed, log>>

(* A script that was stopped goes on, with a worker behind it or without.  *)
ContinueScript(c) ==
  /\ script[c] = "stopped"
  /\ script' = [script EXCEPT ![c] = "done"]
  /\ response' = [response EXCEPT ![c] = @ \o ScriptText]
  /\ UNCHANGED <<pc, local, main, request, closed, log>>

\* MUTANT of AddToLog: the newest entry comes first.
AddToLogInFront(w) ==
  /\ At(w, "addToLog")
  /\ log' = stats_buf[w] \o log
  /\ Goto(w, "close")
  /\ UNCHANGED <<local, main, client>>

\* MUTANT of AddToLog: the entry overwrites the log.
AddToLogOverwrites(w) ==
  /\ At(w, "addToLog")
  /\ log' = stats_buf[w]
  /\ Goto(w, "close")
  /\ UNCHANGED <<local, main, client>>

AddToLog(w) ==
  /\ At(w, "addToLog")
  /\ log' = log \o stats_buf[w]
  /\ Goto(w, "close")
  /\ UNCHANGED <<local, main, client>>

GetLog(w) ==
  /\ At(w, "getLog")
  /\ body' = [body EXCEPT ![w] = log]
  /\ Goto(w, "servePost")
  /\ UNCHANGED <<conn, stats, stats_buf, main, client, log>>

ServePost(w) ==
  /\ At(w, "servePost")
  /\ Write(w, PostText(w))
  /\ Goto(w, "close")
  /\ UNCHANGED <<local, main, request, script, closed, log>>

(* The locals of requestHandle end here.                                   *)
CloseConn(w) ==
  /\ At(w, "close")
  /\ closed' = closed \cup {conn[w]}
  /\ conn' = [conn EXCEPT ![w] = NoConn]
  /\ stats_buf' = [stats_buf EXCEPT ![w] = <<>>]
  /\ body' = [body EXCEPT ![w] = <<>>]
  /\ Goto(w, "idle")
  /\ UNCHANGED <<stats, main, request, response, script, log>>

Handle(w) ==
  \/ HandleNothing(w) \/ HandleSilent(w) \/ HandleCut(w) \/ HandleError(w)
  \/ HandleStatic(w) \/ HandleDynamic(w) \/ HandlePost(w)
  \/ ServeStatic(w) \/ WriteBlocks(w) \/ OpenFails(w) \/ ServeEmpty(w)
  \/ ServeDynamic(w) \/ RunScript(w)
  \/ AddToLog(w) \/ GetLog(w) \/ ServePost(w)

Next ==
  \/ \E w \in Workers : Dequeue(w) \/ Handle(w) \/ CloseConn(w)
  \/ \E c \in Conns : ContinueScript(c)

Spec == Init /\ [][Next]_vars

-----------------------------------------------------------------------------
(* What the state means                                                    *)

IsStat(text, i) == i \in DOMAIN text /\ text[i].line = "Stat"

(* The Stat lines of the response to a connection are the first ones in it *)
(* (a POST has those of the log behind them).                              *)
FirstStatPos(text) ==
  CHOOSE i \in DOMAIN text : IsStat(text, i) /\ \A j \in 1..(i - 1) : ~ IsStat(text, j)
StatPos(c) == FirstStatPos(response[c])
StatOf(c) == response[c][StatPos(c)]
Answered == {c \in closed : request[c] # "nothing"}
AnsweredBy(w) == {c \in Answered : StatOf(c).id = w}

(* Where the entries of a connection are in the log.                       *)
EntriesOf(c) == {i \in DOMAIN log : IsStat(log, i) /\ log[i].conn = c}

(* A text with a header, and one with what follows it.                     *)
HasHead(text) == \E j \in DOMAIN text : IsStat(text, j)
HasPage(text) == \E j \in DOMAIN text : text[j] = Page

-----------------------------------------------------------------------------
(* Properties                                                              *)

TypeOK ==
  /\ pc \in [Workers -> {"idle", "read", "serveStatic", "serveDynamic", "script",
                         "addToLog", "getLog", "servePost", "close", "lost"}]
  /\ alive \in BOOLEAN
  /\ conn \in [Workers -> Conns \cup {NoConn}]
  /\ \A w \in Workers : (conn[w] = NoConn) <=> (pc[w] = "idle")
  /\ stats \in [Workers -> [total : 0..MaxConns, static : 0..MaxConns,
                            dynamic : 0..MaxConns, post : 0..MaxConns]]
  /\ taken \in 0..MaxConns
  /\ request \in [Conns -> Requests \cup {"unread"}]
  /\ script \in [Conns -> {"none", "done", "failed", "stopped"}]
  /\ closed \subseteq 1..taken

(* request.h: the counters "reflect accurate request processing for each   *)
(* thread": between two requests a thread's counters are the numbers of    *)
(* responses of each kind it gave, and its responses carry the counts 1, 2,*)
(* ... without a gap or a repetition, whatever the other threads did.      *)
CountersAccurate ==
  \A w \in Workers :
    pc[w] = "idle" =>
      LET Count_(kind) == Cardinality({c \in AnsweredBy(w) : request[c] = kind}) IN
        /\ stats[w].static = Count_("static")
        /\ stats[w].dynamic = Count_("cgi")
        /\ stats[w].post = Count_("post")
        /\ stats[w].total = Cardinality(AnsweredBy(w))
        /\ {StatOf(c).of.total : c \in AnsweredBy(w)} = 1..stats[w].total

(* A client that saw its GET succeed and end (the descriptor closed) finds *)
(* it in the log, once, with the Stat lines it was sent; no POST and no    *)
(* refused request gets into the log, except the one for an empty file.    *)
ClosedIsLogged ==
  \A c \in closed :
    IF request[c] \in {"static", "cgi"}
    THEN \E i \in EntriesOf(c) : EntriesOf(c) = {i} /\ log[i] = StatOf(c)
    ELSE request[c] # "empty" => EntriesOf(c) = {}

(* A request gets into the log only after its response was written: a file,*)
(* or the refusal of an empty one, to its end, and a script's page, unless *)
(* WaitPid returned for a script that failed or is stopped; then only the  *)
(* header the server writes itself.                                        *)
LogFollowsResponses ==
  \A i \in DOMAIN log : IsStat(log, i) =>
    LET c == log[i].conn IN
      \/ HasPage(response[c])
      \/ /\ request[c] = "cgi" /\ script[c] \in {"failed", "stopped"}
         /\ HasHead(response[c])

(* request.h: "These values should ... be used in response headers/logs",  *)
(* test_server.py: the log is the Stat lines of the responses.  The entry  *)
(* of a request carries the Stat lines of its response.                    *)
EntryMatchesResponse ==
  \A c \in closed : \A i \in EntriesOf(c) : log[i] = StatOf(c)

-----------------------------------------------------------------------------
(* The inductive invariant behind the safety properties.                   *)

Counters == [total : 0..MaxConns, static : 0..MaxConns,
             dynamic : 0..MaxConns, post : 0..MaxConns]
Lines == [line : {"status"}, code : Nat]
           \cup [line : {"Server", "Content-Length", "Content-Type", "blank", "body"}]
           \cup [line : {"Stat"}, id : Workers, conn : Conns, of : Counters]
TextsTyped ==
  /\ stats_buf \in [Workers -> Seq(Lines)] /\ body \in [Workers -> Seq(Lines)]
  /\ response \in [Conns -> Seq(Lines)] /\ log \in Seq(Lines)

(* A connection that was taken is closed or with one worker.               *)
ConnsOwned ==
  /\ \A w \in Workers : conn[w] # NoConn => conn[w] \in (1..taken) \ closed
  /\ \A v, w \in Workers : v # w /\ conn[v] # NoConn => conn[v] # conn[w]
  /\ \A c \in 1..taken : c \in closed \/ \E w \in Workers : conn[w] = c
  /\ \A c \in Conns : c > taken => request[c] = "unread" /\ response[c] = <<>>

(* What the place of a worker says about the request it handles.           *)
At_(w, labels, requests) == pc[w] \in labels => request[conn[w]] \in requests
NeverDone == {"silent", "cut", "deaf"}
AtRequest ==
  /\ \A w \in Workers :
       /\ At_(w, {"read"}, {"unread"}) /\ At_(w, {"lost"}, NeverDone)
       /\ At_(w, {"serveStatic"}, StaticFiles)
       /\ At_(w, {"serveDynamic", "script"}, {"cgi"})
       /\ At_(w, {"addToLog"}, {"static", "empty", "cgi"})
       /\ At_(w, {"getLog", "servePost"}, {"post"})
       /\ At_(w, {"close"}, Requests \ (NeverDone \cup {"gone"}))
       /\ pc[w] \notin {"addToLog", "close"} => conn[w] = NoConn \/ script[conn[w]] = "none"
  /\ \A c \in closed : request[c] \in Requests \ (NeverDone \cup {"gone"})
  /\ \A c \in Conns : script[c] # "none" => request[c] = "cgi"

(* The first Stat lines of a text are l.                                   *)
StatLine(w, s) == [line |-> "Stat", id |-> w, conn |-> conn[w], of |-> s]
FirstStat(text, l) ==
  \E k \in DOMAIN text : /\ text[k] = l /\ l.line = "Stat"
                         /\ \A j \in 1..(k - 1) : ~ IsStat(text, j)

(* Where a worker has answered, the response begins with its own counters, *)
(* and before that there is none.                                          *)
Silent(w) == \/ pc[w] \in {"read", "serveStatic", "serveDynamic", "getLog", "servePost"}
             \/ pc[w] = "lost" /\ request[conn[w]] # "deaf"
             \/ pc[w] = "close" /\ request[conn[w]] = "nothing"
HasPageOrWhy(c) ==
  \/ HasPage(response[c])
  \/ request[c] = "cgi" /\ script[c] \in {"failed", "stopped"}
Responded ==
  /\ \A w \in Workers : pc[w] # "idle" =>
       IF Silent(w) THEN response[conn[w]] = <<>>
       ELSE FirstStat(response[conn[w]], StatLine(w, stats[w]))
  /\ \A w \in Workers : pc[w] = "addToLog" => HasPageOrWhy(conn[w])
  /\ \A c \in Answered : \E k \in DOMAIN response[c] : FirstStat(response[c], response[c][k])

(* The entry of a request is composed before it is served, and is that of  *)
(* its response unless the file turns out to be empty.                     *)
Composed ==
  \A w \in Workers : pc[w] \in {"serveStatic", "serveDynamic", "script", "addToLog"} =>
    \E s \in Counters :
      /\ stats_buf[w] = AppendStats(w, s)
      /\ (pc[w] = "addToLog" /\ request[conn[w]] = "empty") \/ s = stats[w]

(* Only requests whose handling is over are in the log, and each of those  *)
(* that succeeded is, once.                                                *)
Over(c) == c \in closed \/ \E w \in Workers : conn[w] = c /\ pc[w] = "close"
LogOfOver ==
  \A i \in DOMAIN log : IsStat(log, i) =>
    /\ log[i].conn \in 1..taken /\ Over(log[i].conn)
    /\ request[log[i].conn] \in {"static", "empty", "cgi"}
    /\ HasPageOrWhy(log[i].conn)
OverIsLogged ==
  \A c \in Conns : Over(c) /\ request[c] \in {"static", "cgi"} =>
    \E i \in EntriesOf(c) : EntriesOf(c) = {i} /\ log[i] = StatOf(c)

(* A thread's counters are the numbers of requests it answered, the one it *)
(* is handling included from the moment it is counted.                     *)
InHand(w, labels) == {c \in Conns : c = conn[w] /\ pc[w] \in labels}
Counted(w) ==
  AnsweredBy(w) \cup {c \in Conns : c = conn[w] /\ pc[w] \notin {"idle", "read"}
                                   /\ request[c] \notin {"nothing", "silent"}}
CountedAs(w, kinds) == {c \in Counted(w) : request[c] \in kinds}
CountsKept ==
  \A w \in Workers :
    /\ stats[w].total = Cardinality(Counted(w))
    /\ stats[w].static = Cardinality(CountedAs(w, {"static", "deaf"}) \cup InHand(w, {"serveStatic"}))
    /\ stats[w].dynamic = Cardinality(CountedAs(w, {"cgi"}))
    /\ stats[w].post = Cardinality(CountedAs(w, {"post"}))
    /\ {StatOf(c).of.total : c \in AnsweredBy(w)} = 1..Cardinality(AnsweredBy(w))

HandlerInv ==
  /\ TypeOK /\ TextsTyped /\ ConnsOwned /\ AtRequest /\ Responded /\ Composed
  /\ LogOfOver /\ OverIsLogged /\ CountsKept
=============================================================================
