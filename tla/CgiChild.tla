------------------------------ MODULE CgiChild ------------------------------
(***************************************************************************)
(* Dynamic requests with the processes they make: requestServeDynamic of   *)
(* src/request.c, whose child replaces itself by the script (src/output.c) *)
(* and writes to the client's socket, the worker's WaitPid and Close, and  *)
(* the wrappers of src/segel.c, whose failure ends the calling process.    *)
(*                                                                         *)
(* A connection ends for its client when no process has a descriptor of it *)
(* open, and a child gets a copy of every descriptor the server has open.  *)
(* A child also gets a copy of what the server printed and did not flush.  *)
(* The child made for a connection bears its number; so does the worker.   *)
(***************************************************************************)
EXTENDS Naturals, Sequences, FiniteSets

CONSTANTS
  MaxConns,   \* bound on the connections of a behaviour
  Workloads   \* what the connections may ask

Conns == 1..MaxConns

(* refused: requestError answers; script: the child can execute the file;  *)
(* broken: it cannot, though the file has the owner's permission.          *)
Kinds == {"refused", "script", "broken"}

ASSUME MaxConnsAssumption == MaxConns \in Nat
ASSUME WorkloadsAssumption == Workloads \subseteq [Conns -> Kinds]

VARIABLES
  alive,      \* whether the server process runs
  request,    \* what each connection asks
  pc,         \* where the worker of each connection is
  logged,     \* the connections in the server log
  stdout,     \* what requestError printed that is still in stdio's buffer
  child,      \* the life of the child of each connection
  copy,       \* its copy of that buffer
  stopped,    \* the children that a signal stopped at some time
  holders,    \* the processes with a descriptor of each connection
  got         \* the texts written to each connection

worker == <<pc, logged, stdout>>
process == <<child, copy, stopped>>
socket == <<holders, got>>
vars == <<alive, request, worker, process, socket>>

ServerProcess == 0
Live == {"forked", "running", "written", "stopped"}

Init ==
  /\ alive = TRUE
  /\ request \in Workloads
  /\ pc = [c \in Conns |-> "accept"] /\ logged = {} /\ stdout = <<>>
  /\ child = [c \in Conns |-> "none"]
  /\ copy = [c \in Conns |-> <<>>] /\ stopped = {}
  /\ holders = [c \in Conns |-> {}] /\ got = [c \in Conns |-> <<>>]

Text(part, c) == [part |-> part, of |-> c]
Write(c, text) == got' = [got EXCEPT ![c] = @ \o text]

At(c, label) == alive /\ pc[c] = label
Goto(c, label) == pc' = [pc EXCEPT ![c] = label]
Becomes(c, life) == child' = [child EXCEPT ![c] = life]

(* Process p ends, or closes all it has open.                              *)
Without(p) == [d \in Conns |-> holders[d] \ {p}]

-----------------------------------------------------------------------------
(* The threads of the server                                               *)

AcceptConn(c) ==
  /\ At(c, "accept")
  /\ Goto(c, "handle")
  /\ holders' = [holders EXCEPT ![c] = {ServerProcess}]
  /\ UNCHANGED <<alive, request, logged, stdout, process, got>>

(* The response is also printed: stdio keeps it, or flushes its buffer.    *)
RefuseConn(c) ==
  /\ At(c, "handle")
  /\ request[c] = "refused"
  /\ Write(c, <<Text("error", c)>>)
  /\ stdout' \in {<<>>, Append(stdout, Text("error", c))}
  /\ Goto(c, "close")
  /\ UNCHANGED <<alive, request, logged, process, holders>>

WriteHead(c) ==
  /\ At(c, "handle")
  /\ request[c] # "refused"
  /\ Write(c, <<Text("head", c)>>)
  /\ Goto(c, "fork")
  /\ UNCHANGED <<alive, request, logged, stdout, process, holders>>

(* The child has the descriptors the server has at this moment, those of   *)
(* the other threads' connections included, and its memory.                *)
Fork(c) ==
  /\ At(c, "fork")
  /\ Becomes(c, "forked")
  /\ copy' = [copy EXCEPT ![c] = stdout]
  /\ holders' = [d \in Conns |-> IF ServerProcess \in holders[d]
                                 THEN holders[d] \cup {c} ELSE holders[d]]
  /\ Goto(c, "wait")
  /\ UNCHANGED <<alive, request, logged, stdout, stopped, got>>

\* MUTANT of WaitPid: with WNOHANG, it does not wait.
WaitPidNoHang(c) ==
  /\ At(c, "wait")
  /\ child' = IF child[c] = "gone" THEN [child EXCEPT ![c] = "reaped"] ELSE child
  /\ Goto(c, "log")
  /\ UNCHANGED <<alive, request, logged, stdout, copy, stopped, socket>>

\* MUTANT of WaitPid: without WUNTRACED.
WaitPidUntilExit(c) ==
  /\ At(c, "wait")
  /\ child[c] = "gone" /\ Becomes(c, "reaped")
  /\ Goto(c, "log")
  /\ UNCHANGED <<alive, request, logged, stdout, copy, stopped, socket>>

(* WUNTRACED: the wait is also over while the child is stopped, and then   *)
(* nobody waits for it again.  How it ended is not looked at.              *)
WaitPid(c) ==
  /\ At(c, "wait")
  /\ \/ child[c] = "gone" /\ Becomes(c, "reaped")
     \/ child[c] = "stopped" /\ UNCHANGED child
  /\ Goto(c, "log")
  /\ UNCHANGED <<alive, request, logged, stdout, copy, stopped, socket>>

AddToLog(c) ==
  /\ At(c, "log")
  /\ logged' = logged \cup {c}
  /\ Goto(c, "close")
  /\ UNCHANGED <<alive, request, stdout, process, socket>>

\* MUTANT of CloseConn: the descriptor of a stopped script stays open.
CloseFinished(c) ==
  /\ At(c, "close")
  /\ holders' = IF child[c] \in Live THEN holders
                ELSE [holders EXCEPT ![c] = @ \ {ServerProcess}]
  /\ Goto(c, "done")
  /\ UNCHANGED <<alive, request, logged, stdout, process, got>>

CloseConn(c) ==
  /\ At(c, "close")
  /\ holders' = [holders EXCEPT ![c] = @ \ {ServerProcess}]
  /\ Goto(c, "done")
  /\ UNCHANGED <<alive, request, logged, stdout, process, got>>

(* A wrapper fails in some thread (Fork, Open, Accept, Rio_writen, ...):   *)
(* the process exits, its children go on.                                  *)
ServerExits ==
  /\ alive
  /\ alive' = FALSE
  /\ stdout' = <<>>
  /\ holders' = Without(ServerProcess)
  /\ UNCHANGED <<request, pc, logged, process, got>>

-----------------------------------------------------------------------------
(* The children                                                            *)

\* MUTANT of Exec: descriptors are closed on exec and Dup2 is forgotten.
ExecClosing(c) ==
  /\ child[c] = "forked" /\ request[c] = "script"
  /\ Becomes(c, "running")
  /\ copy' = [copy EXCEPT ![c] = <<>>]
  /\ holders' = Without(c)
  /\ UNCHANGED <<alive, request, worker, stopped, got>>

\* MUTANT of Exec: the script is run by a call that returns and exits.
ExecBySystem(c) ==
  /\ child[c] = "forked" /\ request[c] = "script"
  /\ Becomes(c, "running")
  /\ Write(c, copy[c])
  /\ copy' = [copy EXCEPT ![c] = <<>>]
  /\ UNCHANGED <<alive, request, worker, stopped, holders>>

(* Setenv, Dup2 and an Execve that succeeds: the descriptors stay open,    *)
(* the memory is gone.                                                     *)
Exec(c) ==
  /\ child[c] = "forked" /\ request[c] = "script"
  /\ Becomes(c, "running")
  /\ copy' = [copy EXCEPT ![c] = <<>>]
  /\ UNCHANGED <<alive, request, worker, stopped, socket>>

(* Execve fails after Dup2: unix_error's exit flushes the copied buffer,   *)
(* to the client.                                                          *)
ExecFails(c) ==
  /\ child[c] = "forked" /\ request[c] = "broken"
  /\ Write(c, copy[c])
  /\ copy' = [copy EXCEPT ![c] = <<>>]
  /\ Becomes(c, "gone")
  /\ holders' = Without(c)
  /\ UNCHANGED <<alive, request, worker, stopped>>

(* The script writes its page all at once, when it flushes.                *)
Output(c) ==
  /\ child[c] = "running"
  /\ Write(c, <<Text("page", c)>>)
  /\ Becomes(c, "written")
  /\ UNCHANGED <<alive, request, worker, copy, stopped, holders>>

Exit(c) ==
  /\ child[c] = "written"
  /\ Becomes(c, "gone")
  /\ holders' = Without(c)
  /\ UNCHANGED <<alive, request, worker, copy, stopped, got>>

(* A signal kills the script, or stops it (once, to bound a behaviour), or *)
(* lets it go on.                                                          *)
Die(c) ==
  /\ child[c] \in {"running", "stopped"}
  /\ Becomes(c, "gone")
  /\ holders' = Without(c)
  /\ UNCHANGED <<alive, request, worker, copy, stopped, got>>

Stop(c) ==
  /\ child[c] = "running" /\ c \notin stopped
  /\ Becomes(c, "stopped")
  /\ stopped' = stopped \cup {c}
  /\ UNCHANGED <<alive, request, worker, copy, socket>>

Continue(c) ==
  /\ child[c] = "stopped"
  /\ Becomes(c, "running")
  /\ UNCHANGED <<alive, request, worker, copy, stopped, socket>>

-----------------------------------------------------------------------------
WorkerStep(c) ==
  \/ RefuseConn(c) \/ WriteHead(c) \/ Fork(c)
  \/ WaitPid(c) \/ AddToLog(c) \/ CloseConn(c)

ChildStep(c) == Exec(c) \/ ExecFails(c) \/ Output(c) \/ Exit(c)

Signal(c) == Die(c) \/ Stop(c) \/ Continue(c)

Next ==
  \/ \E c \in Conns : AcceptConn(c) \/ WorkerStep(c) \/ ChildStep(c) \/ Signal(c)
  \/ ServerExits

Spec == Init /\ [][Next]_vars

(* Threads and processes run; nobody has to connect or to send a signal.   *)
FairSpec == Spec /\ \A c \in Conns : WF_vars(WorkerStep(c)) /\ WF_vars(ChildStep(c))

-----------------------------------------------------------------------------
(* Properties                                                              *)

Ended(c) == pc[c] # "accept" /\ holders[c] = {}

(* The end of the stream is the end of the response: once a client sees its*)
(* connection end, nothing is written to it any more, although the worker  *)
(* may have gone on without the script (WUNTRACED) or the server be gone.  *)
NothingAfterEnd == [][\A c \in Conns : Ended(c) => got'[c] = got[c]]_vars

(* A dynamic request is in the log only when its script has come to an end *)
(* and was collected: only a script that was stopped is left behind (still *)
(* running for a client the log calls served, and then a zombie).          *)
LoggedIsReaped ==
  \A c \in logged : child[c] = "reaped" \/ c \in stopped

(* A client is sent the text of another connection only if its own script  *)
(* could not be executed, and it is the printed answer to a refused one.   *)
OwnTextOnly ==
  \A c \in Conns : \A i \in DOMAIN got[c] :
    LET text == got[c][i] IN
      text.of # c => request[c] = "broken" /\ child[c] \notin Live
                     /\ request[text.of] = "refused"

(* A script that is stopped for ever does not keep its worker.             *)
StoppedFreesWorker ==
  \A c \in Conns : (pc[c] = "wait") ~> (pc[c] = "done" \/ ~ alive)

(* A closed connection ends for its client too, even if other children got *)
(* a copy of it: none keeps it for ever, unless it is stopped for ever.    *)
StreamEnds ==
  <>[](\A c \in Conns : child[c] # "stopped") =>
    \A c \in Conns : (pc[c] = "done" \/ (~ alive /\ pc[c] # "accept")) ~> Ended(c)

-----------------------------------------------------------------------------
(* The inductive invariant behind the safety properties.                   *)

(* Every variable keeps its type.                                          *)
Texts == [part : {"error", "head", "page"}, of : Conns]
TypeOK ==
  /\ alive \in BOOLEAN /\ request \in [Conns -> Kinds]
  /\ pc \in [Conns -> {"accept", "handle", "fork", "wait", "log", "close", "done"}]
  /\ child \in [Conns -> Live \cup {"none", "gone", "reaped"}]
  /\ stdout \in Seq(Texts) /\ copy \in [Conns -> Seq(Texts)]
  /\ logged \subseteq Conns /\ stopped \subseteq Conns
  /\ holders \in [Conns -> SUBSET (Conns \cup {ServerProcess})]
  /\ got \in [Conns -> Seq(Texts)]

(* There is a child from fork on, and only for a request that needs one; a *)
(* worker leaves WaitPid behind a child that is collected or was stopped.  *)
Forked ==
  \A c \in Conns : /\ pc[c] \in {"accept", "handle", "fork"} => child[c] = "none"
                   /\ pc[c] = "fork" => request[c] # "refused"
Collected ==
  /\ \A c \in Conns : child[c] = "stopped" => c \in stopped
  /\ \A c \in Conns : pc[c] = "log" \/ c \in logged => child[c] = "reaped" \/ c \in stopped

(* A worker has its connection open until it closes it, and a child the    *)
(* one it was made for until it ends.                                      *)
KeptOpen ==
  \A c \in Conns :
    /\ alive /\ pc[c] \in {"handle", "fork", "wait", "log", "close"}
         => ServerProcess \in holders[c]
    /\ child[c] \in Live => c \in holders[c]

(* What stdio keeps are answers to refused requests, and only a child that *)
(* came to nothing gave its connection some of them.                       *)
Refused(texts) == \A i \in DOMAIN texts : request[texts[i].of] = "refused"
PrintedRefused == Refused(stdout) /\ \A c \in Conns : Refused(copy[c])
ForeignFlushed ==
  \A c \in Conns : \A i \in DOMAIN got[c] :
    got[c][i].of # c => request[c] = "broken" /\ child[c] \in {"gone", "reaped"}
                        /\ request[got[c][i].of] = "refused"

ChildInv ==
  TypeOK /\ Forked /\ Collected /\ KeptOpen /\ PrintedRefused /\ ForeignFlushed
=============================================================================
