----------------------------- MODULE WebServer ------------------------------
(***************************************************************************)
(* The server as a whole: main and the workers of src/server.c around the  *)
(* requests of RequestHandler, with the queue as the AdmissionQueue that   *)
(* RequestQueue implements and the log as the atomic one that ServerLog    *)
(* implements.  Main accepts a connection and then waits for room; a       *)
(* worker's request counts in the queue until finishHandling, after Close. *)
(***************************************************************************)
EXTENDS RequestHandler

CONSTANT Capacity   \* que_size

ASSUME CapacityAssumption == Capacity \in Nat \ {0}
ASSUME WorkersAssumption == IsFiniteSet(Workers) /\ Workers # {}

VARIABLES
  accepted,   \* how many connections main accepted
  admitted,   \* how many of them it put into the queue
  waiting,    \* those no worker took, oldest first
  serving,    \* those that were taken and count in the queue
  finishing   \* what each worker closed and still has to take out of it

queue == <<admitted, waiting, serving>>
serverVars == <<vars, queue, accepted, finishing>>

Queue == INSTANCE AdmissionQueue WITH Places <- Cardinality(Workers)

ServerInit ==
  /\ Init /\ Queue!Init
  /\ accepted = 0
  /\ finishing = [w \in Workers |-> NoConn]

(* The main thread: Accept, then room and enqueue.                         *)
AcceptConn ==
  /\ alive
  /\ accepted = admitted
  /\ accepted < MaxConns
  /\ accepted' = accepted + 1
  /\ UNCHANGED <<vars, queue, finishing>>

\* MUTANT of EnqueueConn: the queue is taken for full with one slot free.
EnqueueLess ==
  /\ alive
  /\ accepted > admitted
  /\ Len(waiting) + Cardinality(serving) + 1 < Capacity
  /\ Queue!Admit
  /\ UNCHANGED <<vars, accepted, finishing>>

EnqueueConn ==
  /\ alive
  /\ accepted > admitted
  /\ Queue!Admit
  /\ UNCHANGED <<vars, accepted, finishing>>

(* A worker: dequeue, requestHandle, Close, finishHandling.                *)
DequeueConn(w) ==
  /\ finishing[w] = NoConn
  /\ Queue!Dispatch /\ Dequeue(w)
  /\ UNCHANGED <<accepted, finishing>>

HandleConn(w) ==
  /\ Handle(w)
  /\ UNCHANGED <<queue, accepted, finishing>>

CloseServed(w) ==
  /\ CloseConn(w)
  /\ finishing' = [finishing EXCEPT ![w] = conn[w]]
  /\ UNCHANGED <<queue, accepted>>

\* MUTANT of FinishHandling: not called when requestHandle returned early.
FinishAnswered(w) ==
  /\ alive
  /\ finishing[w] # NoConn
  /\ IF request[finishing[w]] = "nothing" THEN UNCHANGED queue
     ELSE Queue!Complete(finishing[w])
  /\ finishing' = [finishing EXCEPT ![w] = NoConn]
  /\ UNCHANGED <<vars, accepted>>

FinishHandling(w) ==
  /\ alive
  /\ finishing[w] # NoConn
  /\ Queue!Complete(finishing[w])
  /\ finishing' = [finishing EXCEPT ![w] = NoConn]
  /\ UNCHANGED <<vars, accepted>>

MainStep == AcceptConn \/ EnqueueConn
WorkerStep(w) ==
  DequeueConn(w) \/ HandleConn(w) \/ CloseServed(w) \/ FinishHandling(w)

(* A stopped script is not the server's any more.                          *)
ScriptStep ==
  /\ \E c \in Conns : ContinueScript(c)
  /\ UNCHANGED <<queue, accepted, finishing>>

ServerNext == MainStep \/ ScriptStep \/ \E w \in Workers : WorkerStep(w)

(* Threads run, and a script exits, fails or is stopped.  Nobody has to    *)
(* connect, and a client need not send its request, end it, close, or read *)
(* its response: what a worker reads is then "silent", "cut" or "deaf", and*)
(* its read or write is one that does not return.                          *)
ServerSpec ==
  /\ ServerInit /\ [][ServerNext]_serverVars
  /\ WF_serverVars(EnqueueConn)
  /\ \A w \in Workers : WF_serverVars(WorkerStep(w))

-----------------------------------------------------------------------------
(* Properties                                                              *)

(* Workers that never come back from a read or a write.                    *)
Lost == {w \in Workers : pc[w] = "lost"}

(* A client that stays silent, stops inside its headers (whether it closes *)
(* or not) or does not read what it asked for takes a worker, and a place  *)
(* in the queue, for ever.  As long as fewer are lost than there are       *)
(* workers and fewer than there are places, every other connection that is *)
(* accepted is served and closed, unless the process exits.                *)
OneWorkerIsEnough ==
  \A c \in Conns :
    (accepted >= c) ~>
      \/ c \in closed \/ request[c] \in NeverDone \/ ~ alive
      \/ Cardinality(Lost) >= Cardinality(Workers)
      \/ Cardinality(Lost) >= Capacity

(* A place in the queue is a connection some thread has in its hands: none *)
(* leaks, so the server that is idle has all of its places again; those    *)
(* that wait are the oldest that no worker took; and the server holds open *)
(* at most one connection more than it has places, the one that main       *)
(* accepted before it waited for room.                                     *)
PlacesAreHeld ==
  /\ serving = ({conn[w] : w \in Workers} \cup {finishing[w] : w \in Workers}) \ {NoConn}
  /\ Cardinality({c \in 1..accepted : c \notin closed}) <= Capacity + 1
  /\ \A i \in DOMAIN waiting : waiting[i] = taken + i

(* test_server.py, test_pending_and_active_le_queue_size: "this is the     *)
(* expected implementation: Queue.wait, Accept, Arrival, Queue.enqueue".   *)
(* The connections that are accepted and not closed, pending and active,   *)
(* are at most as many as the queue has places.                            *)
AcceptedWithinCapacity ==
  Cardinality({c \in 1..accepted : c \notin closed}) <= Capacity

-----------------------------------------------------------------------------
(* The inductive invariant behind it, with that of RequestHandler.         *)

(* Connections are numbered in the order of Accept, main has at most one   *)
(* that is not in the queue yet, and those that wait follow those taken.   *)
Numbered ==
  /\ accepted \in 0..MaxConns /\ admitted \in Nat /\ admitted <= accepted
  /\ accepted <= admitted + 1
  /\ waiting \in Seq(Nat) /\ Len(waiting) + taken = admitted
  /\ \A i \in DOMAIN waiting : waiting[i] = taken + i

(* What a worker closed counts in the queue until it takes it out, and only*)
(* then does the worker take another.                                      *)
Held == ({conn[w] : w \in Workers} \cup {finishing[w] : w \in Workers}) \ {NoConn}
Finishing ==
  /\ finishing \in [Workers -> closed \cup {NoConn}]
  /\ \A v, w \in Workers : v # w /\ finishing[v] # NoConn => finishing[v] # finishing[w]
  /\ \A w \in Workers : pc[w] # "idle" => finishing[w] = NoConn
WithinCapacity == serving = Held /\ Len(waiting) + Cardinality(serving) <= Capacity

ServerInv == Numbered /\ Finishing /\ WithinCapacity
=============================================================================
