---------------------------- MODULE RequestQueue ----------------------------
(***************************************************************************)
(* The thread pool and the request queue of src/server.c at the grain of   *)
(* its critical sections: the main thread accepts connections and puts     *)
(* them in a ring buffer, the workers take them out, handle them, close    *)
(* them and give the room back.  One mutex and two condition variables     *)
(* synchronise them.                                                       *)
(*                                                                         *)
(* A connection is its number in the order of acceptance, so main's local  *)
(* connfd is always the value of accepted.  A critical section is a step   *)
(* that takes the mutex and one or two steps that need it; the last one    *)
(* gives it back.  A condition variable is the set of threads asleep on    *)
(* it; a signalled thread leaves the set and has to take the mutex again.  *)
(* requestHandle is one step here (see RequestHandler).  A wrapper that    *)
(* fails calls exit(0): the behaviour just stops there.                    *)
(***************************************************************************)
EXTENDS Naturals, Sequences, FiniteSets

CONSTANTS
  Workers,    \* the threads of thread_pool
  Main,       \* the thread that runs main
  Capacity,   \* que_size
  MaxConns,   \* bound on the connections a behaviour accepts
  Nobody      \* the owner of a free mutex

(* getargs refuses fewer than one thread and a queue of less than one.     *)
ASSUME WorkersAssumption == IsFiniteSet(Workers) /\ Workers # {}
ASSUME CapacityAssumption == Capacity \in Nat \ {0}
ASSUME MaxConnsAssumption == MaxConns \in Nat
ASSUME ThreadsAssumption == Main \notin Workers /\ Nobody \notin Workers \cup {Main}

VARIABLES
  buffer, size, front, rear, dequeueing_size,   \* struct RequestQueue
  mutex,                                        \* the thread that holds it
  not_full, not_empty,                          \* the threads asleep on them
  pc,         \* where each thread is
  req,        \* each worker's local req
  accepted,   \* how many connections main accepted; main's connfd
  open        \* the accepted connections whose descriptor is not closed

ring == <<buffer, size, front, rear, dequeueing_size>>
sync == <<mutex, not_full, not_empty>>
vars == <<ring, sync, pc, req, accepted, open>>

Threads == Workers \cup {Main}
NoConn == 0
Conns == 1..MaxConns
Slots == 0..(Capacity - 1)

MainLabels == {"spawn", "accept", "roomLock", "roomTest", "roomSleep",
               "enqLock", "enqTest", "enqSleep", "enqAdvance"}
WorkerLabels == {"unborn", "deqLock", "deqTest", "deqSleep", "deqAdvance",
                 "handle", "close", "finLock", "finish"}

(* The slots of a fresh buffer hold whatever Malloc returned: NoConn.      *)
Init ==
  /\ buffer = [i \in Slots |-> NoConn]
  /\ size = 0 /\ front = 0 /\ rear = 0 /\ dequeueing_size = 0
  /\ mutex = Nobody /\ not_full = {} /\ not_empty = {}
  /\ pc = [t \in Threads |-> IF t = Main THEN "spawn" ELSE "unborn"]
  /\ req = [w \in Workers |-> NoConn]
  /\ accepted = 0 /\ open = {}

-----------------------------------------------------------------------------
(* pthread primitives                                                      *)

At(t, label) == pc[t] = label
Goto(t, label) == pc' = [pc EXCEPT ![t] = label]

Acquire(t) == mutex = Nobody /\ mutex' = t
Release(t) == mutex = t /\ mutex' = Nobody

(* The sets of sleepers a signal may leave: one sleeper fewer if any.      *)
Signal(sleepers) ==
  IF sleepers = {} THEN {{}} ELSE {sleepers \ {t} : t \in sleepers}

-----------------------------------------------------------------------------
(* main                                                                    *)

CreateWorker(w) ==
  /\ At(Main, "spawn")
  /\ At(w, "unborn")
  /\ pc' = [pc EXCEPT
       ![w] = "deqLock",
       ![Main] = IF \A v \in Workers \ {w} : pc[v] # "unborn"
                 THEN "accept" ELSE "spawn"]
  /\ UNCHANGED <<ring, sync, req, accepted, open>>

Accept ==
  /\ At(Main, "accept")
  /\ accepted < MaxConns
  /\ accepted' = accepted + 1
  /\ open' = open \cup {accepted + 1}
  /\ Goto(Main, "roomLock")
  /\ UNCHANGED <<ring, sync, req>>

(* The two places where main waits for room: before it stamps the arrival, *)
(* and again inside enqueue.                                               *)
RoomWaits == {<<"roomTest", "roomSleep">>, <<"enqTest", "enqSleep">>}

WaitForRoom ==
  \E site \in RoomWaits :
    /\ At(Main, site[1])
    /\ size = Capacity
    /\ Release(Main)
    /\ not_full' = not_full \cup {Main}
    /\ Goto(Main, site[2])
    /\ UNCHANGED <<ring, not_empty, req, accepted, open>>

WakeForRoom ==
  \E site \in RoomWaits :
    /\ At(Main, site[2])
    /\ Main \notin not_full
    /\ Acquire(Main)
    /\ Goto(Main, site[1])
    /\ UNCHANGED <<ring, not_full, not_empty, req, accepted, open>>

RoomLock ==
  /\ At(Main, "roomLock")
  /\ Acquire(Main)
  /\ Goto(Main, "roomTest")
  /\ UNCHANGED <<ring, not_full, not_empty, req, accepted, open>>

\* MUTANT of RoomFound: main goes on without looking at size.
RoomNotTested ==
  /\ At(Main, "roomTest")
  /\ Release(Main)
  /\ Goto(Main, "enqLock")
  /\ UNCHANGED <<ring, not_full, not_empty, req, accepted, open>>

RoomFound ==
  /\ At(Main, "roomTest")
  /\ size # Capacity
  /\ Release(Main)
  /\ Goto(Main, "enqLock")
  /\ UNCHANGED <<ring, not_full, not_empty, req, accepted, open>>

EnqueueLock ==
  /\ At(Main, "enqLock")
  /\ Acquire(Main)
  /\ Goto(Main, "enqTest")
  /\ UNCHANGED <<ring, not_full, not_empty, req, accepted, open>>

\* MUTANT of EnqueueStore: the slot is computed from size, which also counts
\* the requests being handled.
EnqueueStoreBySize ==
  /\ At(Main, "enqTest")
  /\ mutex = Main
  /\ size # Capacity
  /\ buffer' = [buffer EXCEPT ![(front + size) % Capacity] = accepted]
  /\ Goto(Main, "enqAdvance")
  /\ UNCHANGED <<size, front, rear, dequeueing_size, sync, req, accepted, open>>

EnqueueStore ==
  /\ At(Main, "enqTest")
  /\ mutex = Main
  /\ size # Capacity
  /\ buffer' = [buffer EXCEPT ![rear] = accepted]
  /\ Goto(Main, "enqAdvance")
  /\ UNCHANGED <<size, front, rear, dequeueing_size, sync, req, accepted, open>>

\* MUTANT of EnqueueAdvance: rear wraps one slot late.
EnqueueAdvanceLate ==
  /\ At(Main, "enqAdvance")
  /\ rear' = IF rear = Capacity THEN 0 ELSE rear + 1
  /\ size' = size + 1
  /\ dequeueing_size' = dequeueing_size + 1
  /\ not_empty' \in Signal(not_empty)
  /\ Release(Main)
  /\ Goto(Main, "accept")
  /\ UNCHANGED <<buffer, front, not_full, req, accepted, open>>

\* MUTANT of EnqueueAdvance: only the first request of an empty ring signals.
EnqueueSignalsOnce ==
  /\ At(Main, "enqAdvance")
  /\ rear' = (rear + 1) % Capacity
  /\ size' = size + 1
  /\ dequeueing_size' = dequeueing_size + 1
  /\ not_empty' \in IF dequeueing_size = 0 THEN Signal(not_empty) ELSE {not_empty}
  /\ Release(Main)
  /\ Goto(Main, "accept")
  /\ UNCHANGED <<buffer, front, not_full, req, accepted, open>>

EnqueueAdvance ==
  /\ At(Main, "enqAdvance")
  /\ rear' = (rear + 1) % Capacity
  /\ size' = size + 1
  /\ dequeueing_size' = dequeueing_size + 1
  /\ not_empty' \in Signal(not_empty)
  /\ Release(Main)
  /\ Goto(Main, "accept")
  /\ UNCHANGED <<buffer, front, not_full, req, accepted, open>>

-----------------------------------------------------------------------------
(* worker_thread                                                           *)

DequeueLock(w) ==
  /\ At(w, "deqLock")
  /\ Acquire(w)
  /\ Goto(w, "deqTest")
  /\ UNCHANGED <<ring, not_full, not_empty, req, accepted, open>>

WaitForRequest(w) ==
  /\ At(w, "deqTest")
  /\ dequeueing_size = 0
  /\ Release(w)
  /\ not_empty' = not_empty \cup {w}
  /\ Goto(w, "deqSleep")
  /\ UNCHANGED <<ring, not_full, req, accepted, open>>

WakeForRequest(w) ==
  /\ At(w, "deqSleep")
  /\ w \notin not_empty
  /\ Acquire(w)
  /\ Goto(w, "deqTest")
  /\ UNCHANGED <<ring, not_full, not_empty, req, accepted, open>>

\* MUTANT of DequeueTake: the newest request is taken instead of the oldest.
DequeueTakeNewest(w) ==
  /\ At(w, "deqTest")
  /\ mutex = w
  /\ dequeueing_size # 0
  /\ req' = [req EXCEPT ![w] = buffer[(rear + Capacity - 1) % Capacity]]
  /\ Goto(w, "deqAdvance")
  /\ UNCHANGED <<ring, sync, accepted, open>>

DequeueTake(w) ==
  /\ At(w, "deqTest")
  /\ mutex = w
  /\ dequeueing_size # 0
  /\ req' = [req EXCEPT ![w] = buffer[front]]
  /\ Goto(w, "deqAdvance")
  /\ UNCHANGED <<ring, sync, accepted, open>>

\* MUTANT of DequeueAdvance: dequeue already gives the room back.
DequeueFreesRoom(w) ==
  /\ At(w, "deqAdvance")
  /\ front' = (front + 1) % Capacity
  /\ dequeueing_size' = dequeueing_size - 1
  /\ size' = size - 1
  /\ Release(w)
  /\ Goto(w, "handle")
  /\ UNCHANGED <<buffer, rear, not_full, not_empty, req, accepted, open>>

DequeueAdvance(w) ==
  /\ At(w, "deqAdvance")
  /\ front' = (front + 1) % Capacity
  /\ dequeueing_size' = dequeueing_size - 1
  /\ Release(w)
  /\ Goto(w, "handle")
  /\ UNCHANGED <<buffer, size, rear, not_full, not_empty, req, accepted, open>>

\* MUTANT of Handle: the worker goes on to finishHandling without Close.
HandleSkipsClose(w) ==
  /\ At(w, "handle")
  /\ Goto(w, "finLock")
  /\ UNCHANGED <<ring, sync, req, accepted, open>>

Handle(w) ==
  /\ At(w, "handle")
  /\ Goto(w, "close")
  /\ UNCHANGED <<ring, sync, req, accepted, open>>

CloseConn(w) ==
  /\ At(w, "close")
  /\ open' = open \ {req[w]}
  /\ Goto(w, "finLock")
  /\ UNCHANGED <<ring, sync, req, accepted>>

FinishLock(w) ==
  /\ At(w, "finLock")
  /\ Acquire(w)
  /\ Goto(w, "finish")
  /\ UNCHANGED <<ring, not_full, not_empty, req, accepted, open>>

\* MUTANT of FinishHandling: not_full is not signalled.
FinishSilently(w) ==
  /\ At(w, "finish")
  /\ size' = size - 1
  /\ Release(w)
  /\ req' = [req EXCEPT ![w] = NoConn]
  /\ Goto(w, "deqLock")
  /\ UNCHANGED <<buffer, front, rear, dequeueing_size, not_full, not_empty, accepted, open>>

(* The loop body ends here, and with it the life of its req.               *)
FinishHandling(w) ==
  /\ At(w, "finish")
  /\ size' = size - 1
  /\ not_full' \in Signal(not_full)
  /\ Release(w)
  /\ req' = [req EXCEPT ![w] = NoConn]
  /\ Goto(w, "deqLock")
  /\ UNCHANGED <<buffer, front, rear, dequeueing_size, not_empty, accepted, open>>

(* POSIX lets pthread_cond_wait return without a signal.                   *)
SpuriousWake ==
  /\ \E t \in not_full \cup not_empty :
       not_full' = not_full \ {t} /\ not_empty' = not_empty \ {t}
  /\ UNCHANGED <<ring, mutex, pc, req, accepted, open>>

-----------------------------------------------------------------------------
MainStep == \/ WaitForRoom \/ WakeForRoom \/ RoomLock \/ RoomFound
            \/ EnqueueLock \/ EnqueueStore \/ EnqueueAdvance

WorkerStep(w) ==
  \/ DequeueLock(w) \/ WaitForRequest(w) \/ WakeForRequest(w)
  \/ DequeueTake(w) \/ DequeueAdvance(w)
  \/ Handle(w) \/ CloseConn(w) \/ FinishLock(w) \/ FinishHandling(w)

Next == \/ Accept \/ MainStep
        \/ \E w \in Workers : CreateWorker(w) \/ WorkerStep(w)
        \/ SpuriousWake

Spec == Init /\ [][Next]_vars

(* The steps that compete for the mutex.                                   *)
MainLocks == RoomLock \/ EnqueueLock \/ WakeForRoom
WorkerLocks(w) == DequeueLock(w) \/ WakeForRequest(w) \/ FinishLock(w)

(* A thread that can run eventually runs, and one that keeps finding the   *)
(* mutex free eventually gets it.  Nobody has to connect (no fairness on   *)
(* Accept) and nobody has to be woken without a signal.                    *)
Fairness ==
  /\ WF_vars(MainStep) /\ SF_vars(MainLocks)
  /\ \A w \in Workers : WF_vars(CreateWorker(w) \/ WorkerStep(w)) /\ SF_vars(WorkerLocks(w))

FairSpec == Spec /\ Fairness

-----------------------------------------------------------------------------
(* What the state means                                                    *)

(* Main holds a connection from Accept until enqueue has stored it.        *)
MainHolds == pc[Main] \notin {"spawn", "accept"}
Enqueued == IF MainHolds THEN accepted - 1 ELSE accepted

(* The connections in the ring, oldest first.                              *)
Pending == [i \in 1..dequeueing_size |-> buffer[(front + i - 1) % Capacity]]

(* Workers between dequeue and finishHandling, and those among them that   *)
(* have not closed their connection.                                       *)
Serving == {w \in Workers : pc[w] \in {"handle", "close", "finLock", "finish"}}
Handling == {w \in Workers : pc[w] \in {"handle", "close"}}

(* Workers that are awake on their way to the ring.                        *)
Coming == {w \in Workers : \/ pc[w] \in {"deqLock", "deqTest", "deqAdvance"}
                           \/ pc[w] = "deqSleep" /\ w \notin not_empty}

-----------------------------------------------------------------------------
(* Properties                                                              *)

(* Every variable keeps its type: indices stay in the buffer, counters in  *)
(* 0..Capacity, only main sleeps on not_full and only workers on not_empty.*)
TypeOK ==
  /\ buffer \in [Slots -> Conns \cup {NoConn}]
  /\ size \in 0..Capacity /\ dequeueing_size \in 0..Capacity
  /\ front \in Slots /\ rear \in Slots
  /\ mutex \in Threads \cup {Nobody}
  /\ not_full \subseteq {Main} /\ not_empty \subseteq Workers
  /\ pc \in [Threads -> MainLabels \cup WorkerLabels]
  /\ pc[Main] \in MainLabels /\ \A w \in Workers : pc[w] \in WorkerLabels
  /\ req \in [Workers -> Conns \cup {NoConn}]
  /\ accepted \in 0..MaxConns
  /\ open \subseteq Conns

(* size counts the requests that wait and the ones being handled, until    *)
(* finishHandling, and together they never exceed the queue size given on  *)
(* the command line, however dequeue, enqueue and finishHandling interleave.*)
PendingAndActiveBounded ==
  /\ size = dequeueing_size + Cardinality(Serving)
  /\ size <= Capacity

(* The slots from front to rear hold exactly the accepted connections that *)
(* nobody took, in the order of acceptance: no enqueue overwrites a        *)
(* request that waits, and no dequeue returns one twice or out of order.   *)
RingHoldsPending ==
  /\ rear = (front + dequeueing_size) % Capacity
  /\ \A i \in 1..dequeueing_size : Pending[i] = Enqueued - dequeueing_size + i

(* A descriptor that is open is main's, in the ring or with one worker that*)
(* will still close it; nobody works on a closed one, and no two workers   *)
(* on the same one.                                                        *)
OpenConnectionsOwned ==
  /\ open = {accepted : x \in {y \in {Main} : MainHolds}}
              \cup {Pending[i] : i \in 1..dequeueing_size}
              \cup {req[w] : w \in Handling}
  /\ \A v, w \in Serving : v # w => req[v] # req[w]

(* One signal per enqueue is enough: while a worker sleeps on not_empty,   *)
(* every request that waits has a worker awake that is coming for it.      *)
WorkConserving ==
  not_empty # {} => dequeueing_size <= Cardinality(Coming)

(* Main never sleeps through room: it sleeps on not_full only while the    *)
(* queue is full, so some worker has yet to call finishHandling.           *)
RoomWakesMain ==
  not_full # {} => size = Capacity

(* The room main saw before it stamped the arrival is still there when it  *)
(* gets into enqueue: enqueue's own wait (lines 58-60) is never taken, so  *)
(* the arrival stamp is never older than the wait for room.                *)
EnqueueNeverWaits == ~ At(Main, "enqSleep")

(* Every accepted connection is eventually closed, however few workers     *)
(* there are and however small the ring.                                   *)
AcceptedIsClosed == \A c \in Conns : (c \in open) ~> (c \notin open)

(* The queue implements the first-in-first-out admission queue, with its   *)
(* bound, and its fairness.                                                *)
Admission == INSTANCE AdmissionQueue WITH
  Places <- Cardinality(Workers),
  admitted <- Enqueued, waiting <- Pending,
  serving <- {req[w] : w \in Serving}

ImplementsAdmission == Admission!Spec

(* The inductive invariant behind the bound.  The mutex is held exactly    *)
(* inside the critical sections, the room found at line 167 is kept until  *)
(* enqueue uses it, and a worker only takes what is in the ring.           *)
InSection(t) ==
  pc[t] \in {"roomTest", "enqTest", "enqAdvance", "deqTest", "deqAdvance", "finish"}
MutexOwned == \A t \in Threads : InSection(t) <=> mutex = t
RoomKept == pc[Main] \in {"enqLock", "enqTest", "enqAdvance"} => size < Capacity
TakesPending == \A w \in Workers : pc[w] = "deqAdvance" => dequeueing_size > 0

BoundInv ==
  /\ TypeOK /\ MutexOwned /\ RoomKept /\ TakesPending
  /\ PendingAndActiveBounded /\ EnqueueNeverWaits

(* Whoever sleeps on a condition variable is in its pthread_cond_wait.     *)
SleepersWait == /\ Main \in not_full => pc[Main] \in {"roomSleep", "enqSleep"}
                /\ \A w \in not_empty : pc[w] = "deqSleep"
WakeInv == BoundInv /\ SleepersWait /\ RoomWakesMain /\ WorkConserving

(* Between its two steps enqueue has stored the connection at rear.        *)
StoredAtRear == pc[Main] = "enqAdvance" => buffer[rear] = accepted
FifoInv == BoundInv /\ StoredAtRear /\ RingHoldsPending

(* Connections leave the ring in the order of their numbers, so a worker's *)
(* are below those that wait, and nobody shares one.                       *)
Taken == Enqueued - dequeueing_size
TakesOldest == \A w \in Workers : pc[w] = "deqAdvance" => req[w] = Taken + 1
ServesTaken == \A w \in Serving : req[w] \in 1..Taken
ServesAlone == \A v, w \in Serving : v # w => req[v] # req[w]
OpenUntilClosed == open = (Taken + 1)..accepted \cup {req[w] : w \in Handling}
OwnInv == FifoInv /\ TakesOldest /\ ServesTaken /\ ServesAlone /\ OpenUntilClosed
=============================================================================
