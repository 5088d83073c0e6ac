------------------------- MODULE RequestQueueProofs -------------------------
(* Proofs about RequestQueue, for every pool, capacity and workload.       *)
EXTENDS RequestQueue, FiniteSetTheorems, TLAPS

(* The workers being served are a finite set.                              *)
LEMMA ServingFinite == IsFiniteSet(Serving) /\ Cardinality(Serving) \in Nat
BY WorkersAssumption, FS_Subset, FS_CardinalityType DEF Serving

(* A worker that dequeued counts once more ...                             *)
LEMMA ServingGrows ==
  ASSUME NEW w \in Workers, w \notin Serving, Serving' = Serving \cup {w}
  PROVE  Cardinality(Serving') = Cardinality(Serving) + 1
BY ServingFinite, FS_AddElement

(* ... and one that finished once less.                                    *)
LEMMA ServingShrinks ==
  ASSUME NEW w \in Workers, w \in Serving, Serving' = Serving \ {w}
  PROVE  /\ Cardinality(Serving) > 0
         /\ Cardinality(Serving') = Cardinality(Serving) - 1
<1>1. Cardinality(Serving) # 0
  BY ServingFinite, FS_EmptySet
<1>2. Cardinality(Serving \ {w}) = Cardinality(Serving) - 1
  BY ServingFinite, FS_RemoveElement
<1> QED
  BY <1>1, <1>2, ServingFinite

(* Advancing an index keeps it in the buffer.                              *)
LEMMA AdvanceStays ==
  ASSUME NEW i \in Slots
  PROVE  (i + 1) % Capacity \in Slots
BY CapacityAssumption DEF Slots

(* A signal only takes sleepers away.                                      *)
LEMMA SignalShrinks ==
  ASSUME NEW S, NEW R \in Signal(S)
  PROVE  R \subseteq S
BY DEF Signal

(* BoundInv holds when main has created the pool and nobody has connected. *)
LEMMA InitBound == Init => BoundInv
<1> SUFFICES ASSUME Init PROVE BoundInv
  OBVIOUS
<1> USE WorkersAssumption, CapacityAssumption, MaxConnsAssumption, ThreadsAssumption
<1>1. TypeOK
  BY DEF Init, TypeOK, Slots, Threads, MainLabels, WorkerLabels, Conns, NoConn
<1>2. MutexOwned
  BY DEF Init, MutexOwned, InSection, Threads
<1>3. RoomKept /\ TakesPending /\ EnqueueNeverWaits
  BY DEF Init, RoomKept, TakesPending, EnqueueNeverWaits, At, Threads
<1>4. PendingAndActiveBounded
  <2>1. Serving = {}
    BY DEF Init, Serving, Threads
  <2> QED
    BY <2>1, FS_EmptySet DEF Init, PendingAndActiveBounded
<1> QED
  BY <1>1, <1>2, <1>3, <1>4 DEF BoundInv

-----------------------------------------------------------------------------
(* A step keeps the types.  Only the steps that count need more than the   *)
(* types: room for an enqueue, a request for a dequeue, and a worker that  *)
(* is counted in size for finishHandling.                                  *)
LEMMA TypeStep == BoundInv /\ [Next]_vars => TypeOK'
<1> SUFFICES ASSUME BoundInv, [Next]_vars PROVE TypeOK'
  OBVIOUS
<1> USE WorkersAssumption, CapacityAssumption, MaxConnsAssumption, ThreadsAssumption
    DEF BoundInv, Goto, At, Acquire, Release, Threads, MainLabels, WorkerLabels,
        ring, sync, Conns, NoConn, RoomWaits
<1>1. CASE Accept
  BY <1>1 DEF Accept, TypeOK
<1>2. CASE WaitForRoom \/ WakeForRoom
  <2>1. PICK label \in {"roomTest", "roomSleep", "enqTest", "enqSleep"} :
             pc' = [pc EXCEPT ![Main] = label]
    BY <1>2 DEF WaitForRoom, WakeForRoom
  <2>2. pc' \in [Threads -> MainLabels \cup WorkerLabels] /\ pc'[Main] \in MainLabels
    BY <2>1 DEF TypeOK
  <2>3. CASE WaitForRoom
    BY <2>1, <2>3 DEF WaitForRoom, TypeOK
  <2>4. CASE WakeForRoom
    BY <2>1, <2>4 DEF WakeForRoom, TypeOK
  <2> QED
    BY <1>2, <2>3, <2>4
<1>3. CASE RoomLock \/ RoomFound \/ EnqueueLock
  BY <1>3 DEF RoomLock, RoomFound, EnqueueLock, TypeOK
<1>4. CASE EnqueueStore
  BY <1>4 DEF EnqueueStore, TypeOK
<1>5. CASE EnqueueAdvance
  <2>1. size < Capacity /\ dequeueing_size < Capacity
    BY <1>5, ServingFinite DEF EnqueueAdvance, RoomKept, PendingAndActiveBounded, TypeOK
  <2>2. rear' \in Slots
    BY <1>5, AdvanceStays DEF EnqueueAdvance, TypeOK
  <2>3. not_empty' \subseteq Workers
    BY <1>5, SignalShrinks DEF EnqueueAdvance, TypeOK
  <2> QED
    BY <1>5, <2>1, <2>2, <2>3 DEF EnqueueAdvance, TypeOK
<1>6. ASSUME NEW w \in Workers, CreateWorker(w) \/ WorkerStep(w) PROVE TypeOK'
  <2>1. CASE CreateWorker(w)
    BY <2>1 DEF CreateWorker, TypeOK
  <2>2. CASE DequeueLock(w)
    BY <2>2 DEF DequeueLock, TypeOK
  <2>3. CASE WaitForRequest(w)
    BY <2>3 DEF WaitForRequest, TypeOK
  <2>4. CASE WakeForRequest(w)
    BY <2>4 DEF WakeForRequest, TypeOK
  <2>5. CASE DequeueTake(w)
    BY <2>5 DEF DequeueTake, TypeOK, Slots
  <2>6. CASE DequeueAdvance(w)
    <3>1. dequeueing_size > 0
      BY <2>6 DEF DequeueAdvance, TakesPending
    <3>2. front' \in Slots
      BY <2>6, AdvanceStays DEF DequeueAdvance, TypeOK
    <3> QED
      BY <2>6, <3>1, <3>2 DEF DequeueAdvance, TypeOK
  <2>7. CASE Handle(w)
    BY <2>7 DEF Handle, TypeOK
  <2>8. CASE CloseConn(w)
    BY <2>8 DEF CloseConn, TypeOK
  <2>9. CASE FinishLock(w)
    BY <2>9 DEF FinishLock, TypeOK
  <2>10. CASE FinishHandling(w)
    <3>1. w \in Serving
      BY <2>10 DEF FinishHandling, Serving
    <3>2. Cardinality(Serving) # 0
      BY <3>1, ServingFinite, FS_EmptySet
    <3>3. size > 0
      BY <3>2, ServingFinite DEF PendingAndActiveBounded, TypeOK
    <3>4. not_full' \subseteq {Main}
      BY <2>10, SignalShrinks DEF FinishHandling, TypeOK
    <3> QED
      BY <2>10, <3>3, <3>4 DEF FinishHandling, TypeOK
  <2> QED
    BY <1>6, <2>1, <2>2, <2>3, <2>4, <2>5, <2>6, <2>7, <2>8, <2>9,
       <2>10 DEF WorkerStep
<1>7. CASE SpuriousWake
  BY <1>7 DEF SpuriousWake, TypeOK
<1>8. CASE UNCHANGED vars
  BY <1>8 DEF vars, TypeOK
<1> QED
  BY <1>1, <1>2, <1>3, <1>4, <1>5, <1>6, <1>7, <1>8 DEF Next, MainStep

(* A step keeps the mutex with the thread that is in a critical section.   *)
LEMMA MutexStep == BoundInv /\ [Next]_vars => MutexOwned'
<1> SUFFICES ASSUME BoundInv, [Next]_vars PROVE MutexOwned'
  OBVIOUS
<1> USE ThreadsAssumption
    DEF BoundInv, TypeOK, MutexOwned, InSection, Goto, At, Acquire, Release, Threads,
        ring, sync, RoomWaits
<1>1. CASE Accept \/ WaitForRoom \/ WakeForRoom
  BY <1>1 DEF Accept, WaitForRoom, WakeForRoom
<1>2. CASE RoomLock \/ RoomFound \/ EnqueueLock
  BY <1>2 DEF RoomLock, RoomFound, EnqueueLock
<1>3. CASE EnqueueStore \/ EnqueueAdvance
  BY <1>3 DEF EnqueueStore, EnqueueAdvance
<1>4. ASSUME NEW w \in Workers, CreateWorker(w) \/ WorkerStep(w) PROVE MutexOwned'
  <2>1. CASE CreateWorker(w)
    BY <2>1 DEF CreateWorker
  <2>2. CASE DequeueLock(w) \/ WaitForRequest(w) \/ WakeForRequest(w)
    BY <2>2 DEF DequeueLock, WaitForRequest, WakeForRequest
  <2>3. CASE DequeueTake(w) \/ DequeueAdvance(w)
    BY <2>3 DEF DequeueTake, DequeueAdvance
  <2>4. CASE Handle(w) \/ CloseConn(w) \/ FinishLock(w) \/ FinishHandling(w)
    BY <2>4 DEF Handle, CloseConn, FinishLock, FinishHandling
  <2> QED
    BY <1>4, <2>1, <2>2, <2>3, <2>4 DEF WorkerStep
<1>5. CASE SpuriousWake \/ UNCHANGED vars
  BY <1>5 DEF SpuriousWake, vars
<1> QED
  BY <1>1, <1>2, <1>3, <1>4, <1>5 DEF Next, MainStep

(* A step keeps the room that main found and the request that a worker is  *)
(* about to take; so main never waits inside enqueue.                      *)
LEMMA RoomStep ==
  BoundInv /\ [Next]_vars => RoomKept' /\ TakesPending' /\ EnqueueNeverWaits'
<1> SUFFICES ASSUME BoundInv, [Next]_vars
             PROVE  RoomKept' /\ TakesPending' /\ EnqueueNeverWaits'
  OBVIOUS
<1> USE ThreadsAssumption, CapacityAssumption
    DEF BoundInv, TypeOK, RoomKept, TakesPending, EnqueueNeverWaits,
        Goto, At, Acquire, Release, Threads, ring, sync, RoomWaits
<1>1. CASE Accept \/ WaitForRoom \/ WakeForRoom
  BY <1>1 DEF Accept, WaitForRoom, WakeForRoom
<1>2. CASE RoomLock \/ RoomFound \/ EnqueueLock
  <2>1. size <= Capacity
    BY DEF PendingAndActiveBounded
  <2> QED
    BY <1>2, <2>1 DEF RoomLock, RoomFound, EnqueueLock
<1>3. CASE EnqueueStore \/ EnqueueAdvance
  BY <1>3 DEF EnqueueStore, EnqueueAdvance
<1>4. ASSUME NEW w \in Workers, CreateWorker(w) \/ WorkerStep(w)
      PROVE  RoomKept' /\ TakesPending' /\ EnqueueNeverWaits'
  <2>1. CASE CreateWorker(w)
    BY <2>1 DEF CreateWorker
  <2>2. CASE DequeueLock(w) \/ WaitForRequest(w) \/ WakeForRequest(w)
    BY <2>2 DEF DequeueLock, WaitForRequest, WakeForRequest
  <2>3. CASE DequeueTake(w)
    BY <2>3 DEF DequeueTake
  <2>4. CASE DequeueAdvance(w)
    <3>1. \A v \in Workers \ {w} : pc[v] # "deqAdvance"
      BY <2>4 DEF DequeueAdvance, MutexOwned, InSection
    <3> QED
      BY <2>4, <3>1 DEF DequeueAdvance
  <2>5. CASE Handle(w) \/ CloseConn(w) \/ FinishLock(w) \/ FinishHandling(w)
    BY <2>5 DEF Handle, CloseConn, FinishLock, FinishHandling
  <2> QED
    BY <1>4, <2>1, <2>2, <2>3, <2>4, <2>5 DEF WorkerStep
<1>5. CASE SpuriousWake \/ UNCHANGED vars
  BY <1>5 DEF SpuriousWake, vars
<1> QED
  BY <1>1, <1>2, <1>3, <1>4, <1>5 DEF Next, MainStep

(* A step keeps size the number of the requests that wait or are served.   *)
LEMMA CountStep == BoundInv /\ [Next]_vars => PendingAndActiveBounded'
<1> SUFFICES ASSUME BoundInv, [Next]_vars PROVE PendingAndActiveBounded'
  OBVIOUS
<1> USE ThreadsAssumption, CapacityAssumption
    DEF BoundInv, TypeOK, Goto, At, Threads, ring, sync
<1>1. ASSUME Serving' = Serving, size' = size, dequeueing_size' = dequeueing_size
      PROVE  PendingAndActiveBounded'
  BY <1>1 DEF PendingAndActiveBounded
<1>2. CASE Accept \/ WaitForRoom \/ WakeForRoom
  BY <1>1, <1>2 DEF Accept, WaitForRoom, WakeForRoom, RoomWaits, Serving
<1>3. CASE RoomLock \/ RoomFound \/ EnqueueLock \/ EnqueueStore
  BY <1>1, <1>3 DEF RoomLock, RoomFound, EnqueueLock, EnqueueStore, Serving
<1>4. CASE EnqueueAdvance
  <2>1. Serving' = Serving
    BY <1>4 DEF EnqueueAdvance, Serving
  <2>2. size < Capacity
    BY <1>4 DEF EnqueueAdvance, RoomKept
  <2> QED
    BY <1>4, <2>1, <2>2, ServingFinite DEF EnqueueAdvance, PendingAndActiveBounded
<1>5. ASSUME NEW w \in Workers, CreateWorker(w) \/ WorkerStep(w)
      PROVE  PendingAndActiveBounded'
  <2>1. CASE CreateWorker(w)
    BY <1>1, <2>1 DEF CreateWorker, Serving
  <2>2. CASE DequeueLock(w) \/ WaitForRequest(w) \/ WakeForRequest(w) \/ DequeueTake(w)
    BY <1>1, <2>2 DEF DequeueLock, WaitForRequest, WakeForRequest, DequeueTake, Serving
  <2>3. CASE DequeueAdvance(w)
    <3>1. w \notin Serving /\ Serving' = Serving \cup {w}
      BY <2>3 DEF DequeueAdvance, Serving
    <3>2. Cardinality(Serving') = Cardinality(Serving) + 1
      BY <3>1, ServingGrows
    <3> QED
      BY <2>3, <3>2, ServingFinite DEF DequeueAdvance, PendingAndActiveBounded
  <2>4. CASE Handle(w) \/ CloseConn(w) \/ FinishLock(w)
    BY <1>1, <2>4 DEF Handle, CloseConn, FinishLock, Serving
  <2>5. CASE FinishHandling(w)
    <3>1. w \in Serving /\ Serving' = Serving \ {w}
      BY <2>5 DEF FinishHandling, Serving
    <3>2. Cardinality(Serving') = Cardinality(Serving) - 1
      BY <3>1, ServingShrinks
    <3> QED
      BY <2>5, <3>2, ServingFinite DEF FinishHandling, PendingAndActiveBounded
  <2> QED
    BY <1>5, <2>1, <2>2, <2>3, <2>4, <2>5 DEF WorkerStep
<1>6. CASE SpuriousWake \/ UNCHANGED vars
  BY <1>1, <1>6 DEF SpuriousWake, vars, Serving
<1> QED
  BY <1>2, <1>3, <1>4, <1>5, <1>6 DEF Next, MainStep

-----------------------------------------------------------------------------
(* The inductive invariant holds in every reachable state.                 *)
THEOREM Bounded == Spec => []BoundInv
<1>1. BoundInv /\ [Next]_vars => BoundInv'
  BY TypeStep, MutexStep, RoomStep, CountStep DEF BoundInv
<1> QED
  BY <1>1, InitBound, PTL DEF Spec

(* Type correctness of the queue.                                          *)
THEOREM QueueTypes == Spec => []TypeOK
<1>1. BoundInv => TypeOK
  BY DEF BoundInv
<1> QED
  BY <1>1, Bounded, PTL

(* The requests that wait and the ones being handled never exceed the      *)
(* capacity of the queue, and size is their number.                        *)
THEOREM AdmissionBound == Spec => []PendingAndActiveBounded
<1>1. BoundInv => PendingAndActiveBounded
  BY DEF BoundInv
<1> QED
  BY <1>1, Bounded, PTL

(* The wait for room inside enqueue is never taken.                        *)
THEOREM EnqueueIsImmediate == Spec => []EnqueueNeverWaits
<1>1. BoundInv => EnqueueNeverWaits
  BY DEF BoundInv
<1> QED
  BY <1>1, Bounded, PTL

-----------------------------------------------------------------------------
(* No wakeup of the request queue is lost.                                 *)

(* The workers on their way are finitely many, before and after a step. *)
LEMMA ComingFinite ==
  /\ IsFiniteSet(Coming) /\ Cardinality(Coming) \in Nat
  /\ IsFiniteSet(Coming)' /\ Cardinality(Coming)' \in Nat
<1>1. Coming \subseteq Workers /\ Coming' \subseteq Workers
  BY DEF Coming
<1> QED
  BY <1>1, WorkersAssumption, FS_Subset, FS_CardinalityType

(* More workers coming are no fewer.                                       *)
LEMMA ComingMonotone ==
  ASSUME Coming \subseteq Coming'
  PROVE  Cardinality(Coming) <= Cardinality(Coming')
BY ComingFinite, FS_Subset

(* Nobody sleeps in the beginning. *)
LEMMA InitWake == Init => WakeInv
<1> SUFFICES ASSUME Init PROVE WakeInv
  OBVIOUS
<1>1. SleepersWait /\ RoomWakesMain /\ WorkConserving
  BY DEF Init, SleepersWait, RoomWakesMain, WorkConserving
<1> QED
  BY <1>1, InitBound DEF WakeInv

(* A thread sleeps only inside of its pthread_cond_wait. *)
LEMMA SleepersStep == WakeInv /\ [Next]_vars => SleepersWait'
<1> SUFFICES ASSUME WakeInv, [Next]_vars PROVE SleepersWait'
  OBVIOUS
<1> USE ThreadsAssumption
    DEF WakeInv, BoundInv, TypeOK, SleepersWait, Goto, At, Threads, ring, sync, RoomWaits
<1>1. CASE Accept \/ WaitForRoom \/ WakeForRoom
  BY <1>1 DEF Accept, WaitForRoom, WakeForRoom
<1>2. CASE RoomLock \/ RoomFound \/ EnqueueLock \/ EnqueueStore
  BY <1>2 DEF RoomLock, RoomFound, EnqueueLock, EnqueueStore
<1>3. CASE EnqueueAdvance
  BY <1>3, SignalShrinks DEF EnqueueAdvance
<1>4. ASSUME NEW w \in Workers, CreateWorker(w) \/ WorkerStep(w) PROVE SleepersWait'
  <2>1. CASE CreateWorker(w)
    BY <2>1 DEF CreateWorker
  <2>2. CASE DequeueLock(w) \/ WaitForRequest(w) \/ WakeForRequest(w)
    BY <2>2 DEF DequeueLock, WaitForRequest, WakeForRequest
  <2>3. CASE DequeueTake(w) \/ DequeueAdvance(w) \/ Handle(w) \/ CloseConn(w) \/ FinishLock(w)
    BY <2>3 DEF DequeueTake, DequeueAdvance, Handle, CloseConn, FinishLock
  <2>4. CASE FinishHandling(w)
    BY <2>4, SignalShrinks DEF FinishHandling
  <2> QED
    BY <1>4, <2>1, <2>2, <2>3, <2>4 DEF WorkerStep
<1>5. CASE SpuriousWake \/ UNCHANGED vars
  BY <1>5 DEF SpuriousWake, vars
<1> QED
  BY <1>1, <1>2, <1>3, <1>4, <1>5 DEF Next, MainStep

(* Only finishHandling makes room, and it wakes main.                      *)
LEMMA RoomWakeStep == WakeInv /\ [Next]_vars => RoomWakesMain'
<1> SUFFICES ASSUME WakeInv, [Next]_vars PROVE RoomWakesMain'
  OBVIOUS
<1> USE ThreadsAssumption
    DEF WakeInv, BoundInv, TypeOK, RoomWakesMain, Goto, At, Threads, ring, sync, RoomWaits
<1>1. CASE Accept \/ WaitForRoom \/ WakeForRoom
  BY <1>1 DEF Accept, WaitForRoom, WakeForRoom
<1>2. CASE RoomLock \/ RoomFound \/ EnqueueLock \/ EnqueueStore
  BY <1>2 DEF RoomLock, RoomFound, EnqueueLock, EnqueueStore
<1>3. CASE EnqueueAdvance
  <2>1. not_full = {}
    BY <1>3 DEF EnqueueAdvance, SleepersWait
  <2> QED
    BY <1>3, <2>1 DEF EnqueueAdvance
<1>4. ASSUME NEW w \in Workers, CreateWorker(w) \/ WorkerStep(w) PROVE RoomWakesMain'
  <2>1. CASE FinishHandling(w)
    <3>1. not_full' = {}
      BY <2>1 DEF FinishHandling, Signal
    <3> QED
      BY <3>1
  <2>2. CASE CreateWorker(w) \/ DequeueLock(w) \/ WaitForRequest(w) \/ WakeForRequest(w)
    BY <2>2 DEF CreateWorker, DequeueLock, WaitForRequest, WakeForRequest
  <2>3. CASE DequeueTake(w) \/ DequeueAdvance(w) \/ Handle(w) \/ CloseConn(w) \/ FinishLock(w)
    BY <2>3 DEF DequeueTake, DequeueAdvance, Handle, CloseConn, FinishLock
  <2> QED
    BY <1>4, <2>1, <2>2, <2>3 DEF WorkerStep
<1>5. CASE SpuriousWake \/ UNCHANGED vars
  BY <1>5 DEF SpuriousWake, vars
<1> QED
  BY <1>1, <1>2, <1>3, <1>4, <1>5 DEF Next, MainStep

(* A request enters with a signal that wakes one more worker, if any sleeps,*)
(* and leaves with the one worker that took it.                            *)
LEMMA ConserveStep == WakeInv /\ [Next]_vars => WorkConserving'
<1> SUFFICES ASSUME WakeInv, [Next]_vars PROVE WorkConserving'
  OBVIOUS
<1> USE ThreadsAssumption
    DEF WakeInv, BoundInv, TypeOK, Goto, At, Threads, ring, sync
<1>1. ASSUME Coming \subseteq Coming', not_empty' \subseteq not_empty,
             dequeueing_size' = dequeueing_size
      PROVE  WorkConserving'
  <2>1. Cardinality(Coming) <= Cardinality(Coming')
    BY <1>1, ComingMonotone
  <2> QED
    BY <1>1, <2>1, ComingFinite DEF WorkConserving
<1>2. CASE Accept \/ WaitForRoom \/ WakeForRoom
  BY <1>1, <1>2 DEF Accept, WaitForRoom, WakeForRoom, RoomWaits, Coming
<1>3. CASE RoomLock \/ RoomFound \/ EnqueueLock \/ EnqueueStore
  BY <1>1, <1>3 DEF RoomLock, RoomFound, EnqueueLock, EnqueueStore, Coming
<1>4. CASE EnqueueAdvance
  <2>1. CASE not_empty = {}
    BY <1>4, <2>1 DEF EnqueueAdvance, Signal, WorkConserving
  <2>2. CASE not_empty # {}
    <3>1. PICK t \in not_empty : not_empty' = not_empty \ {t}
      BY <1>4, <2>2 DEF EnqueueAdvance, Signal
    <3>2. t \in Workers /\ t \notin Coming /\ Coming' = Coming \cup {t}
      BY <1>4, <3>1 DEF EnqueueAdvance, Coming, SleepersWait
    <3>3. Cardinality(Coming') = Cardinality(Coming) + 1
      BY <3>2, ComingFinite, FS_AddElement
    <3> QED
      BY <1>4, <2>2, <3>3, ComingFinite DEF EnqueueAdvance, WorkConserving
  <2> QED
    BY <2>1, <2>2
<1>5. ASSUME NEW w \in Workers, CreateWorker(w) \/ WorkerStep(w) PROVE WorkConserving'
  <2>1. CASE CreateWorker(w)
    BY <1>1, <2>1 DEF CreateWorker, Coming
  <2>2. CASE DequeueLock(w) \/ WakeForRequest(w) \/ DequeueTake(w)
    BY <1>1, <2>2 DEF DequeueLock, WakeForRequest, DequeueTake, Coming
  <2>3. CASE WaitForRequest(w)
    BY <2>3, ComingFinite DEF WaitForRequest, WorkConserving
  <2>4. CASE DequeueAdvance(w)
    <3>1. w \in Coming /\ Coming' = Coming \ {w}
      BY <2>4 DEF DequeueAdvance, Coming
    <3>2. Cardinality(Coming') = Cardinality(Coming) - 1
      BY <3>1, ComingFinite, FS_RemoveElement
    <3> QED
      BY <2>4, <3>2, ComingFinite DEF DequeueAdvance, WorkConserving
  <2>5. CASE Handle(w) \/ CloseConn(w) \/ FinishLock(w) \/ FinishHandling(w)
    BY <1>1, <2>5 DEF Handle, CloseConn, FinishLock, FinishHandling, Coming
  <2> QED
    BY <1>5, <2>1, <2>2, <2>3, <2>4, <2>5 DEF WorkerStep
<1>6. CASE SpuriousWake \/ UNCHANGED vars
  BY <1>1, <1>6 DEF SpuriousWake, vars, Coming
<1> QED
  BY <1>2, <1>3, <1>4, <1>5, <1>6 DEF Next, MainStep

(* The invariant behind MainIsWoken and WorkersAreWoken. *)
LEMMA WakeInvariant == Spec => []WakeInv
<1>1. WakeInv /\ [Next]_vars => WakeInv'
  <2>1. WakeInv /\ [Next]_vars => BoundInv'
    BY TypeStep, MutexStep, RoomStep, CountStep DEF WakeInv, BoundInv
  <2> QED
    BY <2>1, SleepersStep, RoomWakeStep, ConserveStep DEF WakeInv
<1> QED
  BY <1>1, InitWake, PTL DEF Spec

(* Main never sleeps while there is room.                                  *)
THEOREM MainIsWoken == Spec => []RoomWakesMain
<1>1. WakeInv => RoomWakesMain
  BY DEF WakeInv
<1> QED
  BY <1>1, WakeInvariant, PTL

(* While a worker sleeps, every request that waits has a worker coming.    *)
THEOREM WorkersAreWoken == Spec => []WorkConserving
<1>1. WakeInv => WorkConserving
  BY DEF WakeInv
<1> QED
  BY <1>1, WakeInvariant, PTL

-----------------------------------------------------------------------------
(* The ring hands the connections out first in, first out; every open      *)
(* descriptor has an owner who will close it; and RequestQueue takes the   *)
(* steps of AdmissionQueue.                                                *)

(* Going round the ring at most once.                                      *)
LEMMA Wrap ==
  ASSUME NEW x \in 0..(2 * Capacity - 1)
  PROVE  x % Capacity = IF x < Capacity THEN x ELSE x - Capacity
<1> USE CapacityAssumption
<1>1. CASE x < Capacity
  BY <1>1
<1>2. CASE x >= Capacity
  <2>1. x = Capacity + (x - Capacity) /\ x - Capacity \in 0..(Capacity - 1)
    BY <1>2
  <2>2. (x - Capacity) % Capacity = x - Capacity
    BY <2>1
  <2> QED
    BY <1>2, <2>1, <2>2
<1> QED
  BY <1>1, <1>2

(* Counting from the slot after front is counting one further from front.  *)
LEMMA WrapNext ==
  ASSUME NEW f \in Slots, NEW k \in 0..(Capacity - 1)
  PROVE  (((f + 1) % Capacity) + k) % Capacity = (f + k + 1) % Capacity
<1> USE CapacityAssumption DEF Slots
<1>1. (f + 1) % Capacity = IF f + 1 < Capacity THEN f + 1 ELSE f + 1 - Capacity
  BY Wrap, f + 1 \in 0..(2 * Capacity - 1)
<1>2. CASE f + 1 < Capacity
  BY <1>1, <1>2, (f + 1) + k = f + k + 1
<1>3. CASE f + 1 >= Capacity
  <2>1. f + 1 = Capacity /\ (f + 1) % Capacity = 0
    BY <1>1, <1>3
  <2>2. f + k + 1 \in 0..(2 * Capacity - 1)
    BY <2>1
  <2>3. (f + k + 1) % Capacity = k
    BY <2>1, <2>2, Wrap
  <2>4. k % Capacity = k
    BY Wrap, k \in 0..(2 * Capacity - 1)
  <2> QED
    BY <2>1, <2>3, <2>4
<1> QED
  BY <1>2, <1>3

(* The slot after the one k further from front is k + 1 further from front.*)
LEMMA WrapAdvance ==
  ASSUME NEW f \in Slots, NEW k \in 0..(Capacity - 1)
  PROVE  (((f + k) % Capacity) + 1) % Capacity = (f + (k + 1)) % Capacity
<1> USE CapacityAssumption DEF Slots
<1>1. CASE f + k < Capacity
  BY <1>1, (f + k) % Capacity = f + k, (f + k) + 1 = f + (k + 1)
<1>2. CASE f + k >= Capacity
  <2>1. (f + k) % Capacity = f + k - Capacity
    BY <1>2, Wrap, f + k \in 0..(2 * Capacity - 1)
  <2>2. f + (k + 1) \in Capacity..(2 * Capacity - 1) /\ f + k - Capacity + 1 \in 0..(Capacity - 1)
    BY <1>2
  <2>3. (f + (k + 1)) % Capacity = f + (k + 1) - Capacity
    BY <2>2, Wrap
  <2>4. (f + k - Capacity + 1) % Capacity = f + k - Capacity + 1
    BY <2>2, Wrap
  <2> QED
    BY <2>1, <2>2, <2>3, <2>4
<1> QED
  BY <1>1, <1>2

(* Fewer than Capacity steps from front never come back to the same slot.  *)
LEMMA WrapInjective ==
  ASSUME NEW f \in Slots, NEW j \in 0..(Capacity - 1), NEW k \in 0..(Capacity - 1),
         j # k
  PROVE  (f + j) % Capacity # (f + k) % Capacity
<1> USE CapacityAssumption DEF Slots
<1>1. f + j \in 0..(2 * Capacity - 1) /\ f + k \in 0..(2 * Capacity - 1)
  OBVIOUS
<1> QED
  BY <1>1, Wrap

-----------------------------------------------------------------------------
(* The parts of a ring that holds the connections last, last - 1, ... .    *)
LEMMA PendingBounded ==
  ASSUME BoundInv
  PROVE  /\ dequeueing_size \in 0..Capacity /\ size \in 0..Capacity
         /\ dequeueing_size <= size
         /\ \A i \in 1..dequeueing_size : Pending[i] = buffer[(front + i - 1) % Capacity]
BY ServingFinite DEF BoundInv, TypeOK, PendingAndActiveBounded, Pending

(* The empty ring holds the connections that wait: none. *)
LEMMA InitFifo == Init => FifoInv
<1> SUFFICES ASSUME Init PROVE FifoInv
  OBVIOUS
<1>1. StoredAtRear
  BY DEF Init, StoredAtRear, Threads
<1>2. RingHoldsPending
  BY CapacityAssumption DEF Init, RingHoldsPending
<1> QED
  BY <1>1, <1>2, InitBound DEF FifoInv

(* What both conjuncts need not to change.                                 *)
LEMMA RingUnchanged ==
  ASSUME FifoInv, UNCHANGED <<ring, accepted>>, MainHolds' = MainHolds,
         pc'[Main] = "enqAdvance" => pc[Main] = "enqAdvance"
  PROVE  StoredAtRear' /\ RingHoldsPending'
BY DEF FifoInv, ring, StoredAtRear, RingHoldsPending, Pending, Enqueued

(* Storing at rear overwrites no connection that waits.                    *)
LEMMA StoreStep == ASSUME FifoInv, EnqueueStore PROVE StoredAtRear' /\ RingHoldsPending'
<1> USE CapacityAssumption
<1>1. StoredAtRear'
  BY DEF EnqueueStore, StoredAtRear, FifoInv, BoundInv, TypeOK, sync
<1>2. dequeueing_size < Capacity
  BY PendingBounded DEF FifoInv, BoundInv, RoomKept, EnqueueStore, At
<1>3. Enqueued' = Enqueued
  BY ThreadsAssumption
     DEF EnqueueStore, Enqueued, MainHolds, Goto, At, FifoInv, BoundInv, TypeOK, Threads
<1>4. ASSUME NEW i \in 1..dequeueing_size
      PROVE  Pending'[i] = Enqueued' - dequeueing_size' + i
  <2>1. /\ i - 1 \in 0..(Capacity - 1) /\ i - 1 # dequeueing_size
        /\ dequeueing_size \in 0..(Capacity - 1) /\ front \in Slots
        /\ front + (i - 1) = front + i - 1
    BY <1>2, PendingBounded DEF FifoInv, BoundInv, TypeOK, Slots
  <2>2. (front + i - 1) % Capacity # rear
    <3>1. (front + (i - 1)) % Capacity # (front + dequeueing_size) % Capacity
      BY <2>1, WrapInjective
    <3>2. rear = (front + dequeueing_size) % Capacity
      BY DEF FifoInv, RingHoldsPending
    <3> QED
      BY <2>1, <3>1, <3>2, Zenon
  <2>3. (front + i - 1) % Capacity \in Slots
    BY DEF FifoInv, BoundInv, TypeOK, Slots
  <2>4. Pending'[i] = Pending[i]
    BY <2>2, <2>3 DEF Pending, EnqueueStore, FifoInv, BoundInv, TypeOK
  <2> QED
    BY <1>3, <2>4 DEF FifoInv, RingHoldsPending, EnqueueStore
<1> QED
  BY <1>1, <1>4 DEF RingHoldsPending, EnqueueStore, FifoInv

(* The connection stored at rear becomes the last of the ring.             *)
LEMMA EnqueueStep == ASSUME FifoInv, EnqueueAdvance PROVE StoredAtRear' /\ RingHoldsPending'
<1> USE CapacityAssumption, ThreadsAssumption
<1>1. StoredAtRear'
  BY DEF EnqueueAdvance, StoredAtRear, Goto, At, FifoInv, BoundInv, TypeOK, Threads
<1>2. dequeueing_size < Capacity
  BY PendingBounded DEF FifoInv, BoundInv, RoomKept, EnqueueAdvance, At
<1>3. Enqueued' = Enqueued + 1 /\ Enqueued' = accepted /\ Enqueued \in Int
  BY DEF EnqueueAdvance, Enqueued, MainHolds, Goto, At, FifoInv, BoundInv, TypeOK, Threads
<1>4. front \in Slots /\ dequeueing_size \in 0..(Capacity - 1)
  BY <1>2, PendingBounded DEF FifoInv, BoundInv, TypeOK
<1>5. rear' = (front' + dequeueing_size') % Capacity
  <2>1. rear = (front + dequeueing_size) % Capacity
    BY DEF FifoInv, RingHoldsPending
  <2>2. (((front + dequeueing_size) % Capacity) + 1) % Capacity
          = (front + (dequeueing_size + 1)) % Capacity
    BY <1>4, WrapAdvance
  <2>3. rear' = (rear + 1) % Capacity /\ front' = front /\ dequeueing_size' = dequeueing_size + 1
    BY DEF EnqueueAdvance
  <2> QED
    BY <2>1, <2>2, <2>3
<1>6. ASSUME NEW i \in 1..dequeueing_size'
      PROVE  Pending'[i] = Enqueued' - dequeueing_size' + i
  <2>1. Pending'[i] = buffer[(front + i - 1) % Capacity] /\ dequeueing_size' = dequeueing_size + 1
    BY DEF Pending, EnqueueAdvance
  <2>2. CASE i \in 1..dequeueing_size
    BY <1>3, <1>4, <2>1, <2>2 DEF FifoInv, RingHoldsPending, Pending
  <2>3. CASE i = dequeueing_size + 1
    <3>1. front + i - 1 = front + dequeueing_size
      BY <1>4, <2>3 DEF Slots
    <3>2. Pending'[i] = accepted
      BY <2>1, <3>1 DEF FifoInv, RingHoldsPending, StoredAtRear, EnqueueAdvance, At
    <3> QED
      BY <1>3, <1>4, <2>1, <2>3, <3>2
  <2> QED
    BY <1>4, <2>1, <2>2, <2>3
<1> QED
  BY <1>1, <1>5, <1>6 DEF RingHoldsPending

(* Taking the oldest connection leaves the others in order.                *)
LEMMA DequeueStep ==
  ASSUME FifoInv, NEW w \in Workers, DequeueAdvance(w)
  PROVE  StoredAtRear' /\ RingHoldsPending'
<1> USE CapacityAssumption, ThreadsAssumption
<1>1. pc'[Main] = pc[Main] /\ Enqueued' = Enqueued
  BY DEF DequeueAdvance, Enqueued, MainHolds, Goto, At, FifoInv, BoundInv, TypeOK, Threads
<1>2. StoredAtRear'
  BY <1>1 DEF DequeueAdvance, StoredAtRear, FifoInv
<1>3. /\ dequeueing_size \in 1..Capacity /\ dequeueing_size' = dequeueing_size - 1
      /\ front \in Slots /\ front' = (front + 1) % Capacity /\ rear' = rear /\ buffer' = buffer
  BY PendingBounded DEF DequeueAdvance, At, FifoInv, BoundInv, TakesPending, TypeOK
<1>4. ASSUME NEW k \in 0..(dequeueing_size - 1)
      PROVE  (front' + k) % Capacity = (front + k + 1) % Capacity
  BY <1>3, WrapNext
<1>5. rear' = (front' + dequeueing_size') % Capacity
  <2>1. front + (dequeueing_size - 1) + 1 = front + dequeueing_size
    BY <1>3 DEF Slots
  <2> QED
    BY <1>3, <1>4, <2>1 DEF FifoInv, RingHoldsPending
<1>6. ASSUME NEW i \in 1..dequeueing_size'
      PROVE  Pending'[i] = Enqueued' - dequeueing_size' + i
  <2>1. front' \in Slots
    BY <1>3, AdvanceStays
  <2>2. /\ front' + i - 1 = front' + (i - 1) /\ front + (i - 1) + 1 = front + (i + 1) - 1
        /\ i + 1 \in 1..dequeueing_size /\ i - 1 \in 0..(dequeueing_size - 1)
    BY <1>3, <2>1 DEF Slots
  <2>3. Pending'[i] = Pending[i + 1]
    BY <1>3, <1>4, <2>2 DEF Pending
  <2>4. Pending[i + 1] = Enqueued - dequeueing_size + (i + 1)
    BY <2>2 DEF FifoInv, RingHoldsPending
  <2>5. Enqueued \in Int
    BY DEF Enqueued, FifoInv, BoundInv, TypeOK
  <2> QED
    BY <1>1, <1>3, <2>3, <2>4, <2>5
<1> QED
  BY <1>2, <1>5, <1>6 DEF RingHoldsPending

(* enqueue's two steps put the newest connection at rear, dequeue's two take
   the oldest from front, and the others keep the ring. *)
LEMMA FifoStep == FifoInv /\ [Next]_vars => StoredAtRear' /\ RingHoldsPending'
<1> SUFFICES ASSUME FifoInv, [Next]_vars PROVE StoredAtRear' /\ RingHoldsPending'
  OBVIOUS
<1>1. TypeOK
  BY DEF FifoInv, BoundInv
<1> USE <1>1, ThreadsAssumption DEF TypeOK, Goto, At, Threads, MainHolds
<1>2. CASE Accept
  BY <1>2 DEF Accept, FifoInv, ring, sync, StoredAtRear, RingHoldsPending, Pending, Enqueued
<1>3. CASE WaitForRoom \/ WakeForRoom
  BY <1>3, RingUnchanged DEF WaitForRoom, WakeForRoom, RoomWaits
<1>4. CASE RoomLock \/ RoomFound \/ EnqueueLock
  BY <1>4, RingUnchanged DEF RoomLock, RoomFound, EnqueueLock
<1>5. CASE EnqueueStore
  BY <1>5, StoreStep
<1>6. CASE EnqueueAdvance
  BY <1>6, EnqueueStep
<1>7. ASSUME NEW w \in Workers, CreateWorker(w) \/ WorkerStep(w)
      PROVE  StoredAtRear' /\ RingHoldsPending'
  <2>1. CASE CreateWorker(w)
    BY <2>1, RingUnchanged DEF CreateWorker
  <2>2. CASE DequeueLock(w) \/ WaitForRequest(w) \/ WakeForRequest(w) \/ DequeueTake(w)
    BY <2>2, RingUnchanged DEF DequeueLock, WaitForRequest, WakeForRequest, DequeueTake
  <2>3. CASE DequeueAdvance(w)
    BY <2>3, DequeueStep
  <2>4. CASE Handle(w) \/ CloseConn(w) \/ FinishLock(w)
    BY <2>4, RingUnchanged DEF Handle, CloseConn, FinishLock
  <2>5. CASE FinishHandling(w)
    BY <2>5 DEF FinishHandling, FifoInv, StoredAtRear, RingHoldsPending, Pending, Enqueued
  <2> QED
    BY <1>7, <2>1, <2>2, <2>3, <2>4, <2>5 DEF WorkerStep
<1>8. CASE SpuriousWake \/ UNCHANGED vars
  BY <1>8, RingUnchanged DEF SpuriousWake, vars
<1> QED
  BY <1>2, <1>3, <1>4, <1>5, <1>6, <1>7, <1>8 DEF Next, MainStep

(* The ring holds the connections that wait, in the order of acceptance.   *)
THEOREM FirstInFirstOut == Spec => []RingHoldsPending
<1>1. FifoInv /\ [Next]_vars => FifoInv'
  <2>1. FifoInv /\ [Next]_vars => BoundInv'
    BY TypeStep, MutexStep, RoomStep, CountStep DEF FifoInv, BoundInv
  <2> QED
    BY <2>1, FifoStep DEF FifoInv
<1>2. FifoInv => RingHoldsPending
  BY DEF FifoInv
<1> QED
  BY <1>1, <1>2, InitFifo, PTL DEF Spec

-----------------------------------------------------------------------------
(* Who has each connection.                                                *)

(* Every step keeps FifoInv. *)
LEMMA FifoKept == FifoInv /\ [Next]_vars => FifoInv'
<1>1. FifoInv /\ [Next]_vars => BoundInv'
  BY TypeStep, MutexStep, RoomStep, CountStep DEF FifoInv, BoundInv
<1> QED
  BY <1>1, FifoStep DEF FifoInv

(* The counts of a queue in a reachable state.                             *)
LEMMA Counts ==
  ASSUME OwnInv
  PROVE  /\ TypeOK /\ Taken \in Int /\ Enqueued \in Int /\ accepted \in Nat
         /\ Enqueued = Taken + dequeueing_size
         /\ accepted = IF MainHolds THEN Enqueued + 1 ELSE Enqueued
         /\ dequeueing_size \in 0..size
         /\ Pending = [i \in 1..dequeueing_size |-> Taken + i]
<1>1. BoundInv /\ RingHoldsPending /\ TypeOK
  BY DEF OwnInv, FifoInv, BoundInv
<1>2. accepted \in Nat /\ dequeueing_size \in 0..size
  BY <1>1, PendingBounded DEF TypeOK
<1>3. Enqueued \in Int /\ Taken \in Int
  BY <1>2 DEF Enqueued, Taken
<1>4. Pending = [i \in 1..dequeueing_size |-> Taken + i]
  <2>1. \A i \in 1..dequeueing_size : Pending[i] = Taken + i
    BY <1>1, <1>2, <1>3 DEF RingHoldsPending, Taken
  <2> QED
    BY <2>1 DEF Pending
<1> QED
  BY <1>1, <1>2, <1>3, <1>4 DEF Enqueued, Taken

(* No connection is open in the beginning, and nobody owns one. *)
LEMMA InitOwn == Init => OwnInv
<1> SUFFICES ASSUME Init PROVE OwnInv
  OBVIOUS
<1>1. Serving = {} /\ Handling = {}
  BY DEF Init, Serving, Handling, Threads
<1>2. Taken = 0 /\ accepted = 0
  BY DEF Init, Taken, Enqueued, MainHolds, Threads
<1>3. TakesOldest /\ ServesTaken /\ ServesAlone
  BY <1>1 DEF Init, TakesOldest, ServesTaken, ServesAlone, Threads
<1>4. OpenUntilClosed
  BY <1>1, <1>2 DEF Init, OpenUntilClosed
<1> QED
  BY <1>3, <1>4, InitFifo DEF OwnInv

-----------------------------------------------------------------------------
OwnParts == TakesOldest /\ ServesTaken /\ ServesAlone /\ OpenUntilClosed

(* What a step need not touch to keep the owners.                          *)
LEMMA OwnersKept ==
  ASSUME OwnInv, Taken' = Taken, UNCHANGED <<req, accepted, open>>,
         \A w \in Workers :
           /\ pc'[w] = "deqAdvance" <=> pc[w] = "deqAdvance"
           /\ w \in Handling' <=> w \in Handling
           /\ w \in Serving' <=> w \in Serving
  PROVE  OwnParts'
<1>1. Serving' = Serving /\ Handling' = Handling
  BY DEF Serving, Handling
<1> QED
  BY <1>1 DEF OwnInv, OwnParts, TakesOldest, ServesTaken, ServesAlone, OpenUntilClosed

(* accept opens a new connection, main's. *)
LEMMA AcceptOwns == ASSUME OwnInv, Accept PROVE OwnParts'
<1> USE ThreadsAssumption DEF Accept, Goto, At
<1>1. /\ TypeOK /\ Taken \in Int /\ accepted \in Nat /\ Taken <= accepted
      /\ accepted = Enqueued /\ dequeueing_size \in Nat
  BY Counts DEF TypeOK, MainHolds
<1>2. /\ Taken' = Taken /\ accepted' = accepted + 1 /\ req' = req
      /\ open' = open \cup {accepted + 1}
  BY <1>1 DEF Taken, Enqueued, MainHolds, TypeOK, Threads, ring
<1>3. \A w \in Workers : pc'[w] = pc[w]
  BY <1>1 DEF TypeOK, Threads
<1>4. Serving' = Serving /\ Handling' = Handling
  BY <1>3 DEF Serving, Handling
<1>5. (Taken + 1)..(accepted + 1) = (Taken + 1)..accepted \cup {accepted + 1}
  BY <1>1
<1>6. OpenUntilClosed'
  <2>1. accepted' = accepted + 1 /\ Taken' = Taken
    BY <1>2
  <2>2. {req'[w] : w \in Handling'} = {req[w] : w \in Handling}
    BY <1>2, <1>4
  <2>3. open = (Taken + 1)..accepted \cup {req[w] : w \in Handling}
    BY DEF OwnInv, OpenUntilClosed
  <2> QED
    BY <1>2, <1>5, <2>1, <2>2, <2>3 DEF OpenUntilClosed
<1> QED
  BY <1>2, <1>3, <1>4, <1>6 DEF OwnInv, OwnParts, TakesOldest, ServesTaken, ServesAlone

(* The connection in the slot at front is the oldest that waits.           *)
LEMMA TakeOwns == ASSUME OwnInv, NEW w \in Workers, DequeueTake(w) PROVE OwnParts'
<1> USE ThreadsAssumption DEF DequeueTake, Goto, At
<1>1. TypeOK /\ dequeueing_size \in Nat \ {0} /\ Taken \in Int
  BY Counts DEF TypeOK
<1>2. buffer[front] = Taken + 1
  <2>1. Pending[1] = Taken + 1
    BY <1>1, Counts
  <2>2. (front + 1 - 1) % Capacity = front
    BY <1>1, CapacityAssumption DEF TypeOK, Slots
  <2> QED
    BY <1>1, <2>1, <2>2 DEF Pending
<1>3. /\ Taken' = Taken /\ w \notin Serving /\ w \notin Handling
      /\ Serving' = Serving /\ Handling' = Handling
  BY <1>1 DEF Taken, Enqueued, MainHolds, ring, Serving, Handling, TypeOK, Threads
<1>4. \A v \in Workers \ {w} : pc'[v] = pc[v] /\ req'[v] = req[v]
  BY <1>1 DEF TypeOK, Threads
<1>5. req'[w] = Taken + 1
  BY <1>1, <1>2 DEF TypeOK
<1>6. TakesOldest'
  BY <1>3, <1>4, <1>5 DEF OwnInv, TakesOldest
<1>7. \A v \in Serving : req'[v] = req[v]
  BY <1>3, <1>4 DEF Serving
<1>8. ServesTaken' /\ ServesAlone'
  BY <1>3, <1>7 DEF OwnInv, ServesTaken, ServesAlone
<1>9. OpenUntilClosed'
  <2>1. {req'[v] : v \in Handling'} = {req[v] : v \in Handling}
    BY <1>3, <1>4
  <2> QED
    BY <1>3, <2>1 DEF OwnInv, OpenUntilClosed
<1> QED
  BY <1>6, <1>8, <1>9 DEF OwnParts

(* The number a worker leaves the ring with is higher than those of all    *)
(* workers that are already serving.                                       *)
LEMMA DequeueOwns == ASSUME OwnInv, NEW w \in Workers, DequeueAdvance(w) PROVE OwnParts'
<1> USE ThreadsAssumption DEF DequeueAdvance, Goto, At
<1>1. /\ TypeOK /\ Taken \in Int /\ dequeueing_size \in Nat \ {0}
      /\ MutexOwned /\ Enqueued \in Int /\ accepted \in Nat /\ Taken + 1 <= accepted
  <2>1. dequeueing_size > 0
    BY DEF OwnInv, FifoInv, BoundInv, TakesPending
  <2> QED
    BY <2>1, Counts DEF OwnInv, FifoInv, BoundInv, TypeOK
<1>2. req[w] = Taken + 1 /\ req' = req
  BY DEF OwnInv, TakesOldest
<1>3. Taken' = Taken + 1
  BY <1>1 DEF Taken, Enqueued, MainHolds, TypeOK, Threads
<1>4. \A v \in Workers \ {w} : pc'[v] = pc[v] /\ pc[v] # "deqAdvance"
  BY <1>1 DEF TypeOK, MutexOwned, InSection, Threads
<1>5. pc'[w] = "handle"
  BY <1>1 DEF TypeOK, Threads
<1>6. /\ w \notin Serving /\ Serving' = Serving \cup {w}
      /\ w \notin Handling /\ Handling' = Handling \cup {w}
  BY <1>4, <1>5 DEF Serving, Handling
<1>7. TakesOldest'
  BY <1>4, <1>5 DEF TakesOldest
<1>8. \A v \in Serving : req[v] \in 1..Taken
  BY DEF OwnInv, ServesTaken
<1>9. Taken + 1 \in 1..(Taken + 1)
  <2>1. Taken + 1 \in open
    BY <1>1 DEF OwnInv, OpenUntilClosed
  <2> QED
    BY <1>1, <2>1 DEF TypeOK, Conns
<1>10. ServesTaken' /\ ServesAlone'
  <2>1. ServesTaken'
    BY <1>1, <1>2, <1>3, <1>6, <1>8, <1>9 DEF ServesTaken
  <2>2. \A v \in Serving : req[v] # req[w]
    BY <1>1, <1>2, <1>8
  <2>3. ServesAlone'
    BY <1>2, <1>6, <2>2 DEF OwnInv, ServesAlone
  <2> QED
    BY <2>1, <2>3
<1>11. OpenUntilClosed'
  <2>1. (Taken + 1)..accepted = (Taken + 2)..accepted \cup {Taken + 1}
    BY <1>1
  <2>2. {req'[v] : v \in Handling'} = {req[v] : v \in Handling} \cup {Taken + 1}
    BY <1>2, <1>6
  <2>3. open = (Taken + 1)..accepted \cup {req[v] : v \in Handling}
    BY DEF OwnInv, OpenUntilClosed
  <2>4. Taken' + 1 = Taken + 2
    BY <1>1, <1>3
  <2> QED
    BY <2>1, <2>2, <2>3, <2>4 DEF OpenUntilClosed
<1> QED
  BY <1>7, <1>10, <1>11 DEF OwnParts

(* Closing takes exactly the worker's own connection out of open.          *)
LEMMA CloseOwns == ASSUME OwnInv, NEW w \in Workers, CloseConn(w) PROVE OwnParts'
<1> USE ThreadsAssumption DEF CloseConn, Goto, At
<1>1. TypeOK /\ Taken \in Int
  BY Counts
<1>2. Taken' = Taken /\ req' = req /\ accepted' = accepted
  BY <1>1 DEF Taken, Enqueued, MainHolds, ring, TypeOK, Threads
<1>3. /\ w \in Handling /\ Handling' = Handling \ {w} /\ Handling \subseteq Serving
      /\ Serving' = Serving
  BY <1>1 DEF Handling, Serving, TypeOK, Threads
<1>4. TakesOldest' /\ ServesTaken' /\ ServesAlone'
  BY <1>1, <1>2, <1>3
     DEF OwnInv, TakesOldest, ServesTaken, ServesAlone, TypeOK, Threads
<1>5. OpenUntilClosed'
  <2>1. req[w] \in 1..Taken /\ \A v \in Handling \ {w} : req[v] # req[w]
    BY <1>3 DEF OwnInv, ServesTaken, ServesAlone
  <2>2. req[w] \notin (Taken + 1)..accepted
    BY <1>1, <2>1
  <2>3. {req[v] : v \in Handling} \ {req[w]} = {req[v] : v \in Handling \ {w}}
    BY <2>1
  <2> QED
    BY <1>2, <1>3, <2>2, <2>3 DEF OwnInv, OpenUntilClosed
<1> QED
  BY <1>4, <1>5 DEF OwnParts

(* A worker that comes back from finishHandling owns none. *)
LEMMA FinishOwns == ASSUME OwnInv, NEW w \in Workers, FinishHandling(w) PROVE OwnParts'
<1> USE ThreadsAssumption DEF FinishHandling, Goto, At
<1>1. TypeOK /\ Taken \in Int
  BY Counts
<1>2. /\ Taken' = Taken /\ accepted' = accepted /\ open' = open
      /\ \A v \in Workers \ {w} : req'[v] = req[v]
  BY <1>1 DEF Taken, Enqueued, MainHolds, ring, TypeOK, Threads
<1>3. w \notin Handling /\ Handling' = Handling /\ w \in Serving /\ Serving' = Serving \ {w}
  BY <1>1 DEF Handling, Serving, TypeOK, Threads
<1>4. {req'[v] : v \in Handling'} = {req[v] : v \in Handling}
  BY <1>2, <1>3 DEF Handling
<1>5. TakesOldest'
  BY <1>1, <1>2 DEF OwnInv, TakesOldest, TypeOK, Threads
<1>6. ServesTaken' /\ ServesAlone'
  BY <1>2, <1>3 DEF OwnInv, ServesTaken, ServesAlone, Serving
<1> QED
  BY <1>2, <1>4, <1>5, <1>6 DEF OwnInv, OwnParts, OpenUntilClosed

(* Every step leaves each open connection with main, in the ring or with one
   worker. *)
LEMMA OwnStep == OwnInv /\ [Next]_vars => OwnParts'
<1> SUFFICES ASSUME OwnInv, [Next]_vars PROVE OwnParts'
  OBVIOUS
<1>1. TypeOK
  BY Counts
<1> USE ThreadsAssumption DEF Goto, At, Threads, ring, Taken, Enqueued, MainHolds, Serving, Handling
<1>2. CASE Accept
  BY <1>2, AcceptOwns
<1>3. CASE WaitForRoom \/ WakeForRoom
  BY <1>1, <1>3, OwnersKept DEF WaitForRoom, WakeForRoom, RoomWaits, TypeOK
<1>4. CASE RoomLock \/ RoomFound \/ EnqueueLock
  BY <1>1, <1>4, OwnersKept DEF RoomLock, RoomFound, EnqueueLock, TypeOK
<1>5. CASE EnqueueStore
  BY <1>1, <1>5, OwnersKept DEF EnqueueStore, TypeOK
<1>6. CASE EnqueueAdvance
  <2>1. Taken' = Taken
    BY <1>1, <1>6 DEF EnqueueAdvance, TypeOK
  <2> QED
    BY <1>1, <1>6, <2>1, OwnersKept DEF EnqueueAdvance, TypeOK
<1>7. ASSUME NEW w \in Workers, CreateWorker(w) \/ WorkerStep(w) PROVE OwnParts'
  <2>1. CASE CreateWorker(w)
    BY <1>1, <2>1, OwnersKept DEF CreateWorker, TypeOK
  <2>2. CASE DequeueLock(w) \/ WaitForRequest(w) \/ WakeForRequest(w)
    BY <1>1, <2>2, OwnersKept DEF DequeueLock, WaitForRequest, WakeForRequest, TypeOK
  <2>3. CASE Handle(w) \/ FinishLock(w)
    BY <1>1, <2>3, OwnersKept DEF Handle, FinishLock, TypeOK
  <2> QED
    BY <1>7, <2>1, <2>2, <2>3, TakeOwns, DequeueOwns, CloseOwns, FinishOwns DEF WorkerStep
<1>8. CASE SpuriousWake \/ UNCHANGED vars
  BY <1>8, OwnersKept DEF SpuriousWake, vars
<1> QED
  BY <1>2, <1>3, <1>4, <1>5, <1>6, <1>7, <1>8 DEF Next, MainStep

(* The inductive invariant of the owners holds in every reachable state.   *)
THEOREM OwnInvariant == Spec => []OwnInv
<1>1. OwnInv /\ [Next]_vars => OwnInv'
  <2>1. OwnInv /\ [Next]_vars => FifoInv'
    BY FifoKept DEF OwnInv
  <2> QED
    BY <2>1, OwnStep DEF OwnInv, OwnParts
<1> QED
  BY <1>1, InitOwn, PTL DEF Spec

(* Every open descriptor has one owner who will close it, nobody works on  *)
(* a closed one, and no two workers on the same one.                       *)
THEOREM OpenIsOwned == Spec => []OpenConnectionsOwned
<1>1. OwnInv => OpenConnectionsOwned
  <2> SUFFICES ASSUME OwnInv PROVE OpenConnectionsOwned
    OBVIOUS
  <2>1. {Pending[i] : i \in 1..dequeueing_size} = (Taken + 1)..Enqueued
    <3>1. dequeueing_size \in Nat /\ Taken \in Int /\ Enqueued = Taken + dequeueing_size
      BY Counts DEF TypeOK
    <3>2. \A i \in 1..dequeueing_size : Pending[i] = Taken + i
      BY Counts
    <3>3. \A c \in (Taken + 1)..Enqueued : c - Taken \in 1..dequeueing_size /\ Taken + (c - Taken) = c
      BY <3>1
    <3>4. \A i \in 1..dequeueing_size : Taken + i \in (Taken + 1)..Enqueued
      BY <3>1
    <3> QED
      BY <3>2, <3>3, <3>4
  <2>2. (Taken + 1)..accepted = (Taken + 1)..Enqueued \cup {accepted : x \in {y \in {Main} : MainHolds}}
    <3>1. CASE MainHolds
      <4>1. accepted = Enqueued + 1 /\ Taken <= Enqueued /\ Taken \in Int /\ Enqueued \in Int
        BY <3>1, Counts DEF TypeOK
      <4>2. (Taken + 1)..(Enqueued + 1) = (Taken + 1)..Enqueued \cup {Enqueued + 1}
        BY <4>1
      <4> QED
        BY <3>1, <4>1, <4>2
    <3>2. CASE ~ MainHolds
      BY <3>2, Counts
    <3> QED
      BY <3>1, <3>2
  <2>3. \A v, w \in Serving : v # w => req[v] # req[w]
    BY DEF OwnInv, ServesAlone
  <2> QED
    BY <2>1, <2>2, <2>3 DEF OwnInv, OpenUntilClosed, OpenConnectionsOwned
<1> QED
  BY <1>1, OwnInvariant, PTL

-----------------------------------------------------------------------------
(* RequestQueue takes the steps of AdmissionQueue: a connection is admitted*)
(* where enqueue counts it, dispatched where dequeue uncounts it, and      *)
(* complete where finishHandling gives the room back.                      *)
Served == {req[w] : w \in Serving}

(* Fewer connections are served than there are workers serving.            *)
LEMMA ServedCount ==
  /\ IsFiniteSet(Served) /\ Cardinality(Served) \in Nat
  /\ Cardinality(Served) <= Cardinality(Serving)
<1> DEFINE f == [w \in Serving |-> req[w]]
<1>1. f \in Surjection(Serving, Served)
  BY DEF Surjection, Served
<1> QED
  BY <1>1, ServingFinite, FS_Surjection, FS_CardinalityType

(* AdmissionQueue counts with the same Cardinality.                        *)
LEMMA SameCardinality == \A S : Admission!Cardinality(S) = Cardinality(S)
BY DEF Admission!Cardinality, Cardinality

(* A step that admits, dispatches and completes nothing is a stutter of the
   abstract queue. *)
LEMMA Stutters ==
  ASSUME OwnInv, [Next]_vars, Enqueued' = Enqueued, dequeueing_size' = dequeueing_size,
         Served' = Served
  PROVE  [Admission!Next]_(Admission!vars)
<1>1. RingHoldsPending /\ RingHoldsPending'
  BY FifoStep DEF OwnInv, FifoInv
<1>2. Pending' = Pending
  BY <1>1 DEF RingHoldsPending, Pending
<1> QED
  BY <1>2 DEF Admission!vars, Served

(* The indices of enqueue: the abstract queue admits the next connection. *)
LEMMA Admits ==
  ASSUME OwnInv, [Next]_vars, EnqueueAdvance
  PROVE  Admission!Admit
<1> USE ThreadsAssumption DEF EnqueueAdvance, Goto, At
<1>1. /\ TypeOK /\ Taken \in Int /\ Enqueued \in Int
      /\ Enqueued = Taken + dequeueing_size /\ dequeueing_size \in Nat
      /\ Pending = [i \in 1..dequeueing_size |-> Taken + i]
  BY Counts DEF TypeOK
<1>2. Enqueued' = Enqueued + 1 /\ Enqueued' = accepted /\ dequeueing_size' = dequeueing_size + 1
  BY <1>1 DEF Enqueued, MainHolds, TypeOK, Threads
<1>3. Enqueued < MaxConns
  BY <1>1, <1>2, MaxConnsAssumption DEF TypeOK
<1>4. Len(Pending) + Cardinality(Served) < Capacity
  <2>1. Len(Pending) = dequeueing_size
    BY <1>1
  <2>2. size < Capacity /\ size = dequeueing_size + Cardinality(Serving)
    BY DEF OwnInv, FifoInv, BoundInv, RoomKept, PendingAndActiveBounded
  <2> QED
    BY <1>1, <2>1, <2>2, ServedCount, ServingFinite, CapacityAssumption DEF TypeOK
<1>5. Pending' = Append(Pending, Enqueued + 1)
  <2>1. RingHoldsPending'
    BY FifoStep DEF OwnInv
  <2>2. Pending' = [i \in 1..(dequeueing_size + 1) |-> Taken + i]
    BY <1>1, <1>2, <2>1 DEF RingHoldsPending, Pending
  <2>3. Append(Pending, Enqueued + 1) = [i \in 1..(dequeueing_size + 1) |-> Taken + i]
    BY <1>1
  <2> QED
    BY <2>2, <2>3
<1>6. Served' = Served
  <2>1. Serving' = Serving
    BY <1>1 DEF Serving, TypeOK, Threads
  <2> QED
    BY <2>1 DEF Served
<1> QED
  BY <1>2, <1>3, <1>4, <1>5, <1>6, SameCardinality DEF Admission!Admit, Served

(* The indices of dequeue: the abstract queue gives away its oldest
   connection. *)
LEMMA Dispatches ==
  ASSUME OwnInv, [Next]_vars, NEW w \in Workers, DequeueAdvance(w)
  PROVE  Admission!Dispatch
<1> USE ThreadsAssumption DEF DequeueAdvance, Goto, At
<1>1. /\ TypeOK /\ Taken \in Int /\ dequeueing_size \in Nat \ {0}
      /\ Enqueued = Taken + dequeueing_size
      /\ Pending = [i \in 1..dequeueing_size |-> Taken + i]
  <2>1. dequeueing_size > 0
    BY DEF OwnInv, FifoInv, BoundInv, TakesPending
  <2> QED
    BY <2>1, Counts DEF TypeOK
<1>2. Enqueued' = Enqueued /\ dequeueing_size' = dequeueing_size - 1 /\ req' = req
  <2>1. pc'[Main] = pc[Main]
    BY <1>1 DEF TypeOK, Threads
  <2>2. accepted' = accepted /\ dequeueing_size' = dequeueing_size - 1 /\ req' = req
    OBVIOUS
  <2> QED
    BY <2>1, <2>2 DEF Enqueued, MainHolds
<1>3. Pending # <<>> /\ Head(Pending) = Taken + 1 /\ req[w] = Taken + 1
  <2>1. 1 \in DOMAIN Pending /\ Pending[1] = Taken + 1
    BY <1>1
  <2>2. Pending # <<>> /\ Head(Pending) = Pending[1]
    BY <2>1
  <2>3. req[w] = Taken + 1
    BY DEF OwnInv, TakesOldest
  <2> QED
    BY <2>1, <2>2, <2>3
<1>4. Pending' = Tail(Pending)
  <2>1. RingHoldsPending'
    BY FifoStep DEF OwnInv
  <2>2. Pending' = [i \in 1..(dequeueing_size - 1) |-> Taken + 1 + i]
    BY <1>1, <1>2, <2>1 DEF RingHoldsPending, Pending
  <2>3. Tail(Pending) = [i \in 1..(dequeueing_size - 1) |-> Taken + 1 + i]
    <3>1. Pending \in Seq(Int) /\ Len(Pending) = dequeueing_size
      BY <1>1
    <3>2. Tail(Pending) = [i \in 1..(dequeueing_size - 1) |-> Pending[i + 1]]
      BY <1>1, <3>1
    <3>3. \A i \in 1..(dequeueing_size - 1) : Pending[i + 1] = Taken + 1 + i
      BY <1>1
    <3> QED
      BY <3>2, <3>3
  <2> QED
    BY <2>2, <2>3
<1>5. w \notin Serving /\ Serving' = Serving \cup {w}
  BY <1>1 DEF Serving, TypeOK, Threads
<1>6. Served' = Served \cup {Head(Pending)}
  BY <1>2, <1>3, <1>5 DEF Served
<1>7. Cardinality(Served) < Cardinality(Workers)
  <2>1. Serving \subseteq Workers /\ Serving # Workers
    BY <1>5 DEF Serving
  <2>2. Cardinality(Serving) < Cardinality(Workers)
    BY <2>1, WorkersAssumption, FS_Subset, FS_CardinalityType
  <2> QED
    BY <2>2, ServedCount, ServingFinite, WorkersAssumption, FS_CardinalityType
<1> QED
  BY <1>2, <1>3, <1>4, <1>6, <1>7, SameCardinality DEF Admission!Dispatch, Served

(* finishHandling: the abstract queue completes the connection this worker
   served. *)
LEMMA Completes ==
  ASSUME OwnInv, [Next]_vars, NEW w \in Workers, FinishHandling(w)
  PROVE  \E c \in 1..MaxConns : Admission!Complete(c)
<1> USE ThreadsAssumption DEF FinishHandling, Goto, At
<1>1. TypeOK /\ RingHoldsPending /\ RingHoldsPending'
  BY Counts, FifoStep DEF OwnInv, FifoInv
<1>2. Enqueued' = Enqueued /\ Pending' = Pending
  <2>1. Enqueued' = Enqueued /\ dequeueing_size' = dequeueing_size
    BY <1>1 DEF Enqueued, MainHolds, TypeOK, Threads
  <2> QED
    BY <1>1, <2>1 DEF RingHoldsPending, Pending
<1>3. w \in Serving /\ Serving' = Serving \ {w}
  BY <1>1 DEF Serving, TypeOK, Threads
<1>4. \A v \in Serving \ {w} : req'[v] = req[v] /\ req[v] # req[w]
  BY <1>1, <1>3 DEF OwnInv, ServesAlone, Serving, TypeOK
<1>5. req[w] \in Served /\ Served' = Served \ {req[w]}
  BY <1>3, <1>4 DEF Served
<1>6. req[w] \in 1..MaxConns
  BY <1>1, <1>3 DEF OwnInv, ServesTaken, TypeOK, Conns, NoConn
<1>7. PICK c \in 1..MaxConns : c = req[w]
  BY <1>6
<1>8. Admission!Complete(c)
  BY <1>2, <1>5, <1>7 DEF Admission!Complete, Served
<1> QED
  BY <1>8

(* The initial states are initial states of the abstract queue. *)
LEMMA AdmissionInit == Init => Admission!Init
<1> SUFFICES ASSUME Init PROVE Admission!Init
  OBVIOUS
<1>1. Enqueued = 0
  BY DEF Init, Enqueued, MainHolds, Threads
<1>2. Pending = <<>>
  BY DEF Init, Pending
<1>3. {req[w] : w \in Serving} = {}
  BY DEF Init, Serving, Threads
<1> QED
  BY <1>1, <1>2, <1>3 DEF Admission!Init

(* Every step of the threads is a step of the abstract queue or a stutter. *)
LEMMA AdmissionStep == OwnInv /\ [Next]_vars => [Admission!Next]_(Admission!vars)
<1> SUFFICES ASSUME OwnInv, [Next]_vars PROVE [Admission!Next]_(Admission!vars)
  OBVIOUS
<1>1. TypeOK /\ accepted \in Nat
  BY Counts
<1>2. ASSUME Enqueued' = Enqueued, dequeueing_size' = dequeueing_size,
             \A w \in Workers : w \in Serving' <=> w \in Serving,
             \A w \in Serving : req'[w] = req[w]
      PROVE  [Admission!Next]_(Admission!vars)
  <2>1. Serving' = Serving
    BY <1>2 DEF Serving
  <2>2. Served' = Served
    BY <1>2, <2>1 DEF Served
  <2> QED
    BY <1>2, <2>2, Stutters
<1> USE ThreadsAssumption DEF Goto, At, Threads, ring, Enqueued, MainHolds, Serving
<1>3. CASE Accept
  BY <1>1, <1>2, <1>3 DEF Accept, TypeOK
<1>4. CASE WaitForRoom \/ WakeForRoom
  BY <1>1, <1>2, <1>4 DEF WaitForRoom, WakeForRoom, RoomWaits, TypeOK
<1>5. CASE RoomLock \/ RoomFound \/ EnqueueLock \/ EnqueueStore
  BY <1>1, <1>2, <1>5 DEF RoomLock, RoomFound, EnqueueLock, EnqueueStore, TypeOK
<1>6. CASE EnqueueAdvance
  BY <1>6, Admits DEF Admission!Next
<1>7. ASSUME NEW w \in Workers, CreateWorker(w) \/ WorkerStep(w)
      PROVE  [Admission!Next]_(Admission!vars)
  <2>1. CASE CreateWorker(w)
    BY <1>1, <1>2, <2>1 DEF CreateWorker, TypeOK
  <2>2. CASE DequeueLock(w) \/ WaitForRequest(w) \/ WakeForRequest(w) \/ DequeueTake(w)
    BY <1>1, <1>2, <2>2 DEF DequeueLock, WaitForRequest, WakeForRequest, DequeueTake, TypeOK
  <2>3. CASE Handle(w) \/ CloseConn(w) \/ FinishLock(w)
    BY <1>1, <1>2, <2>3 DEF Handle, CloseConn, FinishLock, TypeOK
  <2>4. CASE DequeueAdvance(w)
    BY <2>4, Dispatches DEF Admission!Next
  <2>5. CASE FinishHandling(w)
    BY <2>5, Completes DEF Admission!Next
  <2> QED
    BY <1>7, <2>1, <2>2, <2>3, <2>4, <2>5 DEF WorkerStep
<1>8. CASE SpuriousWake \/ UNCHANGED vars
  BY <1>2, <1>8 DEF SpuriousWake, vars
<1> QED
  BY <1>3, <1>4, <1>5, <1>6, <1>7, <1>8 DEF Next, MainStep

(* The request queue is the first-in-first-out admission queue: every step *)
(* of it, for any pool and capacity, is one step of AdmissionQueue or none.*)
(* (The fairness of AdmissionQueue is left to the runs.)                   *)
THEOREM QueueAdmits == Spec => Admission!Init /\ [][Admission!Next]_(Admission!vars)
BY AdmissionInit, AdmissionStep, OwnInvariant, PTL DEF Spec
=============================================================================
