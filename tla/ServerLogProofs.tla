--------------------------- MODULE ServerLogProofs --------------------------
(* Proofs about ServerLog, for every pool, entry set and initial capacity. *)
EXTENDS ServerLog, FiniteSetTheorems, TLAPS

-----------------------------------------------------------------------------
(* Counting the threads that are somewhere                                 *)

(* Threads are finitely many, and so are the members of any set of them. *)
LEMMA CountFinite ==
  ASSUME NEW S \in SUBSET Threads
  PROVE  IsFiniteSet(S) /\ Cardinality(S) \in Nat /\ (Cardinality(S) = 0 <=> S = {})
BY ThreadsAssumption, FS_Subset, FS_CardinalityType, FS_EmptySet

(* One thread more in a set is one more in its count. *)
LEMMA CountEnter ==
  ASSUME NEW S \in SUBSET Threads, NEW t \in Threads \ S
  PROVE  Cardinality(S \cup {t}) = Cardinality(S) + 1
BY CountFinite, FS_AddElement

(* One thread less in a set is one less in its count. *)
LEMMA CountLeave ==
  ASSUME NEW S \in SUBSET Threads, NEW t \in S
  PROVE  Cardinality(S) > 0 /\ Cardinality(S \ {t}) = Cardinality(S) - 1
<1>1. Cardinality(S) # 0 /\ Cardinality(S) \in Nat
  BY CountFinite
<1> QED
  BY <1>1, CountFinite, FS_RemoveElement

(* The places of get_log and add_to_log are sets of threads. *)
LEMMA Places ==
  /\ Reading \in SUBSET Threads /\ Writing \in SUBSET Threads
  /\ WaitingToWrite \in SUBSET Threads
BY DEF Reading, Writing, WaitingToWrite

(* A signal only takes sleepers away.                                      *)
LEMMA SignalShrinks ==
  ASSUME NEW S, NEW R \in Signal(S)
  PROVE  R \subseteq S
BY DEF Signal

(* An entry is a sequence of bytes with a length. *)
LEMMA EntryLength ==
  ASSUME TypeOK, NEW t \in Threads
  PROVE  data[t] \in Seq(Bytes) /\ Len(data[t]) \in Nat
<1>1. data[t] \in Entries \cup {<<>>}
  BY DEF TypeOK
<1>2. <<>> \in Seq(Bytes)
  OBVIOUS
<1>3. data[t] \in Seq(Bytes)
  BY <1>1, <1>2, EntriesAssumption, Zenon
<1> QED
  BY <1>3

(* Nobody but the thread in the critical section can be in one.            *)
LEMMA OneInSection ==
  ASSUME LockOwned, NEW t \in Threads, NEW u \in Threads, InSection(t), InSection(u)
  PROVE  t = u
BY DEF LockOwned

(* LockInv holds when create_log returns. *)
LEMMA InitLock == Init => LockInv
<1> SUFFICES ASSUME Init PROVE LockInv
  OBVIOUS
<1>1. TypeOK
  <2>1. 0..(InitCapacity - 1) # {} /\ InitCapacity \in Nat \ {0}
    BY InitCapacityAssumption
  <2> QED
    BY <2>1, ThreadsAssumption, MaxAppendsAssumption DEF Init, TypeOK
<1>2. Reading = {} /\ Writing = {} /\ WaitingToWrite = {}
  BY DEF Init, Reading, Writing, WaitingToWrite
<1>3. LockOwned
  BY <1>2, ThreadsAssumption DEF Init, LockOwned, InSection
<1>4. ReadersXorWriter
  BY <1>2, FS_EmptySet DEF Init, ReadersXorWriter
<1>5. SleepersWait /\ EntryFits /\ WritersGetWoken /\ ReadersGetWoken
  BY DEF Init, SleepersWait, EntryFits, At, WritersGetWoken, ReadersGetWoken
<1> QED
  BY <1>1, <1>3, <1>4, <1>5 DEF LockInv

-----------------------------------------------------------------------------
(* A step keeps the lock with the thread that is in a critical section,    *)
(* and the sleepers in their waits.                                        *)
LEMMA LockStepKeeps == LockInv /\ [Next]_vars => LockOwned' /\ SleepersWait'
<1> SUFFICES ASSUME LockInv, [Next]_vars PROVE LockOwned' /\ SleepersWait'
  OBVIOUS
<1> USE ThreadsAssumption
    DEF LockInv, TypeOK, LockOwned, SleepersWait, InSection, Writing, Goto, At,
        Acquire, Release, conds, locals, store
<1>1. ASSUME NEW t \in Threads, GetLog(t) \/ ReadStep(t) PROVE LockOwned' /\ SleepersWait'
  <2>1. CASE GetLog(t) \/ StartReadLock(t) \/ StartReadWait(t) \/ StartReadWake(t)
    BY <2>1 DEF GetLog, StartReadLock, StartReadWait, StartReadWake
  <2>2. CASE StartRead(t) \/ AllocSnapshot(t) \/ CopySnapshot(t) \/ SizeSnapshot(t)
    BY <2>2 DEF StartRead, AllocSnapshot, CopySnapshot, SizeSnapshot
  <2>3. CASE EndReadLock(t)
    BY <2>3 DEF EndReadLock
  <2>4. CASE EndRead(t)
    <3>1. writers_cond' \subseteq writers_cond
      BY <2>4, SignalShrinks DEF EndRead
    <3> QED
      BY <2>4, <3>1 DEF EndRead
  <2> QED
    BY <1>1, <2>1, <2>2, <2>3, <2>4 DEF ReadStep
<1>2. ASSUME NEW t \in Threads, AddToLog(t) \/ WriteStep(t) PROVE LockOwned' /\ SleepersWait'
  <2>1. CASE AddToLog(t) \/ StartWriteLock(t) \/ StartWriteWait(t) \/ StartWriteWake(t)
    BY <2>1 DEF AddToLog, StartWriteLock, StartWriteWait, StartWriteWake
  <2>2. CASE StartWrite(t) \/ TestCapacity(t) \/ DoubleCapacity(t)
    BY <2>2 DEF StartWrite, TestCapacity, DoubleCapacity
  <2>3. CASE Grow(t) \/ CopyEntry(t) \/ CommitEntry(t)
    BY <2>3 DEF Grow, CopyEntry, CommitEntry
  <2>4. CASE EndWrite(t)
    <3>1. writers_cond' \subseteq writers_cond
      BY <2>4, SignalShrinks DEF EndWrite
    <3> QED
      BY <2>4, <3>1 DEF EndWrite
  <2> QED
    BY <1>2, <2>1, <2>2, <2>3, <2>4 DEF WriteStep
<1>3. CASE SpuriousWake \/ UNCHANGED vars
  BY <1>3 DEF SpuriousWake, vars
<1> QED
  BY <1>1, <1>2, <1>3 DEF Next

-----------------------------------------------------------------------------
(* A step keeps the counters equal to the numbers of threads, and a writer *)
(* alone: it comes in when readers is 0, and nobody gets in while it holds *)
(* the lock.                                                               *)
LEMMA CounterStep == LockInv /\ [Next]_vars => ReadersXorWriter'
<1> SUFFICES ASSUME LockInv, [Next]_vars PROVE ReadersXorWriter'
  OBVIOUS
<1>1. TypeOK /\ LockOwned /\ ReadersXorWriter
  BY DEF LockInv
<1>2. ASSUME Reading' = Reading, Writing' = Writing, WaitingToWrite' = WaitingToWrite,
             UNCHANGED counters
      PROVE  ReadersXorWriter'
  BY <1>1, <1>2 DEF ReadersXorWriter, counters
<1>3. readers \in Nat /\ waiting_writers \in Nat
  BY <1>1 DEF TypeOK
<1> USE DEF Goto, At, counters
<1>4. ASSUME NEW t \in Threads, GetLog(t) \/ ReadStep(t) PROVE ReadersXorWriter'
  <2>1. CASE GetLog(t) \/ StartReadLock(t) \/ StartReadWait(t) \/ StartReadWake(t)
    BY <1>1, <1>2, <2>1 DEF GetLog, StartReadLock, StartReadWait, StartReadWake,
                            TypeOK, Reading, Writing, WaitingToWrite
  <2>2. CASE StartRead(t)
    <3>1. /\ t \notin Reading /\ Reading' = Reading \cup {t}
          /\ Writing' = Writing /\ WaitingToWrite' = WaitingToWrite
      BY <1>1, <2>2 DEF StartRead, TypeOK, Reading, Writing, WaitingToWrite
    <3>2. Cardinality(Reading') = readers + 1
      BY <1>1, <3>1, CountEnter, Places DEF ReadersXorWriter
    <3>3. Writing = {}
      BY <1>1, <2>2, OneInSection DEF StartRead, InSection, Writing
    <3> QED
      BY <1>1, <2>2, <3>1, <3>2, <3>3 DEF StartRead, ReadersXorWriter
  <2>3. CASE AllocSnapshot(t) \/ CopySnapshot(t) \/ SizeSnapshot(t) \/ EndReadLock(t)
    BY <1>1, <1>2, <2>3 DEF AllocSnapshot, CopySnapshot, SizeSnapshot, EndReadLock,
                            TypeOK, Reading, Writing, WaitingToWrite
  <2>4. CASE EndRead(t)
    <3>1. /\ t \in Reading /\ Reading' = Reading \ {t}
          /\ Writing' = Writing /\ WaitingToWrite' = WaitingToWrite
      BY <1>1, <2>4 DEF EndRead, TypeOK, Reading, Writing, WaitingToWrite
    <3>2. Cardinality(Reading') = readers - 1
      BY <1>1, <3>1, CountLeave, Places DEF ReadersXorWriter
    <3> QED
      BY <1>1, <2>4, <3>1, <3>2 DEF EndRead, ReadersXorWriter
  <2> QED
    BY <1>4, <2>1, <2>2, <2>3, <2>4 DEF ReadStep
<1>5. ASSUME NEW t \in Threads, AddToLog(t) \/ WriteStep(t) PROVE ReadersXorWriter'
  <2>1. CASE AddToLog(t) \/ StartWriteWait(t) \/ StartWriteWake(t)
    BY <1>1, <1>2, <2>1 DEF AddToLog, StartWriteWait, StartWriteWake,
                            TypeOK, Reading, Writing, WaitingToWrite
  <2>2. CASE StartWriteLock(t)
    <3>1. /\ t \notin WaitingToWrite /\ WaitingToWrite' = WaitingToWrite \cup {t}
          /\ Writing' = Writing /\ Reading' = Reading
      BY <1>1, <2>2 DEF StartWriteLock, TypeOK, Reading, Writing, WaitingToWrite
    <3>2. Cardinality(WaitingToWrite') = waiting_writers + 1
      BY <1>1, <3>1, CountEnter, Places DEF ReadersXorWriter
    <3> QED
      BY <1>1, <2>2, <3>1, <3>2 DEF StartWriteLock, ReadersXorWriter
  <2>3. CASE StartWrite(t)
    <3>1. /\ t \in WaitingToWrite /\ WaitingToWrite' = WaitingToWrite \ {t}
          /\ Writing' = Writing \cup {t} /\ Reading' = Reading
      BY <1>1, <2>3 DEF StartWrite, TypeOK, Reading, Writing, WaitingToWrite
    <3>2. Cardinality(WaitingToWrite') = waiting_writers - 1
      BY <1>1, <3>1, CountLeave, Places DEF ReadersXorWriter
    <3>3. Reading = {} /\ Writing = {}
      <4>1. readers = 0 /\ writers = 0
        BY <1>1, <2>3 DEF StartWrite, TypeOK
      <4> QED
        BY <1>1, <4>1, CountFinite, Places DEF ReadersXorWriter
    <3>4. Cardinality(Writing') = 1
      BY <3>1, <3>3, FS_Singleton
    <3> QED
      BY <1>1, <2>3, <3>1, <3>2, <3>3, <3>4 DEF StartWrite, ReadersXorWriter
  <2>4. CASE TestCapacity(t) \/ DoubleCapacity(t) \/ Grow(t)
    BY <1>1, <1>2, <2>4 DEF TestCapacity, DoubleCapacity, Grow,
                            TypeOK, Reading, Writing, WaitingToWrite
  <2>5. CASE CopyEntry(t) \/ CommitEntry(t)
    BY <1>1, <1>2, <2>5 DEF CopyEntry, CommitEntry, TypeOK, Reading, Writing, WaitingToWrite
  <2>6. CASE EndWrite(t)
    <3>1. /\ t \in Writing /\ Writing' = Writing \ {t}
          /\ Reading' = Reading /\ WaitingToWrite' = WaitingToWrite
      BY <1>1, <2>6 DEF EndWrite, TypeOK, Reading, Writing, WaitingToWrite
    <3>2. Writing = {t}
      BY <1>1, <3>1, OneInSection DEF InSection, Writing
    <3>3. Cardinality(Writing') = 0
      BY <3>1, <3>2, FS_EmptySet
    <3> QED
      BY <1>1, <2>6, <3>1, <3>2, <3>3 DEF EndWrite, ReadersXorWriter
  <2> QED
    BY <1>5, <2>1, <2>2, <2>3, <2>4, <2>5, <2>6 DEF WriteStep
<1>6. CASE SpuriousWake \/ UNCHANGED vars
  BY <1>2, <1>6 DEF SpuriousWake, vars, Reading, Writing, WaitingToWrite
<1> QED
  BY <1>4, <1>5, <1>6 DEF Next

-----------------------------------------------------------------------------
(* Whoever puts a thread to sleep, or wakes one, leaves somebody who will  *)
(* wake the others.                                                        *)
LEMMA WakeStep == LockInv /\ [Next]_vars => WritersGetWoken' /\ ReadersGetWoken'
<1> SUFFICES ASSUME LockInv, [Next]_vars PROVE WritersGetWoken' /\ ReadersGetWoken'
  OBVIOUS
<1>1. TypeOK /\ LockOwned /\ ReadersXorWriter /\ SleepersWait /\ WritersGetWoken /\ ReadersGetWoken
  BY DEF LockInv
<1>2. readers \in Nat /\ waiting_writers \in Nat /\ writers \in {0, 1}
  BY <1>1 DEF TypeOK
<1>3. Reading' \in SUBSET Threads /\ Writing' \in SUBSET Threads /\ WaitingToWrite' \in SUBSET Threads
  BY DEF Reading, Writing, WaitingToWrite
<1>4. ReadersXorWriter' /\ SleepersWait'
  BY CounterStep, LockStepKeeps
<1> USE DEF Goto, At, counters, WritersGetWoken, ReadersGetWoken
<1>5. ASSUME UNCHANGED conds, UNCHANGED counters, Writing' = Writing,
             WaitingToWrite' = WaitingToWrite
      PROVE  WritersGetWoken' /\ ReadersGetWoken'
  BY <1>1, <1>5 DEF conds
<1>6. ASSUME NEW t \in Threads, GetLog(t) \/ ReadStep(t)
      PROVE  WritersGetWoken' /\ ReadersGetWoken'
  <2>1. CASE GetLog(t) \/ StartReadLock(t) \/ StartReadWake(t) \/ EndReadLock(t)
    BY <1>1, <1>5, <2>1 DEF GetLog, StartReadLock, StartReadWake, EndReadLock,
                            TypeOK, Writing, WaitingToWrite
  <2>2. CASE AllocSnapshot(t) \/ CopySnapshot(t) \/ SizeSnapshot(t)
    BY <1>1, <1>5, <2>2 DEF AllocSnapshot, CopySnapshot, SizeSnapshot,
                            TypeOK, Writing, WaitingToWrite
  <2>3. CASE StartReadWait(t)
    BY <1>1, <2>3 DEF StartReadWait, TypeOK, Writing, WaitingToWrite
  <2>4. CASE StartRead(t)
    BY <1>1, <1>2, <2>4 DEF StartRead, conds, TypeOK, Writing, WaitingToWrite
  <2>5. CASE EndRead(t)
    <3>1. Writing' = Writing /\ WaitingToWrite' = WaitingToWrite /\ readers' \in Nat
      <4>1. Writing' = Writing /\ WaitingToWrite' = WaitingToWrite
        BY <1>1, <2>5 DEF EndRead, TypeOK, Writing, WaitingToWrite
      <4>2. readers' \in Nat
        BY <1>3, <1>4, CountFinite DEF ReadersXorWriter
      <4> QED
        BY <4>1, <4>2
    <3>2. ReadersGetWoken'
      BY <1>1, <2>5 DEF EndRead
    <3>3. CASE readers' # 0 \/ writers_cond = {}
      <4>1. writers_cond' \subseteq writers_cond
        BY <2>5, SignalShrinks DEF EndRead
      <4> QED
        BY <3>1, <3>2, <3>3, <4>1
    <3>4. CASE readers' = 0 /\ writers_cond # {}
      <4>1. PICK u \in writers_cond : writers_cond' = writers_cond \ {u}
        BY <2>5, <3>4 DEF EndRead, Signal
      <4>2. u \in WaitingToWrite'
        BY <1>1, <3>1, <4>1 DEF TypeOK, SleepersWait, WaitingToWrite
      <4> QED
        BY <3>2, <4>1, <4>2
    <3> QED
      BY <3>3, <3>4
  <2> QED
    BY <1>6, <2>1, <2>2, <2>3, <2>4, <2>5 DEF ReadStep
<1>7. ASSUME NEW t \in Threads, AddToLog(t) \/ WriteStep(t)
      PROVE  WritersGetWoken' /\ ReadersGetWoken'
  <2>1. CASE AddToLog(t) \/ StartWriteWake(t)
    BY <1>1, <1>5, <2>1 DEF AddToLog, StartWriteWake, TypeOK, Writing, WaitingToWrite
  <2>2. CASE StartWriteLock(t)
    <3>1. WaitingToWrite \subseteq WaitingToWrite' /\ Writing' = Writing
      BY <1>1, <2>2 DEF StartWriteLock, TypeOK, Writing, WaitingToWrite
    <3> QED
      BY <1>1, <1>2, <2>2, <3>1 DEF StartWriteLock, conds
  <2>3. CASE StartWriteWait(t)
    <3>1. writers = 0
      <4>1. \A u \in Threads : u \notin Writing
        BY <1>1, <2>3, OneInSection DEF StartWriteWait, InSection, Writing
      <4> QED
        BY <1>1, <4>1, CountFinite, Places DEF ReadersXorWriter
    <3> QED
      BY <1>1, <1>2, <2>3, <3>1 DEF StartWriteWait
  <2>4. CASE StartWrite(t)
    <3>1. t \in Writing'
      BY <1>1, <2>4 DEF StartWrite, TypeOK, Writing
    <3> QED
      BY <2>4, <3>1 DEF StartWrite
  <2>5. CASE TestCapacity(t) \/ DoubleCapacity(t) \/ Grow(t)
    BY <1>1, <1>5, <2>5 DEF TestCapacity, DoubleCapacity, Grow, TypeOK, Writing, WaitingToWrite
  <2>6. CASE CopyEntry(t) \/ CommitEntry(t)
    BY <1>1, <1>5, <2>6 DEF CopyEntry, CommitEntry, TypeOK, Writing, WaitingToWrite
  <2>7. CASE EndWrite(t)
    <3>1. CASE waiting_writers > 0
      <4>1. WaitingToWrite' = WaitingToWrite
        BY <1>1, <2>7 DEF EndWrite, TypeOK, WaitingToWrite
      <4>2. PICK u \in WaitingToWrite : u \notin writers_cond'
        <5>1. CASE writers_cond = {}
          <6>1. WaitingToWrite # {}
            BY <1>1, <3>1, CountFinite, Places DEF ReadersXorWriter
          <6> QED
            BY <2>7, <3>1, <5>1, <6>1, SignalShrinks DEF EndWrite
        <5>2. CASE writers_cond # {}
          <6>1. PICK u \in writers_cond : writers_cond' = writers_cond \ {u}
            BY <2>7, <3>1, <5>2 DEF EndWrite, Signal
          <6> QED
            BY <1>1, <6>1 DEF TypeOK, SleepersWait, WaitingToWrite
        <5> QED
          BY <5>1, <5>2
      <4> QED
        BY <2>7, <3>1, <4>1, <4>2 DEF EndWrite
    <3>2. CASE waiting_writers = 0
      <4>1. WaitingToWrite = {}
        BY <1>1, <3>2, CountFinite, Places DEF ReadersXorWriter
      <4>2. writers_cond' = {} /\ readers_cond' = {}
        BY <1>1, <2>7, <3>2, <4>1 DEF EndWrite, SleepersWait, WaitingToWrite, TypeOK
      <4> QED
        BY <4>2
    <3> QED
      BY <1>2, <3>1, <3>2
  <2> QED
    BY <1>7, <2>1, <2>2, <2>3, <2>4, <2>5, <2>6, <2>7 DEF WriteStep
<1>8. CASE SpuriousWake
  <2>1. /\ Writing' = Writing /\ WaitingToWrite' = WaitingToWrite
        /\ writers_cond' \subseteq writers_cond /\ readers_cond' \subseteq readers_cond
    BY <1>8 DEF SpuriousWake, Writing, WaitingToWrite
  <2> QED
    BY <1>1, <1>8, <2>1 DEF SpuriousWake
<1>9. CASE UNCHANGED vars
  BY <1>5, <1>9 DEF vars, Writing, WaitingToWrite
<1> QED
  BY <1>6, <1>7, <1>8, <1>9 DEF Next

-----------------------------------------------------------------------------
(* A step keeps the room for the entry that is being written.              *)
LEMMA FitStep == LockInv /\ [Next]_vars => EntryFits'
<1> SUFFICES ASSUME LockInv, [Next]_vars PROVE EntryFits'
  OBVIOUS
<1>1. TypeOK /\ LockOwned /\ EntryFits
  BY DEF LockInv
<1>2. ASSUME UNCHANGED <<size, capacity, data>>,
             \A u \in Threads : /\ pc'[u] = "wCopy" => pc[u] = "wCopy"
                                /\ pc'[u] = "wCommit" => pc[u] \in {"wCopy", "wCommit"}
      PROVE  EntryFits'
  BY <1>1, <1>2 DEF EntryFits, At
<1>3. size \in Nat /\ capacity \in Nat
  BY <1>1 DEF TypeOK
<1> USE DEF Goto, locals, store
<1>4. ASSUME NEW t \in Threads, GetLog(t) \/ ReadStep(t) PROVE EntryFits'
  <2>1. CASE GetLog(t) \/ StartReadLock(t) \/ StartReadWait(t) \/ StartReadWake(t)
    BY <1>1, <1>2, <2>1 DEF GetLog, StartReadLock, StartReadWait, StartReadWake, TypeOK
  <2>2. CASE StartRead(t) \/ AllocSnapshot(t) \/ CopySnapshot(t) \/ SizeSnapshot(t)
    BY <1>1, <1>2, <2>2 DEF StartRead, AllocSnapshot, CopySnapshot, SizeSnapshot, TypeOK
  <2>3. CASE EndReadLock(t) \/ EndRead(t)
    BY <1>1, <1>2, <2>3 DEF EndReadLock, EndRead, TypeOK
  <2> QED
    BY <1>4, <2>1, <2>2, <2>3 DEF ReadStep
<1>5. ASSUME NEW t \in Threads, AddToLog(t) \/ WriteStep(t) PROVE EntryFits'
  <2>1. CASE AddToLog(t)
    BY <1>1, <2>1 DEF AddToLog, EntryFits, At, TypeOK
  <2>2. CASE StartWriteLock(t) \/ StartWriteWait(t) \/ StartWriteWake(t) \/ StartWrite(t)
    BY <1>1, <1>2, <2>2 DEF StartWriteLock, StartWriteWait, StartWriteWake, StartWrite, TypeOK
  <2>3. CASE TestCapacity(t)
    <3>1. Len(data[t]) \in Nat
      BY <1>1, EntryLength
    <3>2. Needed(t) \in Nat
      BY <1>3, <3>1 DEF Needed
    <3> QED
      BY <1>1, <1>3, <2>3, <3>2 DEF TestCapacity, EntryFits, At, Needed, TypeOK
  <2>4. CASE DoubleCapacity(t)
    BY <1>1, <1>2, <2>4 DEF DoubleCapacity
  <2>5. CASE Grow(t)
    <3>1. \A u \in Threads \ {t} : pc[u] \notin {"wCopy", "wCommit"}
      BY <1>1, <2>5, OneInSection DEF Grow, At, InSection, Writing
    <3> QED
      BY <1>1, <2>5, <3>1 DEF Grow, EntryFits, At, Needed, TypeOK
  <2>6. CASE CopyEntry(t)
    BY <1>1, <1>2, <2>6 DEF CopyEntry, At, TypeOK
  <2>7. CASE CommitEntry(t)
    <3>1. \A u \in Threads \ {t} : pc[u] \notin {"wCopy", "wCommit"}
      BY <1>1, <2>7, OneInSection DEF CommitEntry, At, InSection, Writing
    <3> QED
      BY <1>1, <2>7, <3>1 DEF CommitEntry, EntryFits, At, TypeOK
  <2>8. CASE EndWrite(t)
    BY <1>1, <1>2, <2>8 DEF EndWrite, TypeOK
  <2> QED
    BY <1>5, <2>1, <2>2, <2>3, <2>4, <2>5, <2>6, <2>7, <2>8 DEF WriteStep
<1>6. CASE SpuriousWake \/ UNCHANGED vars
  BY <1>2, <1>6 DEF SpuriousWake, vars
<1> QED
  BY <1>4, <1>5, <1>6 DEF Next

-----------------------------------------------------------------------------
(* A step keeps the types; in particular the block behind buffer always    *)
(* has capacity bytes.                                                     *)
LEMMA LogTypeStep == LockInv /\ [Next]_vars => TypeOK'
<1> SUFFICES ASSUME LockInv, [Next]_vars PROVE TypeOK'
  OBVIOUS
<1>1. TypeOK /\ LockOwned /\ ReadersXorWriter /\ EntryFits
  BY DEF LockInv
<1>2. readers' \in Nat /\ waiting_writers' \in Nat
  <2>1. Reading' \in SUBSET Threads /\ WaitingToWrite' \in SUBSET Threads
    BY DEF Reading, WaitingToWrite
  <2> QED
    BY <2>1, CounterStep, CountFinite DEF ReadersXorWriter
<1> USE <1>1, <1>2, ThreadsAssumption
    DEF TypeOK, Goto, At, Acquire, Release, counters, conds, locals, store,
        ReaderLabels, WriterLabels
<1>3. ASSUME NEW t \in Threads, GetLog(t) \/ ReadStep(t) PROVE TypeOK'
  <2>1. CASE GetLog(t) \/ StartReadLock(t) \/ StartReadWait(t) \/ StartReadWake(t)
    BY <2>1 DEF GetLog, StartReadLock, StartReadWait, StartReadWake
  <2>2. CASE StartRead(t) \/ AllocSnapshot(t) \/ CopySnapshot(t)
    BY <2>2 DEF StartRead, AllocSnapshot, CopySnapshot
  <2>3. CASE SizeSnapshot(t) \/ EndReadLock(t)
    <3>1. CASE SizeSnapshot(t)
      BY <3>1 DEF SizeSnapshot
    <3>2. CASE EndReadLock(t)
      BY <3>2 DEF EndReadLock
    <3> QED
      BY <2>3, <3>1, <3>2
  <2>4. CASE EndRead(t)
    <3>1. writers_cond' \subseteq Threads
      BY <2>4, SignalShrinks DEF EndRead
    <3> QED
      BY <2>4, <3>1 DEF EndRead
  <2> QED
    BY <1>3, <2>1, <2>2, <2>3, <2>4 DEF ReadStep
<1>4. ASSUME NEW t \in Threads, AddToLog(t) \/ WriteStep(t) PROVE TypeOK'
  <2>1. CASE AddToLog(t)
    BY <2>1, MaxAppendsAssumption DEF AddToLog
  <2>2. CASE StartWriteLock(t) \/ StartWriteWait(t) \/ StartWriteWake(t) \/ StartWrite(t)
    BY <2>2 DEF StartWriteLock, StartWriteWait, StartWriteWake, StartWrite
  <2>3. CASE TestCapacity(t) \/ DoubleCapacity(t)
    <3>1. new_capacity' \in Nat
      BY <2>3 DEF TestCapacity, DoubleCapacity
    <3>2. pc' \in [Threads -> {"idle"} \cup ReaderLabels \cup WriterLabels]
      BY <2>3 DEF TestCapacity, DoubleCapacity
    <3> QED
      BY <2>3, <3>1, <3>2 DEF TestCapacity, DoubleCapacity
  <2>4. Needed(t) \in Nat \ {0} /\ Len(data[t]) \in Nat /\ data[t] \in Seq(Bytes)
    BY EntryLength DEF Needed
  <2>5. CASE Grow(t)
    <3>1. capacity' \in Nat \ {0}
      BY <2>4, <2>5 DEF Grow
    <3>2. \A i \in 0..(capacity' - 1) : ByteAt(buffer, i) \in Bytes \cup {NUL, Junk}
      BY DEF ByteAt
    <3>3. buffer' \in [0..(capacity' - 1) -> Bytes \cup {NUL, Junk}]
      BY <2>5, <3>2 DEF Grow
    <3> QED
      BY <2>5, <3>1, <3>3 DEF Grow
  <2>6. CASE CopyEntry(t)
    <3>1. \A i \in size..(size + Len(data[t]) - 1) : data[t][i - size + 1] \in Bytes
      BY <2>4
    <3>2. buffer' \in [0..(capacity - 1) -> Bytes \cup {NUL, Junk}]
      BY <2>6, <3>1 DEF CopyEntry
    <3> QED
      BY <2>6, <3>2 DEF CopyEntry
  <2>7. CASE CommitEntry(t)
    <3>1. size' \in Nat
      BY <2>4, <2>7 DEF CommitEntry
    <3>2. buffer' \in [0..(capacity - 1) -> Bytes \cup {NUL, Junk}]
      BY <2>7 DEF CommitEntry
    <3>3. data' \in [Threads -> Entries \cup {<<>>}]
      BY <2>7 DEF CommitEntry
    <3>4. pc' \in [Threads -> {"idle"} \cup ReaderLabels \cup WriterLabels]
      BY <2>7 DEF CommitEntry
    <3> QED
      BY <2>7, <3>1, <3>2, <3>3, <3>4 DEF CommitEntry
  <2>8. CASE EndWrite(t)
    <3>1. writers_cond' \subseteq Threads
      BY <2>8, SignalShrinks DEF EndWrite
    <3> QED
      BY <2>8, <3>1 DEF EndWrite
  <2> QED
    BY <1>4, <2>1, <2>2, <2>3, <2>5, <2>6, <2>7, <2>8 DEF WriteStep
<1>5. CASE SpuriousWake \/ UNCHANGED vars
  BY <1>5 DEF SpuriousWake, vars
<1> QED
  BY <1>3, <1>4, <1>5 DEF Next

-----------------------------------------------------------------------------
(* The inductive invariant holds in every reachable state.                 *)
THEOREM LogInvariant == Spec => []LockInv
<1>1. LockInv /\ [Next]_vars => LockInv'
  BY LogTypeStep, LockStepKeeps, CounterStep, FitStep, WakeStep DEF LockInv
<1> QED
  BY <1>1, InitLock, PTL DEF Spec

(* Type correctness of the log.                                            *)
THEOREM LogTypes == Spec => []TypeOK
<1>1. LockInv => TypeOK
  BY DEF LockInv
<1> QED
  BY <1>1, LogInvariant, PTL

(* Readers exclude writers and writers each other, for any thread pool.    *)
THEOREM MutualExclusion == Spec => []ReadersXorWriter
<1>1. LockInv => ReadersXorWriter
  BY DEF LockInv
<1> QED
  BY <1>1, LogInvariant, PTL

(* add_to_log stays inside its buffer, for entries of any length.          *)
THEOREM NoOverflow == Spec => []EntryFits
<1>1. LockInv => EntryFits
  BY DEF LockInv
<1> QED
  BY <1>1, LogInvariant, PTL

(* No wakeup of a writer or of a reader is lost.                           *)
THEOREM NoLostWakeup == Spec => []SleepersGetWoken
<1>1. LockInv => SleepersGetWoken
  BY DEF LockInv, SleepersGetWoken
<1> QED
  BY <1>1, LogInvariant, PTL

-----------------------------------------------------------------------------
(* The text of the log and the snapshots readers take of it, and that      *)
(* ServerLog takes the steps of AtomicLog.                                 *)

(* Between the capacity test and the commit there is one writer, alone.    *)
LEMMA WriterAlone ==
  ASSUME LockInv, NEW t \in Writing
  PROVE  /\ t \in Threads /\ Reading = {}
         /\ \A u \in Threads \ {t} : u \notin Writing
<1>1. t \in Threads /\ InSection(t)
  BY DEF Writing, InSection
<1>2. Reading = {}
  BY DEF LockInv, ReadersXorWriter
<1>3. ASSUME NEW u \in Threads \ {t}, u \in Writing PROVE FALSE
  BY <1>1, <1>3, OneInSection DEF LockInv, InSection
<1> QED
  BY <1>1, <1>2, <1>3

(* The entry a thread holds is a text.                                     *)
LEMMA HeldText ==
  ASSUME TextInv, NEW t \in Threads
  PROVE  /\ Len(data[t]) \in Nat
         /\ \A i \in 1..Len(data[t]) : data[t][i] \in Bytes
BY EntryLength DEF TextInv, LockInv

(* The text of a new log is empty and terminated. *)
LEMMA InitText == Init => TextInv
<1> SUFFICES ASSUME Init PROVE TextInv
  OBVIOUS
<1>1. TextInBuffer /\ NulKept
  BY InitCapacityAssumption DEF Init, TextInBuffer, NulKept
<1>2. EntryCopied /\ EntryHeld /\ SnapshotTaken
  BY DEF Init, EntryCopied, EntryHeld, SnapshotTaken, At, WriterLabels
<1> QED
  BY <1>1, <1>2, InitLock DEF TextInv

-----------------------------------------------------------------------------
(* The parts of TextInv that speak of the text and of the entries.         *)
TextParts == TextInBuffer /\ NulKept /\ EntryCopied /\ EntryHeld

(* The critical sections of readers and the way to the lock do not touch   *)
(* the text.                                                               *)
LEMMA TextKept ==
  ASSUME TextInv, UNCHANGED <<store, data>>,
         \A u \in Threads :
           \/ pc'[u] = pc[u]
           \/ /\ {pc[u], pc'[u]} \cap {"wCopy", "wCommit"} = {}
              /\ pc[u] \in WriterLabels \ {"wEnd"} <=> pc'[u] \in WriterLabels \ {"wEnd"}
  PROVE  TextParts'
<1>1. TextInBuffer'
  BY DEF TextInv, TextInBuffer, store
<1>2. NulKept' /\ EntryCopied'
  BY DEF TextInv, NulKept, EntryCopied, At, store
<1>3. EntryHeld'
  BY DEF TextInv, EntryHeld
<1> QED
  BY <1>1, <1>2, <1>3 DEF TextParts

(* The doubled buffer begins with the text of the old one (realloc by hand:
   malloc, memcpy of size bytes, free). *)
LEMMA GrowText == ASSUME TextInv, NEW t \in Threads, Grow(t) PROVE TextParts'
<1> USE DEF Grow, Goto, At
<1>1. TypeOK /\ TextInBuffer /\ EntryHeld /\ size \in Nat /\ Len(data[t]) \in Nat
  BY HeldText DEF TextInv, LockInv, TypeOK
<1>2. size' = size /\ capacity' = new_capacity /\ new_capacity \in Nat /\ size < capacity'
  BY <1>1 DEF Needed, TypeOK
<1>3. \A i \in 0..(size - 1) : buffer'[i] = buffer[i]
  <2> SUFFICES ASSUME NEW i \in 0..(size - 1) PROVE buffer'[i] = buffer[i]
    OBVIOUS
  <2>1. i \in 0..(new_capacity - 1) /\ i \in DOMAIN buffer
    BY <1>1, <1>2 DEF TextInBuffer, TypeOK
  <2> QED
    BY <1>1, <2>1 DEF ByteAt
<1>4. TextInBuffer'
  BY <1>1, <1>2, <1>3 DEF TextInBuffer
<1>5. t \in Writing /\ pc' = [pc EXCEPT ![t] = "wCopy"] /\ data' = data
  BY DEF Writing, locals
<1>6. NulKept' /\ EntryCopied' /\ EntryHeld'
  <2>1. \A u \in Threads : pc'[u] # "wCommit"
    BY <1>1, <1>5, WriterAlone DEF TextInv, Writing, TypeOK
  <2>2. pc'[t] = "wCopy"
    BY <1>1, <1>5 DEF TypeOK
  <2> QED
    BY <1>1, <1>5, <2>1, <2>2 DEF NulKept, EntryCopied, EntryHeld, WriterLabels, TypeOK
<1> QED
  BY <1>4, <1>6 DEF TextParts

(* memcpy puts the entry behind the text, inside the block.                *)
LEMMA CopyText == ASSUME TextInv, NEW t \in Threads, CopyEntry(t) PROVE TextParts'
<1> USE DEF CopyEntry, Goto, At
<1>1. TypeOK /\ TextInBuffer /\ EntryHeld /\ size \in Nat /\ Len(data[t]) \in Nat
  BY HeldText DEF TextInv, LockInv, TypeOK
<1>2. size + Len(data[t]) < capacity /\ capacity \in Nat
  BY <1>1 DEF TextInv, LockInv, EntryFits, TypeOK
<1>3. TextInBuffer'
  <2>1. \A i \in 0..(size - 1) : i \in DOMAIN buffer /\ buffer'[i] = buffer[i]
    BY <1>1, <1>2 DEF TypeOK
  <2> QED
    BY <1>1, <2>1 DEF TextInBuffer
<1>4. t \in Writing /\ pc' = [pc EXCEPT ![t] = "wCommit"] /\ data' = data /\ size' = size
  BY DEF Writing, locals
<1>5. \A u \in Threads \ {t} : pc'[u] # "wCommit"
  BY <1>1, <1>4, WriterAlone DEF TextInv, Writing, TypeOK
<1>6. \A i \in 1..Len(data[t]) : buffer'[size + i - 1] = data[t][i]
  <2> SUFFICES ASSUME NEW i \in 1..Len(data[t])
               PROVE  buffer'[size + i - 1] = data[t][i]
    OBVIOUS
  <2>1. /\ size + i - 1 \in DOMAIN buffer
        /\ size + i - 1 \in size..(size + Len(data[t]) - 1)
        /\ (size + i - 1) - size + 1 = i
    BY <1>1, <1>2 DEF TypeOK
  <2> QED
    BY <2>1
<1>7. EntryCopied'
  BY <1>4, <1>5, <1>6 DEF EntryCopied
<1>8. NulKept' /\ EntryHeld'
  BY <1>1, <1>4 DEF NulKept, EntryHeld, WriterLabels, TypeOK
<1> QED
  BY <1>3, <1>7, <1>8 DEF TextParts

(* The commit makes the copied entry part of the text and puts the NUL     *)
(* behind it.                                                              *)
LEMMA CommitText == ASSUME TextInv, NEW t \in Threads, CommitEntry(t) PROVE TextParts'
<1> USE DEF CommitEntry, Goto, At
<1>1. TypeOK /\ TextInBuffer /\ EntryHeld /\ EntryCopied /\ size \in Nat /\ Len(data[t]) \in Nat
  BY HeldText DEF TextInv, LockInv, TypeOK
<1>2. /\ size' = size + Len(data[t]) /\ size' < capacity /\ capacity \in Nat
      /\ capacity' = capacity
  BY <1>1 DEF TextInv, LockInv, EntryFits, TypeOK
<1>3. /\ buffer'[size'] = NUL
      /\ \A i \in 0..(size' - 1) : buffer'[i] = buffer[i]
  BY <1>1, <1>2 DEF TypeOK
<1>4. ASSUME NEW i \in 0..(size' - 1) PROVE buffer'[i] \in Bytes
  <2>1. CASE i < size
    BY <1>1, <1>2, <1>3, <2>1 DEF TextInBuffer
  <2>2. CASE i >= size
    <3>1. i - size + 1 \in 1..Len(data[t]) /\ size + (i - size + 1) - 1 = i
      BY <1>1, <1>2, <2>2
    <3>2. buffer[i] = data[t][i - size + 1]
      BY <1>1, <3>1 DEF EntryCopied
    <3> QED
      BY <1>3, <3>1, <3>2, HeldText
  <2> QED
    BY <1>1, <2>1, <2>2
<1>5. t \in Writing /\ pc' = [pc EXCEPT ![t] = "wEnd"] /\ data' = [data EXCEPT ![t] = <<>>]
  BY DEF Writing
<1>6. \A u \in Threads : pc'[u] # "wCommit"
  BY <1>1, <1>5, WriterAlone DEF TextInv, Writing, TypeOK
<1>7. NulKept' /\ EntryCopied' /\ EntryHeld'
  BY <1>1, <1>3, <1>5, <1>6 DEF NulKept, EntryCopied, EntryHeld, WriterLabels, TypeOK
<1> QED
  BY <1>2, <1>4, <1>7 DEF TextParts, TextInBuffer

(* Every step of the lock functions, of add_to_log and of get_log keeps
   TextInv. *)
LEMMA TextStep == TextInv /\ [Next]_vars => TextParts'
<1> SUFFICES ASSUME TextInv, [Next]_vars PROVE TextParts'
  OBVIOUS
<1>1. TypeOK
  BY DEF TextInv, LockInv
<1> USE DEF Goto, At, locals, WriterLabels
<1>2. ASSUME NEW t \in Threads, GetLog(t) \/ ReadStep(t) PROVE TextParts'
  <2>1. CASE GetLog(t) \/ StartReadLock(t) \/ StartReadWait(t) \/ StartReadWake(t)
    BY <1>1, <2>1, TextKept DEF GetLog, StartReadLock, StartReadWait, StartReadWake, TypeOK
  <2>2. CASE StartRead(t) \/ AllocSnapshot(t) \/ CopySnapshot(t) \/ SizeSnapshot(t)
    BY <1>1, <2>2, TextKept DEF StartRead, AllocSnapshot, CopySnapshot, SizeSnapshot, TypeOK
  <2>3. CASE EndReadLock(t) \/ EndRead(t)
    BY <1>1, <2>3, TextKept DEF EndReadLock, EndRead, TypeOK
  <2> QED
    BY <1>2, <2>1, <2>2, <2>3 DEF ReadStep
<1>3. ASSUME NEW t \in Threads, AddToLog(t) \/ WriteStep(t) PROVE TextParts'
  <2>1. CASE AddToLog(t)
    <3>1. PICK d \in Entries : data' = [data EXCEPT ![t] = d]
      BY <2>1 DEF AddToLog
    <3>2. d # <<>>
      BY <3>1, EntriesAssumption
    <3>3. EntryHeld'
      BY <1>1, <2>1, <3>1, <3>2 DEF AddToLog, TextInv, EntryHeld, TypeOK
    <3>4. TextInBuffer'
      BY <2>1 DEF AddToLog, store, TextInv, TextInBuffer
    <3>5. NulKept' /\ EntryCopied'
      BY <1>1, <2>1, <3>1 DEF AddToLog, store, TextInv, NulKept, EntryCopied, TypeOK
    <3> QED
      BY <3>3, <3>4, <3>5 DEF TextParts
  <2>2. CASE StartWriteLock(t) \/ StartWriteWait(t) \/ StartWriteWake(t) \/ StartWrite(t)
    BY <1>1, <2>2, TextKept DEF StartWriteLock, StartWriteWait, StartWriteWake, StartWrite, TypeOK
  <2>3. CASE TestCapacity(t)
    <3>1. TextInBuffer' /\ store' = store /\ data' = data
      BY <2>3 DEF TestCapacity, TextInv, TextInBuffer, store
    <3>2. t \in Writing
      BY <2>3 DEF TestCapacity, Writing
    <3>3. NulKept' /\ EntryCopied'
      <4>1. \A u \in Threads \ {t} : u \notin Writing
        BY <3>2, WriterAlone DEF TextInv
      <4>2. \A u \in Threads \ {t} : pc'[u] = pc[u]
        BY <1>1, <2>3 DEF TestCapacity, TypeOK
      <4>3. NulKept'
        BY <2>3, <3>1, <3>2, <4>1, <4>2 DEF TestCapacity, TextInv, NulKept, store, Writing
      <4>4. EntryCopied'
        <5>1. buffer' = buffer /\ size' = size /\ data' = data /\ pc'[t] # "wCommit"
          BY <1>1, <2>3, <3>1 DEF TestCapacity, store, TypeOK
        <5> QED
          BY <4>2, <5>1 DEF TextInv, EntryCopied
      <4> QED
        BY <4>3, <4>4
    <3>4. EntryHeld'
      BY <1>1, <2>3, <3>1 DEF TestCapacity, TextInv, EntryHeld, TypeOK
    <3> QED
      BY <3>1, <3>3, <3>4 DEF TextParts
  <2>4. CASE DoubleCapacity(t)
    BY <2>4, TextKept DEF DoubleCapacity
  <2>5. CASE Grow(t) \/ CopyEntry(t) \/ CommitEntry(t)
    BY <2>5, GrowText, CopyText, CommitText
  <2>6. CASE EndWrite(t)
    BY <1>1, <2>6, TextKept DEF EndWrite, TypeOK
  <2> QED
    BY <1>3, <2>1, <2>2, <2>3, <2>4, <2>5, <2>6 DEF WriteStep
<1>4. CASE SpuriousWake \/ UNCHANGED vars
  BY <1>4, TextKept DEF SpuriousWake, vars
<1> QED
  BY <1>2, <1>3, <1>4 DEF Next

-----------------------------------------------------------------------------
(* A reader's snapshot stays a copy of the text: only a writer changes the *)
(* store, and no reader is inside then.                                    *)
LEMMA SnapshotStep == TextInv /\ [Next]_vars => SnapshotTaken'
<1> SUFFICES ASSUME TextInv, [Next]_vars PROVE SnapshotTaken'
  OBVIOUS
<1>1. TypeOK /\ SnapshotTaken /\ TextInBuffer /\ size \in Nat
  BY DEF TextInv, LockInv, TypeOK
<1>2. ASSUME UNCHANGED <<store, dst, result_size>>,
             \A u \in Threads : pc'[u] \in {"rSize", "rEndLock", "rEnd"} => pc'[u] = pc[u]
      PROVE  SnapshotTaken'
  BY <1>1, <1>2 DEF SnapshotTaken, store
<1> USE DEF Goto, At, locals
<1>3. ASSUME NEW t \in Threads, GetLog(t) \/ ReadStep(t) PROVE SnapshotTaken'
  <2>1. CASE GetLog(t) \/ StartReadLock(t) \/ StartReadWait(t) \/ StartReadWake(t) \/ StartRead(t)
    BY <1>1, <1>2, <2>1
       DEF GetLog, StartReadLock, StartReadWait, StartReadWake, StartRead, TypeOK
  <2>2. CASE AllocSnapshot(t)
    <3>1. ASSUME NEW u \in Threads \ {t}
          PROVE  dst'[u] = dst[u] /\ pc'[u] = pc[u]
      BY <1>1, <2>2 DEF AllocSnapshot, TypeOK
    <3> QED
      BY <1>1, <2>2, <3>1 DEF AllocSnapshot, SnapshotTaken, store, TypeOK
  <2>3. CASE CopySnapshot(t)
    <3>1. ASSUME NEW u \in Threads \ {t}
          PROVE  dst'[u] = dst[u] /\ pc'[u] = pc[u]
      BY <1>1, <2>3 DEF CopySnapshot, TypeOK
    <3>2. [i \in 0..size |-> ByteAt(buffer, i)] = [i \in 0..size |-> buffer[i]]
      <4>1. \A i \in 0..size : i \in DOMAIN buffer
        BY <1>1 DEF TypeOK, TextInBuffer
      <4> QED
        BY <4>1 DEF ByteAt
    <3>3. dst'[t] = [i \in 0..size |-> buffer[i]] /\ pc'[t] = "rSize"
      BY <1>1, <2>3, <3>2 DEF CopySnapshot, TypeOK
    <3> QED
      BY <1>1, <2>3, <3>1, <3>3 DEF CopySnapshot, SnapshotTaken, store
  <2>4. CASE SizeSnapshot(t)
    BY <1>1, <2>4 DEF SizeSnapshot, SnapshotTaken, store, TypeOK
  <2>5. CASE EndReadLock(t)
    BY <1>1, <2>5 DEF EndReadLock, SnapshotTaken, store, TypeOK
  <2>6. CASE EndRead(t)
    <3>1. ASSUME NEW u \in Threads \ {t}
          PROVE  dst'[u] = dst[u] /\ pc'[u] = pc[u] /\ result_size'[u] = result_size[u]
      BY <1>1, <2>6 DEF EndRead, TypeOK
    <3>2. pc'[t] = "idle"
      BY <1>1, <2>6 DEF EndRead, TypeOK
    <3> QED
      BY <1>1, <2>6, <3>1, <3>2 DEF EndRead, SnapshotTaken, store
  <2> QED
    BY <1>3, <2>1, <2>2, <2>3, <2>4, <2>5, <2>6 DEF ReadStep
<1>4. ASSUME NEW t \in Threads, AddToLog(t) \/ WriteStep(t) PROVE SnapshotTaken'
  <2>1. CASE AddToLog(t) \/ StartWriteLock(t) \/ StartWriteWait(t) \/ StartWriteWake(t)
    BY <1>1, <1>2, <2>1 DEF AddToLog, StartWriteLock, StartWriteWait, StartWriteWake, TypeOK
  <2>2. CASE StartWrite(t) \/ TestCapacity(t) \/ DoubleCapacity(t) \/ EndWrite(t)
    BY <1>1, <1>2, <2>2 DEF StartWrite, TestCapacity, DoubleCapacity, EndWrite, TypeOK
  <2>3. CASE Grow(t) \/ CopyEntry(t) \/ CommitEntry(t)
    <3>1. t \in Writing /\ dst' = dst /\ result_size' = result_size
      BY <2>3 DEF Grow, CopyEntry, CommitEntry, Writing
    <3>2. Reading = {}
      BY <3>1, WriterAlone DEF TextInv
    <3>3. PICK label \in {"wCopy", "wCommit", "wEnd"} : pc' = [pc EXCEPT ![t] = label]
      BY <2>3 DEF Grow, CopyEntry, CommitEntry
    <3> QED
      BY <1>1, <3>2, <3>3 DEF Reading, SnapshotTaken, TypeOK
  <2> QED
    BY <1>4, <2>1, <2>2, <2>3 DEF WriteStep
<1>5. CASE SpuriousWake \/ UNCHANGED vars
  BY <1>2, <1>5 DEF SpuriousWake, vars
<1> QED
  BY <1>3, <1>4, <1>5 DEF Next

(* The inductive invariant of the text holds in every reachable state.     *)
THEOREM TextInvariant == Spec => []TextInv
<1>1. TextInv /\ [Next]_vars => TextInv'
  <2>1. TextInv /\ [Next]_vars => LockInv'
    BY LogTypeStep, LockStepKeeps, CounterStep, FitStep, WakeStep DEF TextInv, LockInv
  <2> QED
    BY <2>1, TextStep, SnapshotStep DEF TextInv, TextParts
<1> QED
  BY <1>1, InitText, PTL DEF Spec

(* Between two writes the text ends at size, inside the block, with the    *)
(* only NUL, whatever was appended and however often the block grew.       *)
THEOREM TextIsTerminated == Spec => []TextTerminated
<1>1. TextInv => TextTerminated
  <2> SUFFICES ASSUME TextInv, Writing = {} PROVE TextTerminated
    BY DEF TextTerminated
  <2>1. \A t \in Threads : ~ At(t, "wCopy") /\ ~ At(t, "wCommit")
    BY DEF Writing, At
  <2> QED
    BY <2>1 DEF TextInv, TextInBuffer, NulKept, TextTerminated
<1> QED
  BY <1>1, TextInvariant, PTL

(* While a reader has its snapshot nobody writes, so the NUL is at size.   *)
LEMMA SnapshotIsContents ==
  ASSUME TextInv, NEW t \in Threads, pc[t] \in {"rEndLock", "rEnd"}
  PROVE  /\ result_size[t] = size /\ Snapshot(t) = Contents
         /\ dst[t] = [i \in 0..size |-> buffer[i]] /\ buffer[size] = NUL
<1>1. result_size[t] = size /\ dst[t] = [i \in 0..size |-> buffer[i]] /\ size \in Nat
  BY DEF TextInv, SnapshotTaken, LockInv, TypeOK
<1>2. \A i \in 1..size : ByteAt(dst[t], i - 1) = buffer[i - 1]
  BY <1>1 DEF ByteAt
<1>3. Snapshot(t) = Contents
  BY <1>1, <1>2 DEF Snapshot, Contents
<1>4. buffer[size] = NUL
  <2>1. t \in Reading
    BY DEF Reading
  <2>2. Writing = {}
    BY <2>1 DEF TextInv, LockInv, ReadersXorWriter
  <2> QED
    BY <2>2 DEF TextInv, NulKept, Writing, At
<1> QED
  BY <1>1, <1>3, <1>4

(* What get_log returns is all of the log, as it still is when the reader  *)
(* leaves, although the reader read size and buffer without the lock.      *)
THEOREM SnapshotIsWhole == Spec => []SnapshotWhole
<1>1. TextInv => SnapshotWhole
  <2> SUFFICES ASSUME TextInv, NEW t \in Threads, pc[t] \in {"rEndLock", "rEnd"}
               PROVE  /\ result_size[t] = size /\ DOMAIN dst[t] = 0..size
                      /\ Snapshot(t) = Contents /\ dst[t][size] = NUL
    BY DEF SnapshotWhole
  <2>1. size \in 0..size
    BY DEF TextInv, LockInv, TypeOK
  <2> QED
    BY <2>1, SnapshotIsContents
<1> QED
  BY <1>1, TextInvariant, PTL

-----------------------------------------------------------------------------
(* ServerLog takes the steps of AtomicLog.  View is AtomicLog's view as    *)
(* ServerLog implements it, Contents its log, data its todo.               *)
View == [t \in Threads |->
           IF pc[t] \in {"rEndLock", "rEnd"} THEN Snapshot(t) ELSE Nobody]

(* A step that moves no thread into or out of the end of get_log, and keeps*)
(* text and entries, is a stutter of AtomicLog.                            *)
LEMMA ViewKept ==
  ASSUME UNCHANGED <<dst, result_size>>,
         \A u \in Threads :
           pc'[u] = pc[u] \/ {pc[u], pc'[u]} \cap {"rEndLock", "rEnd"} = {}
  PROVE  View' = View
BY DEF View, Snapshot

(* A step that leaves the text, the entries and the views of the readers alone is
   a stutter of the abstract log. *)
LEMMA AbstractStutter ==
  ASSUME Contents' = Contents, data' = data, View' = View
  PROVE  [Atomic!Next]_(Atomic!vars)
BY DEF Atomic!vars, View

(* The abstract view changes where a reader notes the size: there it has   *)
(* read the whole log.                                                     *)
LEMMA AbstractRead ==
  ASSUME TextInv, NEW t \in Threads, SizeSnapshot(t)
  PROVE  Atomic!Read(t)
<1> USE DEF SizeSnapshot, Goto, At
<1>1. TypeOK /\ data[t] = <<>> /\ View[t] = Nobody
  BY DEF TextInv, LockInv, EntryHeld, WriterLabels, View
<1>2. pc'[t] \in {"rEndLock", "rEnd"} /\ Contents' = Contents
  BY <1>1 DEF TypeOK, Contents, store
<1>3. View'[t] = Contents
  <2>1. dst'[t] = [i \in 0..size |-> buffer[i]] /\ result_size'[t] = size /\ size \in Nat
    BY <1>1 DEF TextInv, SnapshotTaken, TypeOK
  <2>2. \A i \in 1..size : ByteAt(dst'[t], i - 1) = buffer[i - 1]
    BY <2>1 DEF ByteAt
  <2> QED
    BY <1>2, <2>1, <2>2 DEF View, Snapshot, Contents
<1>4. View' = [View EXCEPT ![t] = Contents]
  <2>1. \A u \in Threads \ {t} : View'[u] = View[u]
    BY <1>1 DEF View, Snapshot, TypeOK
  <2> QED
    BY <1>3, <2>1 DEF View
<1> QED
  BY <1>1, <1>2, <1>4 DEF Atomic!Read, View

(* Two texts one after the other, as a function of the place.              *)
Joined(s, u, n) == [i \in 1..n |-> IF i <= Len(s) THEN s[i] ELSE u[i - Len(s)]]

(* Concatenation, index by index. *)
LEMMA Concatenated ==
  ASSUME NEW S, NEW s \in Seq(S), NEW u \in Seq(S), NEW n \in Nat,
         n = Len(s) + Len(u)
  PROVE  s \o u = Joined(s, u, n)
<1> DEFINE w == s \o u
<1>1. w \in Seq(S) /\ Len(w) = n
  OBVIOUS
<1>3. ASSUME NEW i \in 1..n
      PROVE  w[i] = IF i <= Len(s) THEN s[i] ELSE u[i - Len(s)]
  OBVIOUS
<1> HIDE DEF w
<1>4. w = [i \in 1..n |-> w[i]]
  BY <1>1
<1>5. \A i \in 1..n : w[i] = IF i <= Len(s) THEN s[i] ELSE u[i - Len(s)]
  BY <1>3
<1>6. w = [i \in 1..n |-> IF i <= Len(s) THEN s[i] ELSE u[i - Len(s)]]
  BY <1>4, <1>5
<1> QED
  BY <1>6 DEF w, Joined

(* The entry enters the log whole, where its writer moves size.            *)
LEMMA AbstractAppend ==
  ASSUME TextInv, NEW t \in Threads, CommitEntry(t)
  PROVE  Atomic!AppendEntry(t)
<1> USE DEF CommitEntry, Goto, At
<1>1. TypeOK /\ data[t] # <<>> /\ size \in Nat /\ data[t] \in Seq(Bytes)
  BY EntryLength DEF TextInv, LockInv, TypeOK, EntryHeld, WriterLabels
<1>2. /\ size + Len(data[t]) < capacity /\ capacity \in Nat
      /\ \A i \in 1..Len(data[t]) : buffer[size + i - 1] = data[t][i]
  BY <1>1 DEF TextInv, LockInv, EntryFits, EntryCopied, TypeOK
<1>3. size' = size + Len(data[t]) /\ \A i \in 0..(size' - 1) : buffer'[i] = buffer[i]
  BY <1>1, <1>2 DEF TypeOK
<1>4. Contents \in Seq(Bytes) /\ Len(Contents) = size
  BY <1>1 DEF Contents, TextInv, TextInBuffer
<1>5. Contents' = Contents \o data[t]
  <2>1. ASSUME NEW i \in 1..(size + Len(data[t]))
        PROVE  buffer'[i - 1] = IF i <= size THEN Contents[i] ELSE data[t][i - size]
    <3>1. buffer'[i - 1] = buffer[i - 1]
      BY <1>1, <1>3
    <3>2. CASE i <= size
      BY <1>1, <3>1, <3>2 DEF Contents
    <3>3. CASE i > size
      <4>1. i - size \in 1..Len(data[t]) /\ size + (i - size) - 1 = i - 1
        BY <1>1, <3>3
      <4> QED
        BY <1>1, <1>2, <3>1, <3>3, <4>1
    <3> QED
      BY <1>1, <3>2, <3>3
  <2>2. Contents' = [i \in 1..(size + Len(data[t])) |-> buffer'[i - 1]]
    BY <1>3 DEF Contents
  <2> DEFINE c == Contents
             d == data[t]
             n == size + Len(data[t])
  <2>3. c \o d = [i \in 1..n |-> IF i <= size THEN c[i] ELSE d[i - size]]
    <3>1. c \in Seq(Bytes) /\ d \in Seq(Bytes) /\ n \in Nat /\ Len(c) = size
          /\ n = Len(c) + Len(d)
      BY <1>1, <1>4
    <3> HIDE DEF c, d, n
    <3>2. c \o d = Joined(c, d, n)
      BY <3>1, Concatenated
    <3> QED
      BY <3>1, <3>2 DEF Joined
  <2>4. Contents' = [i \in 1..(size + Len(data[t])) |->
                      IF i <= size THEN Contents[i] ELSE data[t][i - size]]
    BY <2>1, <2>2
  <2> QED
    BY <2>3, <2>4
<1>6. View' = View
  BY <1>1, ViewKept DEF TypeOK
<1> QED
  BY <1>1, <1>5, <1>6 DEF Atomic!AppendEntry, View

(* Growing and copying behind size leave the text as it is.                *)
LEMMA ContentsKept ==
  ASSUME TextInv, NEW t \in Threads, Grow(t) \/ CopyEntry(t)
  PROVE  Contents' = Contents
<1>1. size \in Nat /\ size' = size
  BY DEF TextInv, LockInv, TypeOK, Grow, CopyEntry
<1>2. Len(data[t]) \in Nat /\ TypeOK /\ TextInBuffer /\ capacity \in Nat /\ new_capacity \in Nat
  BY HeldText DEF TextInv, LockInv, TypeOK
<1>3. ASSUME NEW i \in 0..(size - 1) PROVE buffer'[i] = buffer[i]
  <2>1. i \in DOMAIN buffer
    BY <1>1, <1>2 DEF TypeOK, TextInBuffer
  <2>2. CASE Grow(t)
    <3>1. size < new_capacity
      BY <1>1, <1>2, <2>2 DEF Grow, Needed
    <3> QED
      BY <1>1, <1>2, <2>1, <2>2, <3>1 DEF Grow, ByteAt
  <2>3. CASE CopyEntry(t)
    BY <1>1, <1>2, <2>1, <2>3 DEF CopyEntry
  <2> QED
    BY <2>2, <2>3
<1>4. \A i \in 1..size : buffer'[i - 1] = buffer[i - 1]
  BY <1>1, <1>3
<1> QED
  BY <1>1, <1>4 DEF Contents

(* The initial states are initial states of the abstract log. *)
LEMMA AbstractInit == Init => Atomic!Init
<1> SUFFICES ASSUME Init PROVE Atomic!Init
  OBVIOUS
<1>1. Contents = <<>>
  BY DEF Init, Contents
<1> QED
  BY <1>1 DEF Init, Atomic!Init

(* Every step of the threads is a step of the abstract log or a stutter. *)
LEMMA AbstractStep == TextInv /\ [Next]_vars => [Atomic!Next]_(Atomic!vars)
<1> SUFFICES ASSUME TextInv, [Next]_vars PROVE [Atomic!Next]_(Atomic!vars)
  OBVIOUS
<1>1. TypeOK
  BY DEF TextInv, LockInv
<1>2. ASSUME UNCHANGED <<store, data>> PROVE Contents' = Contents /\ data' = data
  BY <1>2 DEF store, Contents
<1> USE DEF Goto, At, locals
<1>3. ASSUME NEW t \in Threads, GetLog(t) \/ ReadStep(t) PROVE [Atomic!Next]_(Atomic!vars)
  <2>1. CASE GetLog(t) \/ StartReadLock(t) \/ StartReadWait(t) \/ StartReadWake(t) \/ StartRead(t)
    <3>1. View' = View
      BY <1>1, <2>1, ViewKept
         DEF GetLog, StartReadLock, StartReadWait, StartReadWake, StartRead, TypeOK
    <3> QED
      BY <1>2, <2>1, <3>1, AbstractStutter
         DEF GetLog, StartReadLock, StartReadWait, StartReadWake, StartRead
  <2>2. CASE AllocSnapshot(t) \/ CopySnapshot(t)
    <3>1. View' = View
      BY <1>1, <2>2 DEF AllocSnapshot, CopySnapshot, View, Snapshot, TypeOK
    <3> QED
      BY <1>2, <2>2, <3>1, AbstractStutter DEF AllocSnapshot, CopySnapshot
  <2>3. CASE SizeSnapshot(t)
    BY <2>3, AbstractRead DEF Atomic!Next
  <2>4. CASE EndReadLock(t)
    <3>1. View' = View
      BY <1>1, <2>4 DEF EndReadLock, View, Snapshot, TypeOK
    <3> QED
      BY <1>2, <2>4, <3>1, AbstractStutter DEF EndReadLock
  <2>5. CASE EndRead(t)
    <3>1. Contents' = Contents /\ data' = data
      BY <1>2, <2>5 DEF EndRead
    <3>2. \A u \in Threads \ {t} : View'[u] = View[u]
      BY <1>1, <2>5 DEF EndRead, View, Snapshot, TypeOK
    <3>3. View' = [View EXCEPT ![t] = Nobody]
      BY <1>1, <2>5, <3>2 DEF EndRead, View, TypeOK
    <3>4. CASE View[t] = Nobody
      BY <3>1, <3>3, <3>4, View' = View, AbstractStutter DEF View
    <3>5. CASE View[t] # Nobody
      BY <3>1, <3>3, <3>5 DEF View, Atomic!Forget, Atomic!Next
    <3> QED
      BY <3>4, <3>5
  <2> QED
    BY <1>3, <2>1, <2>2, <2>3, <2>4, <2>5 DEF ReadStep
<1>4. ASSUME NEW t \in Threads, AddToLog(t) \/ WriteStep(t) PROVE [Atomic!Next]_(Atomic!vars)
  <2>1. CASE AddToLog(t)
    <3>1. View' = View /\ View[t] = Nobody
      BY <1>1, <2>1, ViewKept DEF AddToLog, TypeOK, View
    <3>2. data[t] = <<>> /\ Contents' = Contents
      BY <2>1 DEF AddToLog, TextInv, EntryHeld, WriterLabels, store, Contents
    <3>3. Atomic!Call(t)
      BY <2>1, <3>1, <3>2 DEF AddToLog, Atomic!Call, View
    <3> QED
      BY <3>3 DEF Atomic!Next
  <2>2. CASE StartWriteLock(t) \/ StartWriteWait(t) \/ StartWriteWake(t) \/ StartWrite(t)
    <3>1. View' = View
      BY <1>1, <2>2, ViewKept
         DEF StartWriteLock, StartWriteWait, StartWriteWake, StartWrite, TypeOK
    <3> QED
      BY <1>2, <2>2, <3>1, AbstractStutter
         DEF StartWriteLock, StartWriteWait, StartWriteWake, StartWrite
  <2>3. CASE TestCapacity(t) \/ DoubleCapacity(t) \/ EndWrite(t)
    <3>1. View' = View
      BY <1>1, <2>3, ViewKept DEF TestCapacity, DoubleCapacity, EndWrite, TypeOK
    <3> QED
      BY <1>2, <2>3, <3>1, AbstractStutter DEF TestCapacity, DoubleCapacity, EndWrite
  <2>4. CASE Grow(t) \/ CopyEntry(t)
    <3>1. View' = View
      BY <1>1, <2>4, ViewKept DEF Grow, CopyEntry, TypeOK
    <3> QED
      BY <2>4, <3>1, ContentsKept, AbstractStutter DEF Grow, CopyEntry
  <2>5. CASE CommitEntry(t)
    BY <2>5, AbstractAppend DEF Atomic!Next
  <2> QED
    BY <1>4, <2>1, <2>2, <2>3, <2>4, <2>5 DEF WriteStep
<1>5. CASE SpuriousWake \/ UNCHANGED vars
  <2>1. View' = View
    BY <1>5, ViewKept DEF SpuriousWake, vars
  <2> QED
    BY <1>2, <1>5, <2>1, AbstractStutter DEF SpuriousWake, vars
<1> QED
  BY <1>3, <1>4, <1>5 DEF Next

(* The readers-writer log is the atomic log: every step of it, for any     *)
(* pool and entries, is one step of AtomicLog or none.  (That an entry     *)
(* eventually gets in is AtomicLog's fairness and left to the runs.)       *)
THEOREM LogIsAtomic == Spec => Atomic!Init /\ [][Atomic!Next]_(Atomic!vars)
BY AbstractInit, AbstractStep, TextInvariant, PTL DEF Spec
=============================================================================
