----------------------------- MODULE ServerLog ------------------------------
(***************************************************************************)
(* The readers-writer log of src/log.c at the grain of its critical        *)
(* sections.  A reader takes the lock to register and to leave and reads   *)
(* without it; a writer keeps the lock from the moment it sees no reader   *)
(* until it has written (log_start_write does not unlock).                 *)
(*                                                                         *)
(* The heap block behind buffer is a function from its offsets to bytes;   *)
(* Malloc fills a block with Junk.  A condition variable is the set of the *)
(* threads asleep on it.                                                   *)
(***************************************************************************)
EXTENDS Integers, Sequences, FiniteSets

CONSTANTS
  Threads,        \* the workers, which call get_log and add_to_log
  Nobody,         \* the owner of a free lock
  Bytes,          \* the characters entries are made of
  NUL,            \* the terminator
  Junk,           \* what Malloc leaves in a block
  Entries,        \* the entries the workers append
  InitCapacity,   \* 4096 in create_log
  MaxAppends      \* bound on the calls of add_to_log in a behaviour

(* An entry is the text of append_stats: never empty, and free of NUL since*)
(* its length is its strlen.  (add_to_log ignores an empty one.)           *)
ASSUME ThreadsAssumption == IsFiniteSet(Threads) /\ Nobody \notin Threads
ASSUME EntriesAssumption == Entries \subseteq Seq(Bytes) \ {<<>>}
ASSUME BytesAssumption == NUL \notin Bytes /\ Junk \notin Bytes /\ NUL # Junk
ASSUME InitCapacityAssumption == InitCapacity \in Nat \ {0}
ASSUME MaxAppendsAssumption == MaxAppends \in Nat

VARIABLES
  buffer, size, capacity,               \* struct server_log
  lock, readers_cond, writers_cond,     \* its lock and the sleeping threads
  readers, writers, waiting_writers,    \* its counters
  pc,             \* where each thread is
  data,           \* the data each thread is appending, <<>> if none
  new_capacity,   \* the local of add_to_log, which only runs under the lock
  dst,            \* the block each thread got from Malloc in get_log
  result_size,    \* the local of get_log
  calls           \* how often add_to_log was called

store == <<buffer, size, capacity>>
counters == <<readers, writers, waiting_writers>>
conds == <<readers_cond, writers_cond>>
locals == <<data, new_capacity, dst, result_size, calls>>
vars == <<store, lock, conds, counters, pc, locals>>

ReaderLabels == {"rLock", "rTest", "rSleep", "rAlloc", "rCopy", "rSize",
                 "rEndLock", "rEnd"}
WriterLabels == {"wLock", "wTest", "wSleep", "wFits", "wDouble", "wCopy",
                 "wCommit", "wEnd"}

NoBlock == <<>>

Init ==
  /\ capacity = InitCapacity /\ size = 0
  /\ buffer = [i \in 0..(InitCapacity - 1) |-> IF i = 0 THEN NUL ELSE Junk]
  /\ lock = Nobody /\ readers_cond = {} /\ writers_cond = {}
  /\ readers = 0 /\ writers = 0 /\ waiting_writers = 0
  /\ pc = [t \in Threads |-> "idle"]
  /\ data = [t \in Threads |-> <<>>]
  /\ new_capacity = 0
  /\ dst = [t \in Threads |-> NoBlock]
  /\ result_size = [t \in Threads |-> 0]
  /\ calls = 0

-----------------------------------------------------------------------------
(* pthread and heap primitives                                             *)

At(t, label) == pc[t] = label
Goto(t, label) == pc' = [pc EXCEPT ![t] = label]

Acquire(t) == lock = Nobody /\ lock' = t
Release(t) == lock = t /\ lock' = Nobody

(* The sets of sleepers a signal may leave: one sleeper fewer if any.      *)
Signal(sleepers) ==
  IF sleepers = {} THEN {{}} ELSE {sleepers \ {t} : t \in sleepers}

(* The byte at an offset of a block, Junk outside of it.                   *)
ByteAt(block, i) == IF i \in DOMAIN block THEN block[i] ELSE Junk

-----------------------------------------------------------------------------
(* get_log                                                                 *)

GetLog(t) ==
  /\ At(t, "idle")
  /\ Goto(t, "rLock")
  /\ UNCHANGED <<store, lock, conds, counters, locals>>

StartReadLock(t) ==
  /\ At(t, "rLock")
  /\ Acquire(t)
  /\ Goto(t, "rTest")
  /\ UNCHANGED <<store, conds, counters, locals>>

StartReadWait(t) ==
  /\ At(t, "rTest")
  /\ writers > 0 \/ waiting_writers > 0
  /\ Release(t)
  /\ readers_cond' = readers_cond \cup {t}
  /\ Goto(t, "rSleep")
  /\ UNCHANGED <<store, writers_cond, counters, locals>>

StartReadWake(t) ==
  /\ At(t, "rSleep")
  /\ t \notin readers_cond
  /\ Acquire(t)
  /\ Goto(t, "rTest")
  /\ UNCHANGED <<store, conds, counters, locals>>

\* MUTANT of StartRead: the reader does not count itself.
StartReadUncounted(t) ==
  /\ At(t, "rTest")
  /\ ~ (writers > 0 \/ waiting_writers > 0)
  /\ Release(t)
  /\ Goto(t, "rAlloc")
  /\ UNCHANGED <<store, conds, counters, locals>>

\* MUTANT of StartRead: a waiting writer does not hold new readers back.
StartReadGreedily(t) ==
  /\ At(t, "rTest")
  /\ writers = 0
  /\ readers' = readers + 1
  /\ Release(t)
  /\ Goto(t, "rAlloc")
  /\ UNCHANGED <<store, conds, writers, waiting_writers, locals>>

StartRead(t) ==
  /\ At(t, "rTest")
  /\ ~ (writers > 0 \/ waiting_writers > 0)
  /\ readers' = readers + 1
  /\ Release(t)
  /\ Goto(t, "rAlloc")
  /\ UNCHANGED <<store, conds, writers, waiting_writers, locals>>

AllocSnapshot(t) ==
  /\ At(t, "rAlloc")
  /\ dst' = [dst EXCEPT ![t] = [i \in 0..size |-> Junk]]
  /\ Goto(t, "rCopy")
  /\ UNCHANGED <<store, lock, conds, counters, data, new_capacity, result_size, calls>>

CopySnapshot(t) ==
  /\ At(t, "rCopy")
  /\ dst' = [dst EXCEPT ![t] = [i \in 0..size |-> ByteAt(buffer, i)]]
  /\ Goto(t, "rSize")
  /\ UNCHANGED <<store, lock, conds, counters, data, new_capacity, result_size, calls>>

SizeSnapshot(t) ==
  /\ At(t, "rSize")
  /\ result_size' = [result_size EXCEPT ![t] = size]
  /\ Goto(t, "rEndLock")
  /\ UNCHANGED <<store, lock, conds, counters, data, new_capacity, dst, calls>>

EndReadLock(t) ==
  /\ At(t, "rEndLock")
  /\ Acquire(t)
  /\ Goto(t, "rEnd")
  /\ UNCHANGED <<store, conds, counters, locals>>

\* MUTANT of EndRead: the last reader does not signal.
EndReadSilently(t) ==
  /\ At(t, "rEnd")
  /\ readers' = readers - 1
  /\ Release(t)
  /\ dst' = [dst EXCEPT ![t] = NoBlock]
  /\ result_size' = [result_size EXCEPT ![t] = 0]
  /\ Goto(t, "idle")
  /\ UNCHANGED <<store, conds, writers, waiting_writers, data, new_capacity, calls>>

(* The caller frees the block it got when it has sent it.                  *)
EndRead(t) ==
  /\ At(t, "rEnd")
  /\ readers' = readers - 1
  /\ writers_cond' \in IF readers' = 0 THEN Signal(writers_cond) ELSE {writers_cond}
  /\ Release(t)
  /\ dst' = [dst EXCEPT ![t] = NoBlock]
  /\ result_size' = [result_size EXCEPT ![t] = 0]
  /\ Goto(t, "idle")
  /\ UNCHANGED <<store, readers_cond, writers, waiting_writers, data, new_capacity, calls>>

-----------------------------------------------------------------------------
(* add_to_log                                                              *)

AddToLog(t) ==
  /\ At(t, "idle")
  /\ calls < MaxAppends
  /\ calls' = calls + 1
  /\ \E d \in Entries : data' = [data EXCEPT ![t] = d]
  /\ Goto(t, "wLock")
  /\ UNCHANGED <<store, lock, conds, counters, new_capacity, dst, result_size>>

StartWriteLock(t) ==
  /\ At(t, "wLock")
  /\ Acquire(t)
  /\ waiting_writers' = waiting_writers + 1
  /\ Goto(t, "wTest")
  /\ UNCHANGED <<store, conds, readers, writers, locals>>

StartWriteWait(t) ==
  /\ At(t, "wTest")
  /\ readers > 0 \/ writers > 0
  /\ Release(t)
  /\ writers_cond' = writers_cond \cup {t}
  /\ Goto(t, "wSleep")
  /\ UNCHANGED <<store, readers_cond, counters, locals>>

StartWriteWake(t) ==
  /\ At(t, "wSleep")
  /\ t \notin writers_cond
  /\ Acquire(t)
  /\ Goto(t, "wTest")
  /\ UNCHANGED <<store, conds, counters, locals>>

\* MUTANT of StartWrite: the writer still counts as waiting.
StartWriteStillWaiting(t) ==
  /\ At(t, "wTest")
  /\ ~ (readers > 0 \/ writers > 0)
  /\ writers' = 1
  /\ Goto(t, "wFits")
  /\ UNCHANGED <<store, lock, conds, readers, waiting_writers, locals>>

\* MUTANT of StartWrite: the writer does not wait for the readers.
StartWriteAmongReaders(t) ==
  /\ At(t, "wTest")
  /\ writers = 0
  /\ waiting_writers' = waiting_writers - 1
  /\ writers' = 1
  /\ Goto(t, "wFits")
  /\ UNCHANGED <<store, lock, conds, readers, locals>>

(* The lock is kept.                                                       *)
StartWrite(t) ==
  /\ At(t, "wTest")
  /\ ~ (readers > 0 \/ writers > 0)
  /\ waiting_writers' = waiting_writers - 1
  /\ writers' = 1
  /\ Goto(t, "wFits")
  /\ UNCHANGED <<store, lock, conds, readers, locals>>

\* MUTANT of Needed: the terminator is forgotten.
NeededWithoutTerminator(t) == size + Len(data[t])

(* Room for the entry and the terminator.                                  *)
Needed(t) == size + Len(data[t]) + 1

TestCapacity(t) ==
  /\ At(t, "wFits")
  /\ \/ /\ Needed(t) >= capacity
        /\ new_capacity' = capacity * 2
        /\ Goto(t, "wDouble")
     \/ /\ Needed(t) < capacity
        /\ Goto(t, "wCopy")
        /\ UNCHANGED new_capacity
  /\ UNCHANGED <<store, lock, conds, counters, data, dst, result_size, calls>>

DoubleCapacity(t) ==
  /\ At(t, "wDouble")
  /\ new_capacity < Needed(t)
  /\ new_capacity' = new_capacity * 2
  /\ UNCHANGED <<store, lock, conds, counters, pc, data, dst, result_size, calls>>

\* MUTANT of Grow: the old content is not copied.
GrowEmpty(t) ==
  /\ At(t, "wDouble")
  /\ new_capacity >= Needed(t)
  /\ buffer' = [i \in 0..(new_capacity - 1) |-> Junk]
  /\ capacity' = new_capacity
  /\ Goto(t, "wCopy")
  /\ UNCHANGED <<size, lock, conds, counters, locals>>

(* Only size bytes are copied: the terminator is not.                      *)
Grow(t) ==
  /\ At(t, "wDouble")
  /\ new_capacity >= Needed(t)
  /\ buffer' = [i \in 0..(new_capacity - 1) |->
                  IF i < size THEN ByteAt(buffer, i) ELSE Junk]
  /\ capacity' = new_capacity
  /\ Goto(t, "wCopy")
  /\ UNCHANGED <<size, lock, conds, counters, locals>>

CopyEntry(t) ==
  /\ At(t, "wCopy")
  /\ buffer' = [i \in DOMAIN buffer |->
                  IF i \in size..(size + Len(data[t]) - 1)
                  THEN data[t][i - size + 1] ELSE buffer[i]]
  /\ Goto(t, "wCommit")
  /\ UNCHANGED <<size, capacity, lock, conds, counters, locals>>

\* MUTANT of CommitEntry: the text is not terminated.
CommitUnterminated(t) ==
  /\ At(t, "wCommit")
  /\ size' = size + Len(data[t])
  /\ data' = [data EXCEPT ![t] = <<>>]
  /\ new_capacity' = 0
  /\ Goto(t, "wEnd")
  /\ UNCHANGED <<buffer, capacity, lock, conds, counters, dst, result_size, calls>>

CommitEntry(t) ==
  /\ At(t, "wCommit")
  /\ size' = size + Len(data[t])
  /\ buffer' = [buffer EXCEPT ![size'] = NUL]
  /\ data' = [data EXCEPT ![t] = <<>>]
  /\ new_capacity' = 0
  /\ Goto(t, "wEnd")
  /\ UNCHANGED <<capacity, lock, conds, counters, dst, result_size, calls>>

\* MUTANT of EndWrite: the readers are not woken.
EndWriteSilently(t) ==
  /\ At(t, "wEnd")
  /\ writers' = 0
  /\ IF waiting_writers > 0 THEN writers_cond' \in Signal(writers_cond)
                            ELSE UNCHANGED writers_cond
  /\ Release(t)
  /\ Goto(t, "idle")
  /\ UNCHANGED <<store, readers_cond, readers, waiting_writers, locals>>

EndWrite(t) ==
  /\ At(t, "wEnd")
  /\ writers' = 0
  /\ \/ /\ waiting_writers > 0
        /\ writers_cond' \in Signal(writers_cond)
        /\ UNCHANGED readers_cond
     \/ /\ waiting_writers = 0
        /\ readers_cond' = {}
        /\ UNCHANGED writers_cond
  /\ Release(t)
  /\ Goto(t, "idle")
  /\ UNCHANGED <<store, readers, waiting_writers, locals>>

(* POSIX lets pthread_cond_wait return without a signal.                   *)
SpuriousWake ==
  /\ \E t \in readers_cond \cup writers_cond :
       readers_cond' = readers_cond \ {t} /\ writers_cond' = writers_cond \ {t}
  /\ UNCHANGED <<store, lock, counters, pc, locals>>

-----------------------------------------------------------------------------
ReadStep(t) ==
  \/ StartReadLock(t) \/ StartReadWait(t) \/ StartReadWake(t) \/ StartRead(t)
  \/ AllocSnapshot(t) \/ CopySnapshot(t) \/ SizeSnapshot(t)
  \/ EndReadLock(t) \/ EndRead(t)

WriteStep(t) ==
  \/ StartWriteLock(t) \/ StartWriteWait(t) \/ StartWriteWake(t) \/ StartWrite(t)
  \/ TestCapacity(t) \/ DoubleCapacity(t) \/ Grow(t)
  \/ CopyEntry(t) \/ CommitEntry(t) \/ EndWrite(t)

Next == \/ \E t \in Threads : \/ GetLog(t) \/ ReadStep(t)
                              \/ AddToLog(t) \/ WriteStep(t)
        \/ SpuriousWake

Spec == Init /\ [][Next]_vars

(* The steps that compete for the lock.                                    *)
LockStep(t) == \/ StartReadLock(t) \/ StartReadWake(t) \/ EndReadLock(t)
               \/ StartWriteLock(t) \/ StartWriteWake(t)

(* A thread that can run eventually runs, and one that keeps finding the   *)
(* lock free eventually gets it.  Nobody has to call get_log or add_to_log.*)
Fairness ==
  \A t \in Threads : WF_vars(ReadStep(t) \/ WriteStep(t)) /\ SF_vars(LockStep(t))

FairSpec == Spec /\ Fairness

-----------------------------------------------------------------------------
(* What the state means                                                    *)

Reading == {t \in Threads : pc[t] \in {"rAlloc", "rCopy", "rSize", "rEndLock", "rEnd"}}
Writing == {t \in Threads : pc[t] \in {"wFits", "wDouble", "wCopy", "wCommit", "wEnd"}}
WaitingToWrite == {t \in Threads : pc[t] \in {"wTest", "wSleep"}}

Contents == [i \in 1..size |-> buffer[i - 1]]
Snapshot(t) == [i \in 1..result_size[t] |-> ByteAt(dst[t], i - 1)]

-----------------------------------------------------------------------------
(* Properties                                                              *)

(* Every variable keeps its type, and the buffer is a block of capacity    *)
(* bytes.                                                                  *)
TypeOK ==
  /\ size \in Nat /\ capacity \in Nat \ {0} /\ new_capacity \in Nat
  /\ buffer \in [0..(capacity - 1) -> Bytes \cup {NUL, Junk}]
  /\ lock \in Threads \cup {Nobody}
  /\ readers_cond \subseteq Threads /\ writers_cond \subseteq Threads
  /\ readers \in Nat /\ writers \in {0, 1} /\ waiting_writers \in Nat
  /\ pc \in [Threads -> {"idle"} \cup ReaderLabels \cup WriterLabels]
  /\ data \in [Threads -> Entries \cup {<<>>}]
  /\ DOMAIN dst = Threads
  /\ result_size \in [Threads -> Nat]
  /\ calls \in 0..MaxAppends

(* The counters say who is inside (each of them is touched by two          *)
(* functions and survives a wait), and a writer is alone inside.           *)
ReadersXorWriter ==
  /\ readers = Cardinality(Reading)
  /\ writers = Cardinality(Writing)
  /\ waiting_writers = Cardinality(WaitingToWrite)
  /\ Writing # {} => Reading = {}

(* add_to_log never writes past the block it grew, the terminator included,*)
(* and between two writes the text in the buffer ends at size with the     *)
(* only NUL, although growing does not copy the old one.                   *)
EntryFits ==
  \A t \in Threads : At(t, "wCopy") \/ At(t, "wCommit") => size + Len(data[t]) < capacity
TextTerminated ==
  Writing = {} => /\ size < capacity /\ buffer[size] = NUL
                  /\ \A i \in 0..(size - 1) : buffer[i] \in Bytes

(* A reader that read size three times without the lock got one log: the   *)
(* block, its terminator and the length it returns are all of the log as   *)
(* it still is when the reader leaves.                                     *)
SnapshotWhole ==
  \A t \in Threads :
    pc[t] \in {"rEndLock", "rEnd"} =>
      /\ result_size[t] = size
      /\ DOMAIN dst[t] = 0..size
      /\ Snapshot(t) = Contents
      /\ dst[t][size] = NUL

(* No lost wakeup: a sleeping writer has a reader inside, who will signal  *)
(* when the last one leaves, or another writer ahead of it that is awake   *)
(* and will pass the signal on; a sleeping reader has a writer to wait for.*)
WritersGetWoken ==
  writers_cond # {} =>
    \/ readers > 0 \/ Writing # {}
    \/ \E t \in WaitingToWrite : t \notin writers_cond
ReadersGetWoken ==
  readers_cond # {} => waiting_writers > 0 \/ writers > 0
SleepersGetWoken == WritersGetWoken /\ ReadersGetWoken

(* The inductive invariant behind these: the lock is held exactly inside   *)
(* the critical sections, of which a write is one.                         *)
InSection(t) == t \in Writing \/ pc[t] \in {"rTest", "rEnd", "wTest"}
LockOwned == \A t \in Threads : InSection(t) <=> lock = t
SleepersWait == /\ \A t \in readers_cond : pc[t] = "rSleep"
                /\ \A t \in writers_cond : pc[t] = "wSleep"

LockInv ==
  /\ TypeOK /\ LockOwned /\ SleepersWait /\ ReadersXorWriter /\ EntryFits
  /\ WritersGetWoken /\ ReadersGetWoken

(* The inductive invariant behind the text.  While an entry is written the *)
(* NUL at size may be gone, but the entry is in place before size moves,   *)
(* and a reader's block stays a copy of the buffer because nobody writes   *)
(* while it is inside.                                                     *)
TextInBuffer == size < capacity /\ \A i \in 0..(size - 1) : buffer[i] \in Bytes
NulKept ==
  (\A t \in Threads : ~ At(t, "wCopy") /\ ~ At(t, "wCommit")) => buffer[size] = NUL
EntryCopied ==
  \A t \in Threads : At(t, "wCommit") =>
    \A i \in 1..Len(data[t]) : buffer[size + i - 1] = data[t][i]
EntryHeld ==
  \A t \in Threads : data[t] = <<>> <=> pc[t] \notin WriterLabels \ {"wEnd"}
SnapshotTaken ==
  \A t \in Threads :
    /\ pc[t] \in {"rSize", "rEndLock", "rEnd"} => dst[t] = [i \in 0..size |-> buffer[i]]
    /\ pc[t] \in {"rEndLock", "rEnd"} => result_size[t] = size

TextInv ==
  /\ LockInv
  /\ TextInBuffer /\ NulKept /\ EntryCopied /\ EntryHeld /\ SnapshotTaken

(* add_to_log returns even if other threads call get_log forever: a waiting*)
(* writer holds new readers back (log.h: "Writers must have priority").    *)
AddToLogReturns ==
  \A t \in Threads : (pc[t] \in WriterLabels) ~> At(t, "idle")

(* get_log returns once the writers stop coming.                           *)
GetLogReturns ==
  \A t \in Threads : (pc[t] \in ReaderLabels) ~> At(t, "idle")

(* The log implements the atomic log: an entry appears whole when its      *)
(* writer commits it, and a reader's result is the log at one moment.      *)
Atomic == INSTANCE AtomicLog WITH
  log <- Contents, NoView <- Nobody,
  todo <- data,
  view <- [t \in Threads |->
             IF pc[t] \in {"rEndLock", "rEnd"} THEN Snapshot(t) ELSE Nobody]

ImplementsAtomicLog == Atomic!Spec
=============================================================================
