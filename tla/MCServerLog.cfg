\* Three threads mixing reads and appends; the long entry makes the doubling
\* loop go round.
CONSTANTS
  Threads = {t1, t2, t3}
  Nobody = nobody
  NUL = nul
  Junk = junk
  a = a
  b = b
  Bytes <- MCBytes
  Entries <- MCEntries
  InitCapacity = 3
  MaxAppends = 3
SPECIFICATION FairSpec
INVARIANTS
  TypeOK
  ReadersXorWriter
  EntryFits
  TextTerminated
  SnapshotWhole
  SleepersGetWoken
PROPERTIES
  AddToLogReturns
  GetLogReturns
  ImplementsAtomicLog
