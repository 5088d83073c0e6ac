CONSTANTS
  Threads = {t1, t2, t3}
  Nobody = nobody
  NUL = nul
  Junk = junk
  a = a
  Bytes <- MCBytes
  Entries <- MCEntries
  InitCapacity = 4
  MaxAppends = 2
SPECIFICATION HistorySpec
PROPERTIES
  BlockedWritersFirst
