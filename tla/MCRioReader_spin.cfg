CONSTANTS
  x = x
  CR = cr
  LF = lf
  Streams <- Truncated
  BufSize = 3
  MaxLine = 6
SPECIFICATION FairSpec
PROPERTIES
  NoBusyWaiting
CHECK_DEADLOCK FALSE
