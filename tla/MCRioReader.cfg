\* Whole and truncated requests, lines shorter and longer than the buffers.
CONSTANTS
  x = x
  CR = cr
  LF = lf
  Streams <- AllStreams
  BufSize = 3
  MaxLine = 6
SPECIFICATION FairSpec
INVARIANTS
  BytesConserved
  LinesAreLines
  HeadersEndAtBlankLine
PROPERTIES
  CompleteRequestIsRead
CHECK_DEADLOCK FALSE
