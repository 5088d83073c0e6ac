\* Two clients and their workers, a socket that holds less than a text.
CONSTANTS
  Clients = {c1, c2}
  x = x
  CR = cr
  LF = lf
  Responses <- MCResponses
  NUL = nul
  MaxLine = 4
  SockBuf = 2
SPECIFICATION FairSpec
INVARIANTS
  ResponseInOrder
  PrintedIsWhole
PROPERTIES
  GetIsPrinted
CHECK_DEADLOCK FALSE
