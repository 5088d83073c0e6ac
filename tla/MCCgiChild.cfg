\* Three connections: two scripts and a refused one, and every other mixture.
CONSTANTS
  MaxConns = 3
  Workloads <- MCWorkloads
SPECIFICATION FairSpec
INVARIANTS
  LoggedIsReaped
  OwnTextOnly
PROPERTIES
  NothingAfterEnd
  StoppedFreesWorker
  StreamEnds
CHECK_DEADLOCK FALSE
