\* More workers than slots: workers compete and several sleep, main waits for
\* room, and the connections go round the ring three times.
CONSTANTS
  Workers = {w1, w2, w3}
  Main = main
  Nobody = nobody
  Capacity = 2
  MaxConns = 6
SPECIFICATION FairSpec
INVARIANTS
  TypeOK
  PendingAndActiveBounded
  RingHoldsPending
  OpenConnectionsOwned
  WorkConserving
  RoomWakesMain
  EnqueueNeverWaits
PROPERTIES
  AcceptedIsClosed
  ImplementsAdmission
