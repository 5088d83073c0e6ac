\* The smallest queue, and clients that ask for files.
CONSTANTS
  Workers = {w1, w2}
  Requests = {"nothing", "static"}
  MaxConns = 3
  Capacity = 1
SPECIFICATION ServerSpec
INVARIANTS
  AcceptedWithinCapacity
CHECK_DEADLOCK FALSE
