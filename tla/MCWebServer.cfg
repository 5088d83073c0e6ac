\* As many places as lost workers may take, and connections that come after.
CONSTANTS
  Workers = {w1, w2}
  Requests = {"nothing", "silent", "cut", "deaf", "gone", "cgi"}
  MaxConns = 4
  Capacity = 2
SPECIFICATION ServerSpec
INVARIANTS
  PlacesAreHeld
PROPERTIES
  OneWorkerIsEnough
CHECK_DEADLOCK FALSE
