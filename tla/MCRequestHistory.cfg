\* Two workers, three connections, every kind of request.
CONSTANTS
  Workers = {w1, w2}
  Requests = {"nothing", "silent", "cut", "missing", "forbidden", "empty", "gone", "deaf", "static", "cgi", "post", "other"}
  MaxConns = 3
SPECIFICATION HistorySpec
SYMMETRY WorkerSymmetry
INVARIANTS
  TypeOK
  CountersAccurate
  ClosedIsLogged
  LogFollowsResponses
  PostShowsClosedGets
  LogInRealTime
CHECK_DEADLOCK FALSE
