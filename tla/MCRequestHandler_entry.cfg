CONSTANTS
  Workers = {w1, w2}
  Requests = {"nothing", "silent", "cut", "missing", "forbidden", "empty", "gone", "deaf", "static", "cgi", "post", "other"}
  MaxConns = 3
SPECIFICATION Spec
INVARIANTS
  EntryMatchesResponse
CHECK_DEADLOCK FALSE
