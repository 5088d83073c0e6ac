--------------------------- MODULE RequestHistory ---------------------------
(***************************************************************************)
(* RequestHandler with one history variable: for each connection, the      *)
(* connections that were already closed when it was dequeued.              *)
(***************************************************************************)
EXTENDS RequestHandler

VARIABLE before

historyVars == <<vars, before>>

HistoryInit == Init /\ before = [c \in Conns |-> {}]

HistoryNext ==
  /\ Next
  /\ before' = IF taken' = taken THEN before ELSE [before EXCEPT ![taken'] = closed]

HistorySpec == HistoryInit /\ [][HistoryNext]_historyVars

(* "GET appends to log, POST reads log" (hw3_requirement_tests.py), across *)
(* threads: a POST that was dequeued after the connection of a served GET  *)
(* was closed shows the entry of that GET, whichever workers handled them. *)
PostShowsClosedGets ==
  \A p \in closed : request[p] = "post" =>
    \A c \in before[p] : request[c] \in {"static", "cgi"} =>
      \E i \in DOMAIN response[p] : i > StatPos(p) /\ response[p][i] = StatOf(c)

(* The log is in an order that clients can confirm: of two served GETs, one*)
(* of which was dequeued after the other's connection was closed, the first*)
(* stands first in the log, whichever workers handled them.                *)
LogInRealTime ==
  \A i, j \in DOMAIN log :
    IsStat(log, i) /\ IsStat(log, j) /\ log[i].conn \in before[log[j].conn] => i < j

-----------------------------------------------------------------------------
(* The inductive invariant behind both, with that of RequestHandler.       *)

BeforeClosed ==
  /\ before \in [Conns -> SUBSET Conns]
  /\ \A c \in Conns : before[c] \subseteq closed

(* The served GETs a POST has to show, and a text that shows them.         *)
ToShow(p) == {c \in before[p] : request[c] \in {"static", "cgi"}}
Shows(text, from, p) == \A c \in ToShow(p) : \E i \in DOMAIN text : i > from /\ text[i] = StatOf(c)

PostsShow ==
  /\ \A w \in Workers : pc[w] = "servePost" => Shows(body[w], 0, conn[w])
  /\ \A p \in Conns : Over(p) /\ request[p] = "post" => Shows(response[p], StatPos(p), p)

HistoryInv == BeforeClosed /\ PostsShow /\ LogInRealTime
=============================================================================
