--------------------------- MODULE AdmissionQueue ---------------------------
(***************************************************************************)
(* What the server's request queue promises, without threads, locks or a   *)
(* ring: connections, numbered in the order in which they were accepted,   *)
(* are admitted one by one, wait in that order, are dispatched oldest      *)
(* first to at most as many places as there are workers, and leave.  The   *)
(* connections that wait and the ones being served never exceed Capacity.  *)
(***************************************************************************)
EXTENDS Naturals, Sequences, FiniteSets

CONSTANTS
  Places,     \* how many connections can be served at once
  Capacity,   \* how many connections may be admitted and not yet completed
  MaxConns    \* bound on the number of connections of a behaviour

VARIABLES
  admitted,   \* how many connections were admitted so far
  waiting,    \* the admitted connections nobody serves yet, oldest first
  serving     \* the connections being served

vars == <<admitted, waiting, serving>>

Init == admitted = 0 /\ waiting = <<>> /\ serving = {}

Admit ==
  /\ admitted < MaxConns
  /\ Len(waiting) + Cardinality(serving) < Capacity
  /\ admitted' = admitted + 1
  /\ waiting' = Append(waiting, admitted + 1)
  /\ UNCHANGED serving

Dispatch ==
  /\ waiting # <<>>
  /\ Cardinality(serving) < Places
  /\ waiting' = Tail(waiting)
  /\ serving' = serving \cup {Head(waiting)}
  /\ UNCHANGED admitted

Complete(c) ==
  /\ c \in serving
  /\ serving' = serving \ {c}
  /\ UNCHANGED <<admitted, waiting>>

Next == Admit \/ Dispatch \/ \E c \in 1..MaxConns : Complete(c)

(* Nobody has to connect, so Admit carries no fairness.                    *)
Spec == /\ Init /\ [][Next]_vars
        /\ WF_vars(Dispatch)
        /\ \A c \in 1..MaxConns : WF_vars(Complete(c))
=============================================================================
