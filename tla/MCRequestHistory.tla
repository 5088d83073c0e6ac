-------------------------- MODULE MCRequestHistory --------------------------
(* RequestHistory for TLC.                                                 *)
EXTENDS RequestHistory, TLC

WorkerSymmetry == Permutations(Workers)
=============================================================================
