--------------------------- MODULE MCRequestQueue ---------------------------
(* RequestQueue for TLC.                                                   *)
EXTENDS RequestQueue
=============================================================================
