----------------------------- MODULE MCServerLog ----------------------------
(* ServerLog for TLC.  The long entry overflows a doubled buffer, so the   *)
(* doubling loop goes round; the short one fits or grows once.             *)
EXTENDS ServerLog

CONSTANTS a, b

MCBytes == {a, b}
MCEntries == {<<a>>, <<b, a, b, a, b>>}
=============================================================================
