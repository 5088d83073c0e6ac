---------------------------- MODULE MCLogPriority ---------------------------
(* LogPriority for TLC: one-byte entries, the content does not matter here.*)
EXTENDS LogPriority, TLC

CONSTANT a

MCBytes == {a}
MCEntries == {<<a>>}
=============================================================================
