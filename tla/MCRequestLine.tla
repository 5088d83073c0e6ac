---------------------------- MODULE MCRequestLine ---------------------------
(* RequestLine for TLC: every URI of up to four symbols, and the one that  *)
(* has them all.                                                           *)
EXTENDS RequestLine

Symbols == {"/", "?", ".", "cgi", "html"}
MCUris == UNION {[1..n -> Symbols] : n \in 1..4}
            \cup {<<"/", "cgi", ".", "cgi", "?", "/", "?">>, <<"/", "cgi", ".", "gif">>}
=============================================================================
