----------------------------- MODULE MCExchange -----------------------------
(* Exchange for TLC: x stands for every character of no interest, and the  *)
(* client reads lines of at most three characters.  A response of a header,*)
(* the blank line and an empty body, like the POST of an empty log; and one*)
(* with a header line that is cut, so that its end passes for the blank    *)
(* line and the blank line for one of the body, which has a NUL.           *)
EXTENDS Exchange

CONSTANT x

MCResponses == {
  << <<x, LF, CR, LF>>, <<>> >>,
  << <<x, x, x, CR, LF, CR, LF>>, <<NUL, LF>> >> }
=============================================================================
