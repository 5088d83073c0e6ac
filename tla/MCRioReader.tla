---------------------------- MODULE MCRioReader -----------------------------
(* RioReader for TLC: x stands for every other character.  With MaxLine = 6*)
(* a line of five characters fills the buffer.                             *)
EXTENDS RioReader, TLC

CONSTANT x

(* Requests that end with a blank line: without and with headers, with a   *)
(* newline alone as client.c sends it, with bytes after the blank line,    *)
(* and with a header line longer than the buffer.                          *)
WholeRequests == {
  <<x, LF, CR, LF>>,
  <<x, CR, LF, x, x, LF, CR, LF>>,
  <<x, LF, CR, LF, x, CR, LF>>,
  <<x, LF, x, x, x, x, x, x, LF, CR, LF>> }

(* Streams without a blank line, one of them with a header line that fills *)
(* the buffer exactly.                                                     *)
Truncated == {
  <<>>, <<x>>, <<x, LF>>, <<x, LF, x, CR>>, <<x, LF, x, LF>>,
  <<x, LF, x, x, x, x, x, CR, LF>> }

AllStreams == WholeRequests \cup Truncated
=============================================================================
