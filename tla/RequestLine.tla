---------------------------- MODULE RequestLine -----------------------------
(***************************************************************************)
(* What one worker makes of the request lines it reads: the sscanf of      *)
(* requestHandle, requestParseURI and requestGetFiletype (src/request.c).  *)
(*                                                                         *)
(* A line is a sequence of words, a method and a URI the first two of them;*)
(* a URI or file name is a sequence of symbols, a symbol being a character *)
(* or a run of letters.  method and uri are local arrays nobody initialises*)
(* and every call of requestHandle has them at the same place of the       *)
(* thread's stack, deeper than anything else the thread calls in between   *)
(* reaches (in request.o, uri is 40 KiB down): a line with too few words   *)
(* leaves there what the request before it left.                           *)
(***************************************************************************)
EXTENDS Naturals, Sequences, SequencesExt

CONSTANT Uris   \* the URIs clients send

ASSUME UrisAssumption == \A u \in Uris : u \in Seq(Range(u)) /\ u # <<>>

VARIABLES
  method, uri,   \* the arrays, as the last request left them
  line,          \* the last request line
  asked,         \* the URI parsed for it, its own or the one in the array
  served,        \* the file it asked for, as requestHandle understood it
  unparsed       \* history: no GET parsed the array since a client's URI got there

vars == <<method, uri, line, asked, served, unparsed>>

Public == <<".", "/", "public", "/">>
Home == <<"home", ".", "html">>

(* strstr and index.                                                       *)
Strstr(text, part) ==
  \E i \in 0..(Len(text) - Len(part)) : SubSeq(text, i + 1, i + Len(part)) = part
First(text, symbol) ==
  CHOOSE i \in DOMAIN text : text[i] = symbol /\ \A j \in 1..(i - 1) : text[j] # symbol

Static(file) == [is_static |-> TRUE, filename |-> file, cgiargs |-> <<>>]
Dynamic(file, args) == [is_static |-> FALSE, filename |-> file, cgiargs |-> args]

(* Where the array of an empty URI is asked for its last character, it is  *)
(* the last byte of method before it, which is always 0.                   *)
EndsInSlash(u) == u # <<>> /\ Last(u) = "/"

ParseStatic(u) ==
  IF Strstr(u, <<".", ".">>) THEN Static(Public \o Home)
  ELSE Static(Public \o u \o IF EndsInSlash(u) THEN Home ELSE <<>>)

\* MUTANT of ParseDynamic: the question mark stays in the file name.
ParseKeepingMark(u) ==
  IF Strstr(u, <<"?">>)
  THEN LET q == First(u, "?") IN
         Dynamic(Public \o SubSeq(u, 1, q), SubSeq(u, q + 1, Len(u)))
  ELSE Dynamic(Public \o u, <<>>)

ParseDynamic(u) ==
  IF Strstr(u, <<"?">>)
  THEN LET q == First(u, "?") IN
         Dynamic(Public \o SubSeq(u, 1, q - 1), SubSeq(u, q + 1, Len(u)))
  ELSE Dynamic(Public \o u, <<>>)

RequestParseURI(u) ==
  IF Strstr(u, <<"cgi">>) /\ ~ Strstr(u, <<".", ".">>) THEN ParseDynamic(u) ELSE ParseStatic(u)

\* MUTANT of Remaining: the URI is not cut.
RemainingWhole(u, parsed) == u

(* requestParseURI also cuts the URI of a dynamic request in its array.    *)
Remaining(u, parsed) ==
  IF parsed.is_static THEN u ELSE SubSeq(parsed.filename, Len(Public) + 1, Len(parsed.filename))

RequestGetFiletype(file) ==
  IF Strstr(file, <<".", "html">>) THEN "text/html"
  ELSE IF Strstr(file, <<".", "gif">>) THEN "image/gif"
  ELSE IF Strstr(file, <<".", "jpg">>) THEN "image/jpeg"
  ELSE "text/plain"

Nothing == Static(<<>>)

(* The stack of a new thread is zeros.                                     *)
Init ==
  /\ method = "" /\ uri = <<>>
  /\ line = <<>> /\ asked = <<>> /\ served = Nothing
  /\ unparsed = FALSE

Lines == {<<>>} \cup {<<m>> : m \in {"GET", "POST"}}
                \cup {<<m, u>> : m \in {"GET", "POST"}, u \in Uris}

RequestHandle ==
  /\ line' \in Lines
  /\ asked' = IF Len(line') < 2 THEN uri ELSE line'[2]
  /\ method' = IF line' = <<>> THEN method ELSE line'[1]
  /\ IF method' = "GET"
     THEN /\ served' = RequestParseURI(asked')
          /\ uri' = Remaining(asked', served')
          /\ unparsed' = FALSE
     ELSE /\ served' = Nothing /\ uri' = asked'
          /\ unparsed' = (unparsed \/ Len(line') = 2)

Next == RequestHandle

Spec == Init /\ [][Next]_vars

-----------------------------------------------------------------------------
(* Properties                                                              *)

Path == SubSeq(served.filename, Len(Public) + 1, Len(served.filename))

(* Every file lies below ./public, and of what was asked nothing is lost:  *)
(* the path of a static file, the home.html of a directory, or the path of *)
(* a script with its arguments, however symbols are arranged in the URI,   *)
(* is the URI again; a file with one extension has the type it says.       *)
ServedIsAsked ==
  served # Nothing =>
    /\ IsPrefix(Public, served.filename) /\ ~ Strstr(served.filename, <<".", ".">>)
    /\ ~ Strstr(asked, <<".", ".">>) =>
         IF served.is_static
         THEN Path \in {asked, asked \o Home} /\ ~ IsSuffix(<<"/">>, Path)
         ELSE \/ Path = asked /\ served.cgiargs = <<>> /\ ~ Strstr(asked, <<"?">>)
              \/ /\ Path \o <<"?">> \o served.cgiargs = asked
                 /\ ~ Strstr(Path, <<"?">>)
    /\ \A k \in {"html", "gif"} :
         IsSuffix(<<".", k>>, Path) /\ ~ Strstr(Front(Front(Path)), <<".">>) =>
           RequestGetFiletype(served.filename) = IF k = "gif" THEN "image/gif" ELSE "text/html"

(* Arguments reach one script at most.  A line without a URI of its own is *)
(* served what the array holds; it runs a script with arguments only where *)
(* no GET has used them: those of the URI of a POST, which runs no script, *)
(* sent by whoever had the thread before.                                  *)
ArgsReachOneScript ==
  [][Len(line') < 2 /\ served'.cgiargs # <<>> => unparsed]_vars
=============================================================================
