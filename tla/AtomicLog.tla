----------------------------- MODULE AtomicLog ------------------------------
(***************************************************************************)
(* What the server log promises its callers: a sequence of bytes to which  *)
(* a call of add_to_log appends its whole entry at one moment between the  *)
(* call and the return, and of which get_log returns the whole content of  *)
(* one such moment.                                                        *)
(***************************************************************************)
EXTENDS Sequences

CONSTANTS
  Threads,    \* the callers
  Entries,    \* what they append
  NoView      \* the view of a thread that has none

VARIABLES
  log,        \* the bytes appended so far
  todo,       \* the entry each thread is appending, <<>> if none
  view        \* the content each thread got, NoView if none

vars == <<log, todo, view>>

Init == /\ log = <<>>
        /\ todo = [t \in Threads |-> <<>>]
        /\ view = [t \in Threads |-> NoView]

Call(t) ==
  /\ todo[t] = <<>> /\ view[t] = NoView
  /\ \E d \in Entries : todo' = [todo EXCEPT ![t] = d]
  /\ UNCHANGED <<log, view>>

AppendEntry(t) ==
  /\ todo[t] # <<>>
  /\ log' = log \o todo[t]
  /\ todo' = [todo EXCEPT ![t] = <<>>]
  /\ UNCHANGED view

Read(t) ==
  /\ todo[t] = <<>> /\ view[t] = NoView
  /\ view' = [view EXCEPT ![t] = log]
  /\ UNCHANGED <<log, todo>>

Forget(t) ==
  /\ view[t] # NoView
  /\ view' = [view EXCEPT ![t] = NoView]
  /\ UNCHANGED <<log, todo>>

Next == \E t \in Threads : Call(t) \/ AppendEntry(t) \/ Read(t) \/ Forget(t)

(* Every entry handed to add_to_log gets into the log, however many threads*)
(* keep reading it.                                                        *)
Spec == Init /\ [][Next]_vars /\ \A t \in Threads : WF_vars(AppendEntry(t))
=============================================================================
