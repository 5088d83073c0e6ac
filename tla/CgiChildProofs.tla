--------------------------- MODULE CgiChildProofs ---------------------------
(* Proofs about CgiChild, for every number of connections and whatever they*)
(* ask.                                                                    *)
EXTENDS CgiChild, TLAPS

(* A text of a concatenation is a text of one of its parts.                *)
LEMMA PartOf ==
  ASSUME NEW S, NEW s \in Seq(S), NEW t \in Seq(S), NEW i \in DOMAIN (s \o t)
  PROVE  \/ i \in DOMAIN s /\ (s \o t)[i] = s[i]
         \/ \E j \in DOMAIN t : (s \o t)[i] = t[j]
<1>1. s \o t \in Seq(S) /\ i \in 1..(Len(s) + Len(t))
  OBVIOUS
<1>2. CASE i <= Len(s)
  BY <1>1, <1>2
<1>3. CASE i > Len(s)
  <2>1. i - Len(s) \in DOMAIN t /\ (s \o t)[i] = t[i - Len(s)]
    BY <1>1, <1>3
  <2> QED
    BY <2>1
<1> QED
  BY <1>1, <1>2, <1>3

(* The one text a step writes.                                             *)
LEMMA OneText ==
  ASSUME NEW part \in {"error", "head", "page"}, NEW c \in Conns
  PROVE  /\ Text(part, c) \in Texts /\ <<Text(part, c)>> \in Seq(Texts)
         /\ Text(part, c).of = c
         /\ \A j \in DOMAIN <<Text(part, c)>> : <<Text(part, c)>>[j] = Text(part, c)
BY DEF Text, Texts

(* Writing one more text leaves a sequence of texts. *)
LEMMA WriteOne ==
  ASSUME NEW part \in {"error", "head", "page"}, NEW c \in Conns, NEW s \in Seq(Texts)
  PROVE  s \o <<Text(part, c)>> \in Seq(Texts) /\ Append(s, Text(part, c)) \in Seq(Texts)
<1>1. Text(part, c) \in Texts /\ <<Text(part, c)>> \in Seq(Texts)
  BY OneText
<1> QED
  BY <1>1

(* The server is not one of the children, which are numbered by connections. *)
LEMMA ServerIsNoChild == ServerProcess \notin Conns
BY DEF ServerProcess, Conns

(* ChildInv holds before anything is accepted. *)
LEMMA InitChild == Init => ChildInv
<1> SUFFICES ASSUME Init PROVE ChildInv
  OBVIOUS
<1>1. TypeOK
  BY WorkloadsAssumption DEF Init, TypeOK
<1>2. Forked /\ Collected /\ KeptOpen
  BY DEF Init, Forked, Collected, KeptOpen, Live
<1>3. PrintedRefused /\ ForeignFlushed
  BY DEF Init, PrintedRefused, Refused, ForeignFlushed
<1> QED
  BY <1>1, <1>2, <1>3 DEF ChildInv

-----------------------------------------------------------------------------
(* Every step of the server and its children keeps the types. *)
LEMMA ChildTypeStep == ChildInv /\ [Next]_vars => TypeOK'
<1> SUFFICES ASSUME ChildInv, [Next]_vars PROVE TypeOK'
  OBVIOUS
<1>1. TypeOK
  BY DEF ChildInv
<1> USE DEF worker, process, socket, At, Goto, Becomes, Write, Live
<1>2. ASSUME NEW c \in Conns, AcceptConn(c) \/ WorkerStep(c) PROVE TypeOK'
  <2>1. CASE AcceptConn(c)
    BY <1>1, <2>1 DEF AcceptConn, TypeOK
  <2>2. CASE WaitPid(c)
    BY <1>1, <2>2 DEF WaitPid, TypeOK
  <2>3. CASE AddToLog(c)
    BY <1>1, <2>3 DEF AddToLog, TypeOK
  <2>4. CASE CloseConn(c)
    BY <1>1, <2>4 DEF CloseConn, TypeOK
  <2>5. CASE RefuseConn(c)
    <3>1. stdout \in Seq(Texts) /\ got[c] \in Seq(Texts) /\ <<>> \in Seq(Texts)
      BY <1>1 DEF TypeOK
    <3>2. Append(stdout, Text("error", c)) \in Seq(Texts)
      BY <3>1, WriteOne
    <3>3. got[c] \o <<Text("error", c)>> \in Seq(Texts)
      BY <3>1, WriteOne
    <3>4. stdout' \in Seq(Texts)
      BY <2>5, <3>1, <3>2 DEF RefuseConn
    <3> QED
      BY <1>1, <2>5, <3>3, <3>4 DEF RefuseConn, TypeOK
  <2>6. CASE WriteHead(c)
    <3>1. got[c] \o <<Text("head", c)>> \in Seq(Texts)
      <4>1. got[c] \in Seq(Texts)
        BY <1>1 DEF TypeOK
      <4> QED
        BY <4>1, WriteOne
    <3> QED
      BY <1>1, <2>6, <3>1 DEF WriteHead, TypeOK
  <2>7. CASE Fork(c)
    BY <1>1, <2>7 DEF Fork, TypeOK
  <2> QED
    BY <1>2, <2>1, <2>2, <2>3, <2>4, <2>5, <2>6, <2>7 DEF WorkerStep
<1>3. ASSUME NEW c \in Conns, ChildStep(c) \/ Signal(c) PROVE TypeOK'
  <2>1. CASE Exec(c) \/ Exit(c) \/ Signal(c)
    <3>1. Without(c) \in [Conns -> SUBSET (Conns \cup {ServerProcess})]
      BY <1>1 DEF TypeOK, Without
    <3>2. <<>> \in Seq(Texts)
      OBVIOUS
    <3>3. CASE Exec(c)
      BY <1>1, <3>2, <3>3 DEF Exec, TypeOK
    <3>4. CASE Exit(c) \/ Die(c)
      BY <1>1, <3>1, <3>4 DEF Exit, Die, TypeOK
    <3>5. CASE Stop(c) \/ Continue(c)
      BY <1>1, <3>5 DEF Stop, Continue, TypeOK
    <3> QED
      BY <2>1, <3>3, <3>4, <3>5 DEF Signal
  <2>2. CASE ExecFails(c)
    <3>1. Without(c) \in [Conns -> SUBSET (Conns \cup {ServerProcess})]
      BY <1>1 DEF TypeOK, Without
    <3>2. <<>> \in Seq(Texts) /\ got[c] \o copy[c] \in Seq(Texts)
      BY <1>1 DEF TypeOK
    <3> QED
      BY <1>1, <2>2, <3>1, <3>2 DEF ExecFails, TypeOK
  <2>3. CASE Output(c)
    <3>1. got[c] \o <<Text("page", c)>> \in Seq(Texts)
      <4>1. got[c] \in Seq(Texts)
        BY <1>1 DEF TypeOK
      <4> QED
        BY <4>1, WriteOne
    <3> QED
      BY <1>1, <2>3, <3>1 DEF Output, TypeOK
  <2> QED
    BY <1>3, <2>1, <2>2, <2>3 DEF ChildStep
<1>4. CASE ServerExits
  <2>1. Without(ServerProcess) \in [Conns -> SUBSET (Conns \cup {ServerProcess})]
    BY <1>1 DEF TypeOK, Without
  <2>2. <<>> \in Seq(Texts)
    OBVIOUS
  <2> QED
    BY <1>1, <1>4, <2>1, <2>2 DEF ServerExits, TypeOK
<1>5. CASE UNCHANGED vars
  BY <1>1, <1>5 DEF vars, TypeOK
<1> QED
  BY <1>2, <1>3, <1>4, <1>5 DEF Next

-----------------------------------------------------------------------------
(* A child that is collected stays so, and one that was stopped stays in   *)
(* stopped.                                                                *)
LEMMA LifeStep == ChildInv /\ [Next]_vars => Forked' /\ Collected'
<1> SUFFICES ASSUME ChildInv, [Next]_vars PROVE Forked' /\ Collected'
  OBVIOUS
<1>1. TypeOK /\ Forked /\ Collected
  BY DEF ChildInv
<1> USE DEF worker, process, socket, At, Goto, Becomes
<1>2. ASSUME NEW c \in Conns, AcceptConn(c) \/ WorkerStep(c) PROVE Forked' /\ Collected'
  <2>1. CASE AcceptConn(c) \/ RefuseConn(c) \/ WriteHead(c)
    BY <1>1, <2>1 DEF AcceptConn, RefuseConn, WriteHead, TypeOK, Forked, Collected
  <2>2. CASE Fork(c)
    BY <1>1, <2>2 DEF Fork, TypeOK, Forked, Collected
  <2>3. CASE WaitPid(c)
    BY <1>1, <2>3 DEF WaitPid, TypeOK, Forked, Collected
  <2>4. CASE AddToLog(c) \/ CloseConn(c)
    BY <1>1, <2>4 DEF AddToLog, CloseConn, TypeOK, Forked, Collected
  <2> QED
    BY <1>2, <2>1, <2>2, <2>3, <2>4 DEF WorkerStep
<1>3. ASSUME NEW c \in Conns, ChildStep(c) \/ Signal(c) PROVE Forked' /\ Collected'
  <2>1. CASE ChildStep(c)
    BY <1>1, <2>1 DEF ChildStep, Exec, ExecFails, Output, Exit, TypeOK, Forked, Collected
  <2>2. CASE Signal(c)
    BY <1>1, <2>2 DEF Signal, Die, Stop, Continue, TypeOK, Forked, Collected
  <2> QED
    BY <1>3, <2>1, <2>2
<1>4. CASE ServerExits \/ UNCHANGED vars
  BY <1>1, <1>4 DEF ServerExits, vars, Forked, Collected
<1> QED
  BY <1>2, <1>3, <1>4 DEF Next

(* Only the process that ends, or the worker that closes, gives up a       *)
(* descriptor.                                                             *)
LEMMA HolderStep == ChildInv /\ [Next]_vars => KeptOpen'
<1> SUFFICES ASSUME ChildInv, [Next]_vars PROVE KeptOpen'
  OBVIOUS
<1>1. TypeOK /\ Forked /\ KeptOpen
  BY DEF ChildInv
<1> USE ServerIsNoChild DEF worker, process, socket, At, Goto, Becomes
<1>2. ASSUME NEW c \in Conns, AcceptConn(c) \/ WorkerStep(c) PROVE KeptOpen'
  <2>1. CASE AcceptConn(c)
    BY <1>1, <2>1 DEF AcceptConn, TypeOK, Forked, KeptOpen, Live
  <2>2. CASE RefuseConn(c) \/ WriteHead(c) \/ AddToLog(c)
    BY <1>1, <2>2 DEF RefuseConn, WriteHead, AddToLog, TypeOK, KeptOpen
  <2>3. CASE Fork(c)
    BY <1>1, <2>3 DEF Fork, TypeOK, KeptOpen
  <2>4. CASE WaitPid(c)
    BY <1>1, <2>4 DEF WaitPid, TypeOK, KeptOpen, Live
  <2>5. CASE CloseConn(c)
    BY <1>1, <2>5 DEF CloseConn, TypeOK, KeptOpen
  <2> QED
    BY <1>2, <2>1, <2>2, <2>3, <2>4, <2>5 DEF WorkerStep
<1>3. ASSUME NEW c \in Conns, ChildStep(c) \/ Signal(c) PROVE KeptOpen'
  <2>1. CASE Exec(c) \/ Output(c) \/ Stop(c) \/ Continue(c)
    BY <1>1, <2>1 DEF Exec, Output, Stop, Continue, TypeOK, KeptOpen, Live
  <2>2. CASE ExecFails(c) \/ Exit(c) \/ Die(c)
    <3>1. /\ \A d \in Conns : holders'[d] = holders[d] \ {c}
          /\ child' = [child EXCEPT ![c] = "gone"] /\ pc' = pc /\ alive' = alive
      BY <2>2 DEF ExecFails, Exit, Die, Without
    <3>2. \A d \in Conns : child'[d] \in Live => d # c /\ child'[d] = child[d]
      BY <1>1, <3>1 DEF TypeOK, Live
    <3> QED
      BY <1>1, <3>1, <3>2 DEF KeptOpen
  <2> QED
    BY <1>3, <2>1, <2>2 DEF ChildStep, Signal
<1>4. CASE ServerExits \/ UNCHANGED vars
  BY <1>1, <1>4 DEF ServerExits, vars, Without, TypeOK, KeptOpen
<1> QED
  BY <1>2, <1>3, <1>4 DEF Next

-----------------------------------------------------------------------------
(* Only answers to refused requests are printed, so a copy of stdio's      *)
(* buffer holds nothing else.                                              *)
LEMMA PrintedStep == ChildInv /\ [Next]_vars => PrintedRefused'
<1> SUFFICES ASSUME ChildInv, [Next]_vars PROVE PrintedRefused'
  OBVIOUS
<1>1. TypeOK /\ PrintedRefused
  BY DEF ChildInv
<1> USE DEF worker, process, socket, At, Goto, Becomes
<1>2. request' = request
  BY DEF Next, AcceptConn, WorkerStep, RefuseConn, WriteHead, Fork, WaitPid, AddToLog, CloseConn,
         ChildStep, Exec, ExecFails, Output, Exit, Signal, Die, Stop, Continue, ServerExits, vars
<1>3. Refused(<<>>)' 
  BY DEF Refused
<1>4. ASSUME NEW c \in Conns, AcceptConn(c) \/ WorkerStep(c) PROVE PrintedRefused'
  <2>1. CASE AcceptConn(c) \/ WriteHead(c) \/ WaitPid(c) \/ AddToLog(c) \/ CloseConn(c)
    BY <1>1, <1>2, <2>1
       DEF AcceptConn, WriteHead, WaitPid, AddToLog, CloseConn, PrintedRefused, Refused
  <2>2. CASE RefuseConn(c)
    <3>1. Refused(Append(stdout, Text("error", c)))'
      <4>1. \A i \in DOMAIN Append(stdout, Text("error", c)) :
              request[Append(stdout, Text("error", c))[i].of] = "refused"
        BY <1>1, <2>2, OneText DEF RefuseConn, PrintedRefused, Refused, TypeOK
      <4> QED
        BY <1>2, <2>2, <4>1 DEF Refused, RefuseConn, Text
    <3> QED
      BY <1>1, <1>2, <1>3, <2>2, <3>1 DEF RefuseConn, PrintedRefused, Refused
  <2>3. CASE Fork(c)
    BY <1>1, <1>2, <2>3 DEF Fork, PrintedRefused, Refused, TypeOK
  <2> QED
    BY <1>4, <2>1, <2>2, <2>3 DEF WorkerStep
<1>5. ASSUME NEW c \in Conns, ChildStep(c) \/ Signal(c) PROVE PrintedRefused'
  <2>1. CASE Exec(c) \/ ExecFails(c)
    <3>1. stdout' = stdout /\ copy' = [copy EXCEPT ![c] = <<>>]
      BY <2>1 DEF Exec, ExecFails
    <3>2. \A d \in Conns : copy'[d] = <<>> \/ copy'[d] = copy[d]
      BY <1>1, <3>1 DEF TypeOK
    <3> QED
      BY <1>1, <1>2, <3>1, <3>2 DEF PrintedRefused, Refused
  <2>2. CASE Output(c) \/ Exit(c) \/ Signal(c)
    BY <1>1, <1>2, <2>2 DEF Output, Exit, Signal, Die, Stop, Continue, PrintedRefused, Refused
  <2> QED
    BY <1>5, <2>1, <2>2 DEF ChildStep
<1>6. CASE ServerExits \/ UNCHANGED vars
  BY <1>1, <1>2, <1>6 DEF ServerExits, vars, PrintedRefused, Refused
<1> QED
  BY <1>4, <1>5, <1>6 DEF Next

(* A connection is written its own texts, except where the child that could*)
(* not execute its script flushes its copy; that child is gone then.       *)
LEMMA TextsStep == ChildInv /\ [Next]_vars => ForeignFlushed'
<1> SUFFICES ASSUME ChildInv, [Next]_vars PROVE ForeignFlushed'
  OBVIOUS
<1>1. TypeOK /\ Forked /\ PrintedRefused /\ ForeignFlushed
  BY DEF ChildInv
<1> USE DEF worker, process, socket, At, Goto, Becomes, Write
<1>2. ASSUME UNCHANGED <<request, got>>,
             \A c \in Conns : child[c] \in {"gone", "reaped"} => child'[c] \in {"gone", "reaped"}
      PROVE  ForeignFlushed'
  BY <1>1, <1>2 DEF ForeignFlushed
<1>3. ASSUME NEW c \in Conns, NEW part \in {"error", "head", "page"},
             Write(c, <<Text(part, c)>>), UNCHANGED request,
             \A d \in Conns : child[d] \in {"gone", "reaped"} => child'[d] \in {"gone", "reaped"}
      PROVE  ForeignFlushed'
  <2> SUFFICES ASSUME NEW d \in Conns, NEW i \in DOMAIN got'[d], got'[d][i].of # d
               PROVE  /\ request[d] = "broken" /\ child'[d] \in {"gone", "reaped"}
                      /\ request[got'[d][i].of] = "refused"
    BY <1>3 DEF ForeignFlushed
  <2>1. i \in DOMAIN got[d] /\ got'[d][i] = got[d][i]
    <3>1. CASE d # c
      BY <1>1, <1>3, <3>1 DEF TypeOK
    <3>2. CASE d = c
      <4>1. got[c] \in Seq(Texts) /\ got'[c] = got[c] \o <<Text(part, c)>>
        BY <1>1, <1>3 DEF TypeOK
      <4>2. \A j \in DOMAIN <<Text(part, c)>> : <<Text(part, c)>>[j].of = c
        BY OneText
      <4> QED
        BY <3>2, <4>1, <4>2, OneText, PartOf
    <3> QED
      BY <3>1, <3>2
  <2> QED
    BY <1>1, <1>3, <2>1 DEF ForeignFlushed
<1>4. ASSUME NEW c \in Conns, AcceptConn(c) \/ WorkerStep(c) PROVE ForeignFlushed'
  <2>1. CASE AcceptConn(c) \/ AddToLog(c) \/ CloseConn(c)
    BY <1>2, <2>1 DEF AcceptConn, AddToLog, CloseConn
  <2>2. CASE RefuseConn(c) \/ WriteHead(c)
    BY <1>3, <2>2 DEF RefuseConn, WriteHead
  <2>3. CASE Fork(c) \/ WaitPid(c)
    BY <1>1, <1>2, <2>3 DEF Fork, WaitPid, Forked, TypeOK
  <2> QED
    BY <1>4, <2>1, <2>2, <2>3 DEF WorkerStep
<1>5. ASSUME NEW c \in Conns, ChildStep(c) \/ Signal(c) PROVE ForeignFlushed'
  <2>1. CASE Exec(c) \/ Exit(c) \/ Signal(c)
    BY <1>1, <1>2, <2>1 DEF Exec, Exit, Signal, Die, Stop, Continue, TypeOK
  <2>2. CASE Output(c)
    <3>1. \A d \in Conns : child[d] \in {"gone", "reaped"} => child'[d] \in {"gone", "reaped"}
      BY <1>1, <2>2 DEF Output, TypeOK
    <3> QED
      BY <1>3, <2>2, <3>1 DEF Output
  <2>3. CASE ExecFails(c)
    <3>0. request' = request
      BY <2>3 DEF ExecFails
    <3> SUFFICES ASSUME NEW d \in Conns, NEW i \in DOMAIN got'[d], got'[d][i].of # d
                 PROVE  /\ request[d] = "broken" /\ child'[d] \in {"gone", "reaped"}
                        /\ request[got'[d][i].of] = "refused"
      BY <3>0 DEF ForeignFlushed
    <3>1. CASE d # c
      BY <1>1, <2>3, <3>1 DEF ExecFails, ForeignFlushed, TypeOK
    <3>2. CASE d = c
      <4>1. /\ got[c] \in Seq(Texts) /\ copy[c] \in Seq(Texts) /\ got'[c] = got[c] \o copy[c]
            /\ request[c] = "broken" /\ child'[c] = "gone"
        BY <1>1, <2>3 DEF ExecFails, TypeOK
      <4>2. CASE i \in DOMAIN got[c] /\ got'[c][i] = got[c][i]
        BY <1>1, <3>2, <4>1, <4>2 DEF ForeignFlushed
      <4>3. CASE \E j \in DOMAIN copy[c] : got'[c][i] = copy[c][j]
        BY <1>1, <3>2, <4>1, <4>3 DEF PrintedRefused, Refused
      <4>4. i \in DOMAIN (got[c] \o copy[c])
        BY <3>2, <4>1
      <4>5. \/ i \in DOMAIN got[c] /\ got'[c][i] = got[c][i]
            \/ \E j \in DOMAIN copy[c] : got'[c][i] = copy[c][j]
        <5>1. PICK s \in Seq(Texts) : s = got[c]
          BY <4>1
        <5>2. PICK t \in Seq(Texts) : t = copy[c]
          BY <4>1
        <5>3. i \in DOMAIN (s \o t)
          BY <4>4, <5>1, <5>2
        <5>4. (i \in DOMAIN s /\ (s \o t)[i] = s[i]) \/ \E j \in DOMAIN t : (s \o t)[i] = t[j]
          BY <5>3, PartOf
        <5> QED
          BY <4>1, <5>1, <5>2, <5>4
      <4> QED
        BY <4>2, <4>3, <4>5
    <3> QED
      BY <3>1, <3>2
  <2> QED
    BY <1>5, <2>1, <2>2, <2>3 DEF ChildStep
<1>6. CASE ServerExits \/ UNCHANGED vars
  BY <1>2, <1>6 DEF ServerExits, vars
<1> QED
  BY <1>4, <1>5, <1>6 DEF Next

-----------------------------------------------------------------------------
(* The inductive invariant holds in every reachable state.                 *)
THEOREM ChildInvariant == Spec => []ChildInv
<1>1. ChildInv /\ [Next]_vars => ChildInv'
  BY ChildTypeStep, LifeStep, HolderStep, PrintedStep, TextsStep DEF ChildInv
<1> QED
  BY <1>1, InitChild, PTL DEF Spec

(* A dynamic request is in the log only when its script was collected, or  *)
(* was stopped by a signal.                                                *)
THEOREM LogFollowsScript == Spec => []LoggedIsReaped
<1>1. ChildInv => LoggedIsReaped
  BY DEF ChildInv, TypeOK, Collected, LoggedIsReaped
<1> QED
  BY <1>1, ChildInvariant, PTL

(* A client is sent another connection's text only if its own script could *)
(* not be executed.                                                        *)
THEOREM TextsAreOwn == Spec => []OwnTextOnly
<1>1. ChildInv => OwnTextOnly
  BY DEF ChildInv, ForeignFlushed, OwnTextOnly, Live
<1> QED
  BY <1>1, ChildInvariant, PTL

(* Nothing is written to a connection after its client saw it end.         *)
THEOREM EndIsTheEnd == Spec => NothingAfterEnd
<1>1. ChildInv /\ [Next]_vars => [\A c \in Conns : Ended(c) => got'[c] = got[c]]_vars
  <2> SUFFICES ASSUME ChildInv, Next, NEW c \in Conns, Ended(c) PROVE got'[c] = got[c]
    OBVIOUS
  <2>1. /\ TypeOK /\ holders[c] = {} /\ child[c] \notin Live
        /\ ~ (alive /\ pc[c] \in {"handle", "fork", "wait", "log", "close"})
    BY DEF ChildInv, KeptOpen, Ended
  <2> USE DEF At, Write, socket
  <2>2. ASSUME NEW d \in Conns, AcceptConn(d) \/ WorkerStep(d) PROVE got'[c] = got[c]
    BY <2>1, <2>2 DEF AcceptConn, WorkerStep, RefuseConn, WriteHead, Fork, WaitPid, AddToLog,
                      CloseConn, TypeOK
  <2>3. ASSUME NEW d \in Conns, ChildStep(d) \/ Signal(d) PROVE got'[c] = got[c]
    BY <2>1, <2>3 DEF ChildStep, Exec, ExecFails, Output, Exit, Signal, Die, Stop, Continue,
                      TypeOK, Live
  <2>4. CASE ServerExits
    BY <2>4 DEF ServerExits
  <2> QED
    BY <2>2, <2>3, <2>4 DEF Next
<1> QED
  BY <1>1, ChildInvariant, PTL DEF Spec, NothingAfterEnd
=============================================================================
