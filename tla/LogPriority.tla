---------------------------- MODULE LogPriority -----------------------------
(***************************************************************************)
(* ServerLog with one history variable: the threads whose add_to_log was   *)
(* made to wait by a write in progress.  While that write holds the lock,  *)
(* such a thread is stuck in the pthread_mutex_lock of log_start_write and *)
(* has not counted itself in waiting_writers yet.                          *)
(***************************************************************************)
EXTENDS ServerLog

VARIABLE blocked

historyVars == <<vars, blocked>>

HistoryInit == Init /\ blocked = {}

HistoryNext ==
  /\ Next
  /\ blocked' = {t \in Threads : /\ pc'[t] \in {"wLock", "wTest", "wSleep"}
                                 /\ t \in blocked \/ Writing' # {}}

HistorySpec == HistoryInit /\ [][HistoryNext]_historyVars

(* log.h: "Writers must have priority over readers.  This means that if a  *)
(* writer is waiting, new readers should be blocked until the writer is    *)
(* done": no reader gets in while a writer that a write kept waiting has   *)
(* not written.                                                            *)
BlockedWritersFirst ==
  [][\A t \in Threads : t \notin Reading /\ t \in Reading' => blocked = {}]_historyVars
=============================================================================
