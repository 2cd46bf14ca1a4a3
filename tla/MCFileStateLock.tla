--------------------------- MODULE MCFileStateLock ---------------------------
(* Three store calls in two processes, with their own pids or with the same  *)
(* pid, as the first process of a container has after every restart.         *)
EXTENDS FileStateLock, TLC

CONSTANTS t1, t2, t3, p1, p2

MCTasks == {t1, t2, t3}
MCProcs == {p1, p2}
MCProcOf == (t1 :> p1) @@ (t2 :> p2) @@ (t3 :> p2)
MCPidOf == (p1 :> 1) @@ (p2 :> 2)
\* The calls of one process are interchangeable.
Perms == Permutations({t2, t3})
SamePid == (p1 :> 1) @@ (p2 :> 1)
=============================================================================
