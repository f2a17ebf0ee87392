------------------------------- MODULE FsLock -------------------------------
(***************************************************************************)
(* What the commands of baulk expect of the pid-file mutex: at any time at *)
(* most one process is between MakeFsMutex and the destruction of the      *)
(* FsMutex it returned.  A holder that dies gives the lock up.             *)
(***************************************************************************)
CONSTANT Procs          \* the processes (their pids)

VARIABLE holders        \* the processes that hold the mutex

LockInit == holders = {}

Acquire(p) == holders = {} /\ holders' = {p}

Release(p) == p \in holders /\ holders' = holders \ {p}

LockNext == \E p \in Procs : Acquire(p) \/ Release(p)

LockSpec == LockInit /\ [][LockNext]_holders
=============================================================================
