----------------------------- MODULE MCDirLock -----------------------------
(***************************************************************************)
(* Instances of DirLock for TLC: commands with pids of their own, or with  *)
(* a command of a later boot that has the pid of an earlier one.           *)
(***************************************************************************)
EXTENDS DirLock, TLC

CONSTANTS a, b, c

OwnPids == [p \in Procs |-> p]

\* c has the pid of a.
ReusedPid == [p \in Procs |-> IF p = c THEN a ELSE p]

AllEnv == {"kill", "signal", "reboot", "write-fails"}
=============================================================================
