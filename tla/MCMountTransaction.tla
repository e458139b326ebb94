------------------------ MODULE MCMountTransaction ------------------------
(***************************************************************************)
(* Instances of MountTransaction for TLC.  Ids and Plans are model values  *)
(* that no definition tells apart, so permuting them is sound for safety.  *)
(***************************************************************************)
EXTENDS MountTransaction, TLC

Symmetry == Permutations(Ids) \cup Permutations(Plans)

\* All but lastError, which no guard reads; for runs of properties that do not
\* speak of it either.
Unexplained ==
    <<kernel, pointers, journal, txSequence, recovery, pc, op, rc, locals>>

\* Every platform call that may fail except the write of recovery.flag.
PlatformFaults ==
    {"namespace", "allocate", "preflight", "bind", "identify", "record",
     "remount", "check", "publish", "commit", "umount", "reverse", "event"}

AllEnv == {"foreign", "kill", "reboot", "recovery-on", "recovery-off", "replan"}

AllWindows == {"identify", "remount", "umount"}
=============================================================================
