------------------------------- MODULE DirLock -------------------------------
(***************************************************************************)
(* The directory lock of scripts/runtime/platform.sh, which the mount      *)
(* transactions (transaction.lock) and the property transactions           *)
(* (property.lock) take: mkdir, a token in the directory, and a takeover   *)
(* of locks whose owner is not running.                                    *)
(*                                                                         *)
(* A process is one command's shell.  Every step is one file-system call   *)
(* or one kill -0.  All calls work on the path, so they meet whichever     *)
(* directory is there by then.                                             *)
(***************************************************************************)
EXTENDS Naturals, FiniteSets

CONSTANTS
    Procs,      \* commands; each takes the lock once
    Pid,        \* process id of each; pids come back after a reboot
    Absent,     \* no lock directory
    Unstamped,  \* a lock directory without an owner file
    Races,      \* windows in which another process may make a call
    Env,        \* what may happen around the processes
    MaxBoot     \* bound: boots

ASSUME LockAssumption ==
    /\ Absent \notin Procs /\ Unstamped \notin Procs /\ Absent # Unstamped
    /\ Races \subseteq {"stamp", "steal", "pid"}
    /\ Env \subseteq {"kill", "signal", "reboot", "write-fails"} /\ MaxBoot \in Nat

VARIABLES
    boot,       \* boot counter standing for random/boot_id
    lock,       \* Absent, Unstamped, or the process whose token is in lock/owner
    pc,         \* next call of each process
    born,       \* boot a process started in; 0 before it starts
    seen,       \* _owner: the token it read
    attempt,    \* _attempt
    alone       \* no other process has run since it started

vars == <<boot, lock, pc, born, seen, attempt, alone>>

MaxAttempts == 3
Acquiring == {"mkdir", "stamp", "read", "reread", "judge", "steal"}
Holding == {"critical", "release", "remove"}
Live(p) == pc[p] \in Acquiring \cup Holding \cup {"unlocked"}

Init ==
    /\ boot = 1 /\ lock = Absent /\ pc = [p \in Procs |-> "new"]
    /\ born = [p \in Procs |-> 0] /\ seen = [p \in Procs |-> Unstamped]
    /\ attempt = [p \in Procs |-> 0] /\ alone = [p \in Procs |-> FALSE]

GoTo(p, next) == pc' = [pc EXCEPT ![p] = next]

\* Mutant of OwnerAlive: the boot id of the token is not compared.
OwnerAliveAnyBoot(owner) ==
    /\ owner \in Procs
    /\ \E q \in Procs : Live(q) /\ Pid[q] = Pid[owner]

\* fl_lock_owner_is_alive: a token of this boot whose pid answers kill -0.
OwnerAlive(owner) ==
    /\ owner \in Procs /\ born[owner] = boot
    /\ \E q \in Procs : Live(q) /\ Pid[q] = Pid[owner]

-----------------------------------------------------------------------------
\* A pid does not come back in the same boot unless "pid" is in Races.
Start(p) ==
    /\ pc[p] = "new"
    /\ "pid" \notin Races =>
          \A q \in Procs \ {p} : born[q] = boot => Pid[q] # Pid[p]
    /\ \A q \in Procs : Live(q) => Pid[q] # Pid[p]
    /\ GoTo(p, "mkdir") /\ born' = [born EXCEPT ![p] = boot]
    /\ alone' = [q \in Procs |-> IF q = p THEN \A r \in Procs : ~Live(r) ELSE FALSE]
    /\ UNCHANGED <<boot, lock, seen, attempt>>

\* Without "steal" in Races, nobody takes the lock between another process's
\* judgement of its last owner and the mv that follows.
Undisturbed(p) ==
    "steal" \notin Races => \A q \in Procs \ {p} : pc[q] \notin {"judge", "steal"}

Mkdir(p) ==
    /\ pc[p] = "mkdir"
    /\ \/ /\ lock = Absent
          /\ Undisturbed(p) /\ lock' = Unstamped /\ GoTo(p, "stamp")
       \/ /\ lock # Absent /\ GoTo(p, "read")
          /\ UNCHANGED lock
    /\ UNCHANGED <<boot, born, seen, attempt, alone>>

\* The token is written into whatever directory is at the path by now.
Stamp(p) ==
    /\ pc[p] = "stamp"
    /\ \/ /\ lock # Absent
          /\ lock' = p /\ GoTo(p, "critical")
       \/ /\ lock = Absent \/ "write-fails" \in Env
          /\ lock' = Absent /\ GoTo(p, "failed")
    /\ UNCHANGED <<boot, born, seen, attempt, alone>>

\* Mutant of Owner: a missing lock directory is not told from an unstamped one.
OwnerRaw == lock

Owner == IF lock \in Procs THEN lock ELSE Unstamped

ReadOwner(p) ==
    /\ pc[p] = "read" /\ seen' = [seen EXCEPT ![p] = Owner]
    /\ GoTo(p, IF Owner = Unstamped THEN "reread" ELSE "judge")
    /\ UNCHANGED <<boot, lock, born, attempt, alone>>

\* Mutant of RereadOwner: an unstamped lock is judged at once.
RereadTooSoon(p) ==
    /\ pc[p] = "reread" /\ seen' = [seen EXCEPT ![p] = Owner] /\ GoTo(p, "judge")
    /\ UNCHANGED <<boot, lock, born, attempt, alone>>

\* Mutant of RereadOwner: a lock is waited for until it is stamped.
RereadWaits(p) ==
    /\ pc[p] = "reread" /\ seen' = [seen EXCEPT ![p] = Owner]
    /\ GoTo(p, IF Owner = Unstamped THEN "reread" ELSE "judge")
    /\ UNCHANGED <<boot, lock, born, attempt, alone>>

\* After sleep 1, in which a running owner stamps unless "stamp" is in Races.
RereadOwner(p) ==
    /\ pc[p] = "reread"
    /\ "stamp" \notin Races => \A q \in Procs : pc[q] # "stamp"
    /\ seen' = [seen EXCEPT ![p] = Owner] /\ GoTo(p, "judge")
    /\ UNCHANGED <<boot, lock, born, attempt, alone>>

Judge(p) ==
    /\ pc[p] = "judge"
    /\ GoTo(p, IF OwnerAlive(seen[p]) THEN "refused" ELSE "steal")
    /\ UNCHANGED <<boot, lock, born, seen, attempt, alone>>

\* mv moves away whatever lock is at the path by now.
Steal(p) ==
    /\ pc[p] = "steal"
    /\ \/ /\ lock # Absent
          /\ lock' = Absent /\ attempt' = [attempt EXCEPT ![p] = @ + 1]
          /\ GoTo(p, IF attempt[p] + 1 < MaxAttempts THEN "mkdir" ELSE "refused")
       \/ /\ lock = Absent /\ GoTo(p, "refused")
          /\ UNCHANGED <<lock, attempt>>
    /\ UNCHANGED <<boot, born, seen, alone>>

\* The transaction is over: fl_finish_locked, or the EXIT trap.
Finish(p) ==
    /\ pc[p] \in {"critical", "unlocked"}
    /\ GoTo(p, IF pc[p] = "critical" THEN "release" ELSE "done")
    /\ UNCHANGED <<boot, lock, born, seen, attempt, alone>>

\* The token is compared, ...
Release(p) ==
    /\ pc[p] = "release"
    /\ GoTo(p, IF lock = p THEN "remove" ELSE "done")
    /\ UNCHANGED <<boot, lock, born, seen, attempt, alone>>

\* ... and then rm -rf takes what is at the path.
Remove(p) ==
    /\ pc[p] = "remove" /\ lock' = Absent /\ GoTo(p, "done")
    /\ UNCHANGED <<boot, born, seen, attempt, alone>>

-----------------------------------------------------------------------------
\* trap 'fl_release_held_lock' INT TERM HUP: the lock goes, the script goes on.
Signal(p) ==
    /\ "signal" \in Env /\ pc[p] = "critical"
    /\ lock' = IF lock = p THEN Absent ELSE lock
    /\ GoTo(p, "unlocked")
    /\ UNCHANGED <<boot, born, seen, attempt, alone>>

Kill(p) ==
    /\ "kill" \in Env /\ Live(p) /\ GoTo(p, "dead")
    /\ UNCHANGED <<boot, lock, born, seen, attempt, alone>>

Reboot ==
    /\ "reboot" \in Env /\ boot < MaxBoot /\ boot' = boot + 1
    /\ pc' = [p \in Procs |-> IF Live(p) THEN "dead" ELSE pc[p]]
    /\ UNCHANGED <<lock, born, seen, attempt, alone>>

Call(p) ==
    \/ Mkdir(p) \/ Stamp(p) \/ ReadOwner(p) \/ RereadOwner(p) \/ Judge(p) \/ Steal(p)
    \/ Finish(p) \/ Release(p) \/ Remove(p)

Next == Reboot \/ \E p \in Procs : Start(p) \/ Call(p) \/ Signal(p) \/ Kill(p)

Spec == Init /\ [][Next]_vars

\* Every running shell is scheduled.
FairSpec == Spec /\ \A p \in Procs : WF_vars(Call(p))

-----------------------------------------------------------------------------
\* Properties

TypeOK ==
    /\ boot \in Nat
    /\ lock \in Procs \cup {Absent, Unstamped}
    /\ pc \in [Procs -> {"new", "unlocked", "refused", "failed", "done", "dead"} \cup Acquiring
                                                                      \cup Holding]
    /\ born \in [Procs -> Nat]
    /\ seen \in [Procs -> Procs \cup {Unstamped}]
    /\ attempt \in [Procs -> 0..MaxAttempts] /\ alone \in [Procs -> BOOLEAN]

\* One command at a time is between its acquisition and its release, across
\* crashes, signals, reboots and takeovers of locks they left behind.
MutualExclusion ==
    \A p, q \in Procs : pc[p] \in Holding /\ pc[q] \in Holding => p = q

\* One command at a time works on the state directory, those included that a
\* signal has told to stop.  "signal" in Env breaks it: the trap does not exit.
OneTransaction ==
    \A p, q \in Procs :
        pc[p] \in Holding \cup {"unlocked"} /\ pc[q] \in Holding \cup {"unlocked"} => p = q

\* A command that ended by itself has left no lock behind, whether it was
\* served, refused, or lost the directory while it was stamping it.
EndedLeavesNoLock == \A p \in Procs : pc[p] \in {"done", "refused", "failed"} => lock # p

\* A command with no other command around is never refused, whatever lock an
\* earlier one left: dead or rebooted away, stamped or not, its pid reused or not.
AloneIsServed ==
    \A p \in Procs : pc[p] = "refused" => ~alone[p]

\* Taking over a lock never takes that of a running command.  "steal" in Races
\* breaks it: the mv is by path.
LiveLockNotStolen ==
    [][\A p \in Procs : pc[p] = "steal" /\ lock # Absent /\ lock' = Absent
         => ~OwnerAlive(lock)]_vars

\* Every command ends: nobody waits for the lock for ever.
EveryCommandEnds == \A p \in Procs : pc[p] = "mkdir" ~> pc[p] \in {"refused", "failed", "done", "dead"}

\* What the transactions rely on: a command waits for the lock, has it, or is done.
PhaseOf(call) ==
    CASE call \in Holding -> "in"
      [] call \in {"unlocked", "refused", "failed", "done", "dead"} -> "gone"
      [] OTHER -> "out"

phase == [p \in Procs |-> PhaseOf(pc[p])]

M == INSTANCE Mutex WITH phase <- phase

\* The lock implements Mutex: every step is an acquisition with nobody inside,
\* an end, a reboot or nothing at all to it.
ImplementsMutex == M!Spec
=============================================================================
