------------------------------ MODULE Lifecycle ------------------------------
(***************************************************************************)
(* The lifecycle scripts of the module (module-template/) over the property *)
(* and the mount controllers, across boots: the boot-loop guard             *)
(* (transaction.sh 261-304), the recovery flag and the two locks.           *)
(*                                                                         *)
(* A command is the steps that another script or a crash can come between:  *)
(* its look at the flag, taking its lock, what it does under the lock (one  *)
(* step here; MountTransaction and PropertyController have the detail), and *)
(* the guard's files.  The scripts of a boot start in KernelSU's order;     *)
(* service.sh and boot-completed.sh do not wait for each other.             *)
(***************************************************************************)
EXTENDS Naturals

CONSTANTS
    Plans,          \* property plans: sets of stages with rows, or NoPlan
    NoPlan,         \* the package has no property-plan.tsv
    Faults,         \* ways a command may fail
    MaxBoots,       \* bound: boots
    MaxFaults,      \* bound: failing commands
    MaxRecoveryOff  \* bound: recovery-off commands

Stages == {"early", "service", "boot-completed"}
\* early: post-fs-data.sh or late-load.sh; mount: post-mount.sh
Scripts == Stages \cup {"mount"}

ASSUME LifecycleAssumption ==
    /\ Plans \subseteq {NoPlan} \cup SUBSET Stages
    /\ Faults \subseteq {"apply", "undo", "mount", "detach", "verify", "count", "marker", "flag"}
    /\ {MaxBoots, MaxFaults, MaxRecoveryOff} \subseteq Nat /\ MaxBoots > 0

VARIABLES
    plan,           \* the property plan of the package
    boot,           \* this boot; 0 stands for none where a boot id is expected
    \* files
    flag,           \* recovery.flag
    inProgress,     \* boot-in-progress: a boot id
    failures,       \* boot-failures
    success,        \* last-boot-success: the boot that wrote it
    commits,        \* [Stages -> boot id in the commit of the stage]
    mountCommit,    \* boot id in the commit of the mount transaction
    \* what is in effect
    applied,        \* stages whose properties are set
    mounted,        \* the plan's layers are mounted
    \* this boot
    pc,             \* [Scripts -> label]
    count,          \* the guard's local count
    propertyLock, mountLock,    \* the script that holds it, or "free"
    \* history
    recoveryBoot,   \* the flag was up when this boot began, and still is
    incomplete,     \* boots in a row whose marker was written and not removed
    miscounts,      \* of those, the writes of boot-failures that were lost
    overlap,        \* boot-completed.sh started before service.sh had ended
    leftovers,      \* what an undo of this boot reported but left in effect
    unflagged,      \* recovery-on of this boot could not write the flag
    faults, offs

files == <<flag, inProgress, failures, success, commits, mountCommit>>
effects == <<applied, mounted>>
history == <<recoveryBoot, incomplete, miscounts, overlap, leftovers, unflagged>>
vars == <<plan, boot, files, effects, pc, count, propertyLock, mountLock, history, faults, offs>>

Init ==
    /\ plan \in Plans /\ boot = 1
    /\ flag = FALSE /\ inProgress = 0 /\ failures = 0 /\ success = 0
    /\ commits = [g \in Stages |-> 0] /\ mountCommit = 0
    /\ applied = {} /\ mounted = FALSE
    /\ pc = [s \in Scripts |-> "idle"] /\ count = 0 /\ propertyLock = "free" /\ mountLock = "free"
    /\ recoveryBoot = FALSE /\ incomplete = 0 /\ miscounts = 0 /\ overlap = FALSE /\ leftovers = {}
    /\ unflagged = FALSE /\ faults = 0 /\ offs = 0

HasPlan == plan # NoPlan
Rows == IF HasPlan THEN plan ELSE {}

GoTo(s, label) == pc' = [pc EXCEPT ![s] = label]
Fault(f) == f \in Faults /\ faults < MaxFaults /\ faults' = faults + 1

Ended(s) == pc[s] = "ended"
Quiescent == \A s \in Scripts : Ended(s)

\* The scripts before s in the boot: those that must have ended, and for
\* boot-completed.sh also that service.sh has started.
MayStart(s) ==
    CASE s = "early" -> TRUE
      [] s = "mount" -> Ended("early")
      [] s = "service" -> Ended("mount")
      [] s = "boot-completed" -> pc["service"] # "idle"

Start(s) ==
    /\ pc[s] = "idle" /\ MayStart(s)
    /\ GoTo(s, IF s = "mount" THEN "guard" ELSE "flag")
    /\ overlap' = (overlap \/ (s = "boot-completed" /\ ~Ended("service")))
    /\ UNCHANGED <<plan, boot, files, effects, count, propertyLock, mountLock, recoveryBoot, incomplete,
                   miscounts, leftovers, unflagged, faults, offs>>

-----------------------------------------------------------------------------
(* propctl.sh apply-stage, of the three wrappers that run it. *)

\* Mutant of AfterFailure: service.sh ends with the failing command.
AfterFailureOfAny(s) == IF s = "boot-completed" THEN "undo" ELSE "ended"

\* A failure of the early stage is only the script's exit code; the other two
\* wrappers undo everything and raise the flag.
AfterFailure(s) == IF s = "early" THEN "ended" ELSE "undo"

AfterSuccess(s) == IF s = "boot-completed" THEN "verify" ELSE "ended"

\* Mutant of CheckFlag: the flag is not looked at.
CheckFlagNever(s) ==
    /\ pc[s] = "flag" /\ GoTo(s, "lock")
    /\ UNCHANGED <<plan, boot, files, effects, count, propertyLock, mountLock, history, faults, offs>>

\* The flag is looked at before the lock is taken.
CheckFlag(s) ==
    /\ pc[s] = "flag" /\ GoTo(s, IF flag THEN AfterFailure(s) ELSE "lock")
    /\ UNCHANGED <<plan, boot, files, effects, count, propertyLock, mountLock, history, faults, offs>>

\* fl_acquire_lock: a live owner turns the command away at once.
LockProperties(s) ==
    /\ pc[s] = "lock"
    /\ \/ propertyLock = "free" /\ propertyLock' = s /\ GoTo(s, "apply")
       \/ propertyLock # "free" /\ UNCHANGED propertyLock /\ GoTo(s, AfterFailure(s))
    /\ UNCHANGED <<plan, boot, files, effects, count, mountLock, history, faults, offs>>

Stamp(s) == IF commits[s] = 0 THEN boot ELSE commits[s]

\* fl_atomic_write of the flag; nothing checks its result.
WriteFlag ==
    \/ flag' = TRUE /\ UNCHANGED faults
    \/ Fault("flag") /\ UNCHANGED flag

\* What apply-stage does under its lock.  The commit of an earlier boot is
\* discarded, and its boot id goes into the new commit (fl_prop_discard_previous_boot
\* assigns its caller's _boot).  A failure may leave values in effect, and does
\* not always raise the flag.
ApplyStage(s) ==
    /\ pc[s] = "apply" /\ propertyLock' = "free"
    /\ \/ /\ HasPlan
          /\ applied' = applied \cup (Rows \cap {s})
          /\ commits' = [commits EXCEPT ![s] = IF s \in Rows THEN Stamp(s) ELSE 0]
          /\ GoTo(s, AfterSuccess(s)) /\ UNCHANGED <<flag, leftovers, faults>>
       \/ /\ ~HasPlan /\ WriteFlag
          /\ commits' = [commits EXCEPT ![s] = 0]
          /\ GoTo(s, AfterFailure(s)) /\ UNCHANGED <<applied, leftovers>>
       \/ /\ HasPlan /\ Fault("apply") /\ flag' \in {flag, TRUE}
          /\ commits' = [commits EXCEPT ![s] = 0]
          /\ \E left \in SUBSET (Rows \cap {s}) :
                applied' = applied \cup left /\ leftovers' = leftovers \cup left
          /\ GoTo(s, AfterFailure(s))
    /\ UNCHANGED <<plan, boot, inProgress, failures, success, mountCommit, mounted, count, mountLock,
                   recoveryBoot, incomplete, miscounts, overlap, unflagged, offs>>

-----------------------------------------------------------------------------
(* The wrappers' answer to a failure: rollback-all, then recovery-on. *)

\* Mutant of LockRollback: a live owner's lock is taken over.
LockRollbackAnyway(s) ==
    /\ pc[s] = "undo" /\ propertyLock' = s /\ GoTo(s, "rollback")
    /\ UNCHANGED <<plan, boot, files, effects, count, mountLock, history, faults, offs>>

LockRollback(s) ==
    /\ pc[s] = "undo"
    /\ \/ propertyLock = "free" /\ propertyLock' = s /\ GoTo(s, "rollback")
       \/ propertyLock # "free" /\ UNCHANGED propertyLock /\ GoTo(s, "raise")
    /\ UNCHANGED <<plan, boot, files, effects, count, mountLock, history, faults, offs>>

\* Mutant of RollbackAll: a stage's pointers go before it is undone.
RollbackNothing(s) ==
    /\ pc[s] = "rollback" /\ propertyLock' = "free" /\ GoTo(s, "raise")
    /\ commits' = [g \in Stages |-> 0]
    /\ UNCHANGED <<plan, boot, flag, inProgress, failures, success, mountCommit, effects, count,
                   mountLock, history, faults, offs>>

\* Every stage with this boot's commit is undone; a commit with another boot's
\* id is dropped with its pointers.  Restoring a stage may fail.
RollbackAll(s) ==
    /\ pc[s] = "rollback" /\ propertyLock' = "free" /\ GoTo(s, "raise")
    /\ \E stuck \in SUBSET {g \in Stages : commits[g] = boot} :
          /\ IF stuck = {} THEN UNCHANGED faults ELSE Fault("undo")
          /\ applied' = applied \ {g \in Stages \ stuck : commits[g] = boot}
          /\ leftovers' = leftovers \cup stuck \cup
                            {g \in applied : commits[g] \notin {0, boot}}
          /\ commits' = [g \in Stages |-> IF g \in stuck THEN boot ELSE 0]
    /\ UNCHANGED <<plan, boot, flag, inProgress, failures, success, mountCommit, mounted, count, mountLock,
                   recoveryBoot, incomplete, miscounts, overlap, unflagged, offs>>

\* recovery-on raises the flag without a lock, then detaches under one.
RaiseFlag(s) ==
    /\ pc[s] = "raise" /\ GoTo(s, "detach-lock")
    /\ WriteFlag /\ unflagged' = (unflagged \/ ~flag')
    /\ UNCHANGED <<plan, boot, inProgress, failures, success, commits, mountCommit, effects, count,
                   propertyLock, mountLock, recoveryBoot, incomplete, miscounts, overlap, leftovers,
                   offs>>

LockDetach(s) ==
    /\ pc[s] = "detach-lock"
    /\ \/ mountLock = "free" /\ mountLock' = s /\ GoTo(s, "detach")
       \/ mountLock # "free" /\ UNCHANGED mountLock /\ GoTo(s, AfterSuccess(s))
    /\ UNCHANGED <<plan, boot, files, effects, count, propertyLock, history, faults, offs>>

Detach(s) ==
    /\ pc[s] = "detach" /\ mountLock' = "free" /\ GoTo(s, AfterSuccess(s))
    /\ \/ /\ mountCommit' = 0
          /\ mounted' = (mounted /\ mountCommit # boot)
          /\ UNCHANGED <<leftovers, faults>>
       \/ /\ mountCommit = boot /\ Fault("detach")
          /\ leftovers' = leftovers \cup {"mounts"} /\ UNCHANGED <<mountCommit, mounted>>
    /\ UNCHANGED <<plan, boot, flag, inProgress, failures, success, commits, applied, count, propertyLock,
                   recoveryBoot, incomplete, miscounts, overlap, unflagged, offs>>

-----------------------------------------------------------------------------
(* mountctl.sh boot-apply, of post-mount.sh. *)

\* fl_boot_guard_begin: a marker of another boot is a failure more.  A failing
\* write of boot-failures goes unnoticed.
GuardCount ==
    /\ pc["mount"] = "guard" /\ GoTo("mount", "limit")
    /\ LET failed == inProgress \notin {0, boot}
       IN  /\ count' = IF failed THEN failures + 1 ELSE failures
           /\ \/ failures' = count' /\ UNCHANGED <<miscounts, faults>>
              \/ failed /\ Fault("count") /\ miscounts' = miscounts + 1 /\ UNCHANGED failures
    /\ UNCHANGED <<plan, boot, flag, inProgress, success, commits, mountCommit, effects, propertyLock,
                   mountLock, recoveryBoot, incomplete, overlap, leftovers, unflagged, offs>>

\* Mutant of Limit: one boot too many.
LimitThree == 3

Limit == 2

GuardLimit ==
    /\ pc["mount"] = "limit"
    /\ \/ count >= Limit /\ WriteFlag /\ GoTo("mount", "ended") /\ UNCHANGED inProgress
       \/ count < Limit /\ inProgress' = boot /\ GoTo("mount", "mount-lock") /\ UNCHANGED <<flag, faults>>
       \/ count < Limit /\ Fault("marker") /\ GoTo("mount", "ended") /\ UNCHANGED <<flag, inProgress>>
    /\ UNCHANGED <<plan, boot, failures, success, commits, mountCommit, effects, count, propertyLock,
                   mountLock, history, offs>>

LockMount ==
    /\ pc["mount"] = "mount-lock" /\ mountLock = "free" /\ mountLock' = "mount"
    /\ GoTo("mount", "mounting")
    /\ UNCHANGED <<plan, boot, files, effects, count, propertyLock, history, faults, offs>>

\* fl_apply_plan: a failure leaves nothing, or, when its rollback is incomplete,
\* layers that no pointer names; whether it raises the flag depends on the call.
Mount ==
    /\ pc["mount"] = "mounting" /\ mountLock' = "free" /\ GoTo("mount", "ended")
    /\ \/ flag /\ UNCHANGED <<flag, mounted, mountCommit, leftovers, faults>>
       \/ /\ ~flag /\ mounted' = TRUE /\ mountCommit' = boot
          /\ UNCHANGED <<flag, leftovers, faults>>
       \/ /\ ~flag /\ Fault("mount") /\ mountCommit' = 0 /\ flag' \in BOOLEAN
          /\ \/ UNCHANGED <<mounted, leftovers>>
             \/ mounted' = TRUE /\ leftovers' = leftovers \cup {"mounts"}
    /\ UNCHANGED <<plan, boot, inProgress, failures, success, commits, applied, count, propertyLock,
                   recoveryBoot, incomplete, miscounts, overlap, unflagged, offs>>

-----------------------------------------------------------------------------
(* mountctl.sh boot-complete, of boot-completed.sh. *)

LockComplete ==
    /\ pc["boot-completed"] = "verify"
    /\ \/ mountLock = "free" /\ mountLock' = "boot-completed" /\ GoTo("boot-completed", "verifying")
       \/ mountLock # "free" /\ UNCHANGED mountLock /\ GoTo("boot-completed", "ended")
    /\ UNCHANGED <<plan, boot, files, effects, count, propertyLock, history, faults, offs>>

Verified == mountCommit = boot /\ mounted

\* With the flag up, or the transaction verified, the boot has completed.
\* Another module's layers may fail the verification.
CompleteVerify ==
    /\ pc["boot-completed"] = "verifying"
    /\ \/ (flag \/ Verified) /\ GoTo("boot-completed", "unmark") /\ UNCHANGED <<mountLock, faults>>
       \/ ~flag /\ ~Verified /\ GoTo("boot-completed", "ended") /\ mountLock' = "free" /\ UNCHANGED faults
       \/ ~flag /\ Verified /\ Fault("verify") /\ GoTo("boot-completed", "ended") /\ mountLock' = "free"
    /\ UNCHANGED <<plan, boot, files, effects, count, propertyLock, history, offs>>

\* fl_boot_guard_complete: two unlinks and a write.
Unmark ==
    /\ pc["boot-completed"] = "unmark" /\ GoTo("boot-completed", "reset")
    /\ inProgress' = 0 /\ incomplete' = 0 /\ miscounts' = 0
    /\ UNCHANGED <<plan, boot, flag, failures, success, commits, mountCommit, effects, count, propertyLock,
                   mountLock, recoveryBoot, overlap, leftovers, unflagged, faults, offs>>

ResetFailures ==
    /\ pc["boot-completed"] = "reset" /\ GoTo("boot-completed", "succeed") /\ failures' = 0
    /\ UNCHANGED <<plan, boot, flag, inProgress, success, commits, mountCommit, effects, count,
                   propertyLock, mountLock, history, faults, offs>>

RecordSuccess ==
    /\ pc["boot-completed"] = "succeed" /\ GoTo("boot-completed", "ended")
    /\ success' = boot /\ mountLock' = "free"
    /\ UNCHANGED <<plan, boot, flag, inProgress, failures, commits, mountCommit, effects, count,
                   propertyLock, history, faults, offs>>

-----------------------------------------------------------------------------
\* mountctl.sh recovery-off, by the owner of the device, at any moment.
RecoveryOff ==
    /\ offs < MaxRecoveryOff /\ offs' = offs + 1
    /\ flag' = FALSE /\ inProgress' = 0 /\ failures' = 0
    /\ recoveryBoot' = FALSE /\ incomplete' = 0 /\ miscounts' = 0
    /\ UNCHANGED <<plan, boot, success, commits, mountCommit, effects, pc, count, propertyLock, mountLock,
                   overlap, leftovers, unflagged, faults>>

\* A crash or a restart, at any moment: properties, mounts and scripts go, files
\* stay; a lock of the earlier boot is stale and taken over (DirLock).
Reboot ==
    /\ boot < MaxBoots /\ boot' = boot + 1
    /\ applied' = {} /\ mounted' = FALSE
    /\ pc' = [s \in Scripts |-> "idle"] /\ count' = 0 /\ propertyLock' = "free" /\ mountLock' = "free"
    /\ recoveryBoot' = flag /\ overlap' = FALSE /\ leftovers' = {} /\ unflagged' = FALSE
    /\ incomplete' = IF inProgress = boot THEN incomplete + 1 ELSE incomplete
    /\ UNCHANGED <<plan, files, miscounts, faults, offs>>

Undo(s) == LockRollback(s) \/ RollbackAll(s) \/ RaiseFlag(s) \/ LockDetach(s) \/ Detach(s)
BootApply == GuardCount \/ GuardLimit \/ LockMount \/ Mount
BootComplete == LockComplete \/ CompleteVerify \/ Unmark \/ ResetFailures \/ RecordSuccess

Next ==
    \/ \E s \in Scripts : Start(s)
    \/ \E s \in Stages : CheckFlag(s) \/ LockProperties(s) \/ ApplyStage(s) \/ Undo(s)
    \/ BootApply \/ BootComplete \/ RecoveryOff \/ Reboot

Spec == Init /\ [][Next]_vars

-----------------------------------------------------------------------------
(* Properties. *)

\* The range of every variable, and that a lock is held by the one command that
\* works under it.
TypeOK ==
    /\ boot \in 1..MaxBoots /\ {inProgress, success, mountCommit} \subseteq 0..boot
    /\ flag \in BOOLEAN /\ mounted \in BOOLEAN /\ recoveryBoot \in BOOLEAN /\ overlap \in BOOLEAN
    /\ unflagged \in BOOLEAN
    /\ failures \in 0..boot /\ count \in 0..boot
    /\ commits \in [Stages -> 0..boot] /\ applied \subseteq Rows
    /\ leftovers \subseteq Stages \cup {"mounts"}
    /\ \A s \in Scripts :
          /\ (pc[s] \in {"apply", "rollback"}) = (propertyLock = s)
          /\ (pc[s] \in {"detach", "mounting", "verifying", "unmark", "reset", "succeed"}) = (mountLock = s)

\* A boot that begins with the recovery flag applies no property and mounts
\* nothing, unless the owner takes the flag down (docs/STAGED_PROPERTIES.md:59).
RecoverySuppresses == recoveryBoot => applied = {} /\ ~mounted

\* After two boots in a row that set out to mount and did not complete, nothing
\* is mounted; every lost write of the counter allows one boot more
\* (docs/TRANSACTIONAL_RUNTIME.md:45).
BootLoopStops == incomplete >= 2 + miscounts => ~mounted

\* A boot recorded as successful, without the flag and with all its scripts
\* ended, has its layers mounted and the properties of every stage set, as long as
\* recovery-on could write the flag (mountctl.sh:31 does not look whether it did).
\* Only the early stage may be missing, when its script failed before it could
\* raise the flag: no other script looks at what became of it.
SuccessfulBootIsWhole ==
    (Quiescent /\ success = boot /\ ~flag /\ ~unflagged /\ offs = 0) =>
        /\ mounted /\ mountCommit = boot
        /\ \A g \in Rows : g \in applied \/ (g = "early" /\ faults > 0)

\* When the scripts of a boot have ended and the flag is up, nothing is in
\* effect but what an undo could not restore or took for an earlier boot's, if
\* service.sh had ended before boot-completed.sh started.
RecoveryLeavesNothing ==
    (Quiescent /\ flag /\ ~overlap) =>
        applied \subseteq leftovers /\ (mounted => "mounts" \in leftovers)

\* The same for any order of the two scripts (docs/STAGED_PROPERTIES.md:59).
RecoveryTakesEffect ==
    (Quiescent /\ flag) => applied \subseteq leftovers /\ (mounted => "mounts" \in leftovers)

\* A package without the optional property plan runs without recovery mode
\* (docs/LOCAL_MODULE_ASSEMBLY.md:77).
OptionalPlanHarmless == flag /\ ~HasPlan => incomplete > 0 \/ faults > 0
=============================================================================
