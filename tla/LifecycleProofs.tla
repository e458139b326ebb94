--------------------------- MODULE LifecycleProofs ---------------------------
(***************************************************************************)
(* Proofs about Lifecycle: the type invariant, what a recovery boot does,   *)
(* the bound of the boot-loop guard, and what a boot leaves that is         *)
(* recorded as successful or ends in recovery, for any number of boots,     *)
(* failures and recovery-off commands and for any property plan.            *)
(***************************************************************************)
EXTENDS Lifecycle, TLAPS

\* The calls a script may be at.
Labels == {"idle", "ended", "flag", "lock", "apply", "undo", "rollback", "raise", "detach-lock",
           "detach", "guard", "limit", "mount-lock", "mounting", "verify", "verifying", "unmark",
           "reset", "succeed"}

\* What TypeOK leaves out: program counters, plan and history counters.
Shape ==
    /\ pc \in [Scripts -> Labels] /\ plan \in Plans
    /\ incomplete \in Nat /\ miscounts \in Nat

\* In a boot that began with the flag the flag is still up, nothing is in effect
\* and no script is past its look at the flag.
RecoveryHeld ==
    recoveryBoot => /\ flag /\ applied = {} /\ ~mounted
                    /\ \A s \in Stages : pc[s] \notin {"lock", "apply"}

\* The guard's marker is of an earlier boot and not counted yet.
Uncounted == IF inProgress \notin {0, boot} /\ pc["mount"] \in {"idle", "guard"} THEN 1 ELSE 0

\* The file and the lost writes account for every incomplete boot; so does the
\* guard's local count until it is compared, and what was let through is below
\* the limit.
FailuresCounted ==
    /\ incomplete <= failures + miscounts + Uncounted
    /\ pc["mount"] = "limit" => incomplete <= count + miscounts
    /\ pc["mount"] \in {"mount-lock", "mounting"} \/ mounted => incomplete < 2 + miscounts
    /\ pc["boot-completed"] = "reset" => incomplete = 0
    /\ pc["mount"] \in {"idle", "guard"} => failures < boot

IInv == Shape /\ TypeOK /\ RecoveryHeld /\ FailuresCounted

\* TypeOK in four parts.
Numbers ==
    /\ boot \in 1..MaxBoots /\ inProgress \in 0..boot /\ success \in 0..boot
    /\ mountCommit \in 0..boot /\ failures \in 0..boot /\ count \in 0..boot
Switches ==
    /\ flag \in BOOLEAN /\ mounted \in BOOLEAN /\ recoveryBoot \in BOOLEAN /\ overlap \in BOOLEAN
    /\ unflagged \in BOOLEAN
OfStages ==
    /\ commits \in [Stages -> 0..boot] /\ applied \subseteq Rows
    /\ leftovers \subseteq Stages \cup {"mounts"}
LocksHeld ==
    \A s \in Scripts :
        /\ (pc[s] \in {"apply", "rollback"}) = (propertyLock = s)
        /\ (pc[s] \in {"detach", "mounting", "verifying", "unmark", "reset", "succeed"}) = (mountLock = s)

-----------------------------------------------------------------------------
\* A package's rows are rows of stages.
LEMMA RowsOfStages == plan \in Plans => Rows \subseteq Stages
  BY LifecycleAssumption DEF Rows, HasPlan

\* The four parts are TypeOK, in this state.
LEMMA TypeParts == TypeOK <=> Numbers /\ Switches /\ OfStages /\ LocksHeld
  BY DEF TypeOK, Numbers, Switches, OfStages, LocksHeld

\* The same, primed.
LEMMA TypePartsNext == TypeOK' <=> Numbers' /\ Switches' /\ OfStages' /\ LocksHeld'
  BY DEF TypeOK, Numbers, Switches, OfStages, LocksHeld

\* The first boot of a fresh package.
LEMMA Initially == Init => IInv
  <1> SUFFICES ASSUME Init PROVE IInv
    OBVIOUS
  <1>1. Shape
    BY DEF Init, Shape, Labels, Scripts, Stages
  <1>2. TypeOK
    <2>1. Numbers
      BY LifecycleAssumption DEF Init, Numbers
    <2>2. Switches
      BY DEF Init, Switches
    <2>3. OfStages
      BY DEF Init, OfStages
    <2>4. LocksHeld
      BY DEF Init, LocksHeld, Scripts, Stages
    <2> QED
      BY <2>1, <2>2, <2>3, <2>4, TypeParts
  <1>3. RecoveryHeld
    BY DEF Init, RecoveryHeld
  <1>4. FailuresCounted
    BY DEF Init, FailuresCounted, Uncounted
  <1> QED
    BY <1>1, <1>2, <1>3, <1>4 DEF IInv

\* A script starts.
LEMMA Starting ==
    ASSUME IInv, NEW s \in Scripts, Start(s)
    PROVE  IInv'
  <1>1. Shape'
    BY DEF IInv, Shape, Labels, Start, GoTo
  <1>2. TypeOK'
    BY DEF IInv, TypeOK, Rows, HasPlan, Start, files, effects, GoTo
  <1>3. RecoveryHeld'
    BY DEF IInv, RecoveryHeld, Start, files, effects, GoTo
  <1>4. FailuresCounted'
    BY DEF IInv, FailuresCounted, Uncounted, Start, files, effects, GoTo
  <1> QED
    BY <1>1, <1>2, <1>3, <1>4 DEF IInv

\* The two outcomes of apply-stage.
Succeeds(s) ==
    /\ HasPlan /\ UNCHANGED <<flag, leftovers, faults>>
    /\ applied' = applied \cup (Rows \cap {s})
    /\ commits' = [commits EXCEPT ![s] = IF s \in Rows THEN Stamp(s) ELSE 0]
    /\ pc' = [pc EXCEPT ![s] = AfterSuccess(s)]
Fails(s) ==
    /\ (HasPlan => faults' = faults + 1) /\ faults' \in {faults, faults + 1} /\ flag' \in {flag, TRUE}
    /\ commits' = [commits EXCEPT ![s] = 0]
    /\ pc' = [pc EXCEPT ![s] = AfterFailure(s)]
    /\ \/ UNCHANGED <<applied, leftovers>>
       \/ /\ s \in Rows
          /\ applied' = applied \cup {s} /\ leftovers' = leftovers \cup {s}

\* apply-stage has one of them, and leaves the rest alone.
LEMMA Outcomes ==
    ASSUME NEW s \in Stages, ApplyStage(s)
    PROVE  /\ pc[s] = "apply" /\ propertyLock' = "free"
           /\ UNCHANGED <<plan, boot, inProgress, failures, success, mountCommit, mounted, count,
                          mountLock, recoveryBoot, incomplete, miscounts, overlap, unflagged, offs>>
           /\ Succeeds(s) \/ Fails(s)
<1>1. /\ pc[s] = "apply" /\ propertyLock' = "free"
      /\ UNCHANGED <<plan, boot, inProgress, failures, success, mountCommit, mounted, count,
                     mountLock, recoveryBoot, incomplete, miscounts, overlap, unflagged, offs>>
  BY DEF ApplyStage
<1>2. CASE /\ HasPlan
           /\ applied' = applied \cup (Rows \cap {s})
           /\ commits' = [commits EXCEPT ![s] = IF s \in Rows THEN Stamp(s) ELSE 0]
           /\ GoTo(s, AfterSuccess(s)) /\ UNCHANGED <<flag, leftovers, faults>>
  BY <1>1, <1>2 DEF Succeeds, GoTo
<1>3. CASE /\ ~HasPlan /\ WriteFlag
           /\ commits' = [commits EXCEPT ![s] = 0]
           /\ GoTo(s, AfterFailure(s)) /\ UNCHANGED <<applied, leftovers>>
  BY <1>1, <1>3 DEF Fails, GoTo, WriteFlag, Fault
<1>4. CASE /\ HasPlan /\ Fault("apply") /\ flag' \in {flag, TRUE}
           /\ commits' = [commits EXCEPT ![s] = 0]
           /\ \E left \in SUBSET (Rows \cap {s}) :
                 applied' = applied \cup left /\ leftovers' = leftovers \cup left
           /\ GoTo(s, AfterFailure(s))
  <2>1. PICK left \in SUBSET (Rows \cap {s}) :
               applied' = applied \cup left /\ leftovers' = leftovers \cup left
    BY <1>4
  <2>2. left = {} \/ (left = {s} /\ s \in Rows)
    OBVIOUS
  <2>3. \/ UNCHANGED <<applied, leftovers>>
        \/ s \in Rows /\ applied' = applied \cup {s} /\ leftovers' = leftovers \cup {s}
    BY <2>1, <2>2
  <2> QED BY <1>1, <1>4, <2>3 DEF Fails, GoTo, Fault
<1> QED BY <1>1, <1>2, <1>3, <1>4 DEF ApplyStage

\* The steps of apply-stage.
LEMMA StageSteps ==
    ASSUME IInv, NEW s \in Stages, CheckFlag(s) \/ LockProperties(s) \/ ApplyStage(s)
    PROVE  IInv'
  <1>1. CASE CheckFlag(s)
    <2> USE <1>1
    <2>1. Shape'
      BY DEF IInv, Shape, Labels, CheckFlag, history, GoTo, AfterFailure
    <2>2. TypeOK'
      BY DEF IInv, TypeOK, Rows, HasPlan, CheckFlag, files, effects, history, GoTo, AfterFailure
    <2>3. RecoveryHeld'
      BY DEF IInv, RecoveryHeld, CheckFlag, files, effects, history, GoTo, AfterFailure
    <2>4. FailuresCounted'
      BY DEF IInv, FailuresCounted, Uncounted, CheckFlag, files, effects, history, GoTo,
         AfterFailure
    <2> QED
      BY <2>1, <2>2, <2>3, <2>4 DEF IInv
  <1>2. CASE LockProperties(s)
    <2> USE <1>2
    <2>1. Shape'
      BY DEF IInv, Shape, Labels, LockProperties, history, GoTo, AfterFailure
    <2>2. TypeOK'
      BY DEF IInv, TypeOK, Shape, Rows, HasPlan, LockProperties, files, effects, history,
         GoTo, AfterFailure, Scripts, Stages
    <2>3. RecoveryHeld'
      BY DEF IInv, RecoveryHeld, LockProperties, history
    <2>4. FailuresCounted'
      BY DEF IInv, FailuresCounted, Uncounted, Shape, LockProperties, files, effects, history,
         GoTo, AfterFailure, Scripts, Stages
    <2> QED
      BY <2>1, <2>2, <2>3, <2>4 DEF IInv
  <1>3. CASE ApplyStage(s)
    <2>0. /\ pc[s] = "apply" /\ propertyLock' = "free"
          /\ UNCHANGED <<plan, boot, inProgress, failures, success, mountCommit, mounted, count,
                         mountLock, recoveryBoot, incomplete, miscounts, overlap, unflagged, offs>>
          /\ Succeeds(s) \/ Fails(s)
      BY <1>3, Outcomes
    <2>1. Shape'
      BY <2>0 DEF IInv, Shape, Labels, Succeeds, Fails, AfterFailure, AfterSuccess
    <2>2. TypeOK'
      <3>0. Numbers /\ Switches /\ OfStages /\ LocksHeld /\ Shape
        BY TypeParts DEF IInv
      <3>1. Numbers'
        BY <2>0, <3>0 DEF Numbers
      <3>2. Switches'
        BY <2>0, <3>0 DEF Switches, Succeeds, Fails
      <3>3. OfStages'
        <4>1. CASE Succeeds(s)
          BY <2>0, <3>0, <4>1 DEF Numbers, OfStages, Rows, HasPlan, Succeeds, Stamp
        <4>2. CASE Fails(s)
          BY <2>0, <3>0, <4>2 DEF Numbers, OfStages, Rows, HasPlan, Fails
        <4> QED BY <2>0, <4>1, <4>2
      <3>4. LocksHeld'
        <4>1. pc' = [pc EXCEPT ![s] = AfterSuccess(s)] \/ pc' = [pc EXCEPT ![s] = AfterFailure(s)]
          BY <2>0 DEF Succeeds, Fails
        <4>2. AfterSuccess(s) \in {"ended", "verify"} /\ AfterFailure(s) \in {"ended", "undo"}
          BY DEF AfterSuccess, AfterFailure
        <4>3. PICK l \in {"ended", "verify", "undo"} : pc' = [pc EXCEPT ![s] = l]
          BY <4>1, <4>2
        <4> QED BY <2>0, <3>0, <4>3 DEF LocksHeld, Shape, Scripts, Stages
      <3> QED
        BY <3>1, <3>2, <3>3, <3>4, TypePartsNext
    <2>3. RecoveryHeld'
      BY <2>0 DEF IInv, RecoveryHeld
    <2>4. FailuresCounted'
      BY <2>0
      DEF IInv, FailuresCounted, Uncounted, Shape, Succeeds, Fails, AfterFailure, AfterSuccess,
          Scripts, Stages
    <2> QED
      BY <2>1, <2>2, <2>3, <2>4 DEF IInv
  <1> QED
    BY <1>1, <1>2, <1>3

\* The wrappers' answer to a failure.
LEMMA UndoSteps ==
    ASSUME IInv, NEW s \in Stages,
           LockRollback(s) \/ RollbackAll(s) \/ RaiseFlag(s) \/ LockDetach(s) \/ Detach(s)
    PROVE  IInv'
  <1>1. CASE LockRollback(s)
    <2> USE <1>1
    <2>1. Shape'
      BY DEF IInv, Shape, Labels, LockRollback, history, GoTo
    <2>2. TypeOK'
      BY DEF IInv, TypeOK, Shape, Rows, HasPlan, LockRollback, files, effects, history, GoTo,
         Scripts, Stages
    <2>3. RecoveryHeld'
      BY DEF IInv, RecoveryHeld, Shape, LockRollback, files, effects, history, GoTo, Scripts
    <2>4. FailuresCounted'
      BY DEF IInv, FailuresCounted, Uncounted, Shape, LockRollback, files, effects, history,
         GoTo, Scripts, Stages
    <2> QED
      BY <2>1, <2>2, <2>3, <2>4 DEF IInv
  <1>2. CASE RollbackAll(s)
    <2> USE <1>2
    <2>1. Shape'
      BY DEF IInv, Shape, Labels, RollbackAll, GoTo
    <2>2. TypeOK'
      <3>0. Numbers /\ Switches /\ OfStages /\ LocksHeld /\ Shape
        BY TypeParts DEF IInv
      <3>1. Numbers'
        BY <3>0 DEF Numbers, RollbackAll
      <3>2. Switches'
        BY <3>0 DEF Switches, RollbackAll
      <3>3. OfStages'
        BY <3>0, RowsOfStages DEF Numbers, OfStages, Shape, Rows, HasPlan, RollbackAll
      <3>4. LocksHeld'
        BY <3>0 DEF LocksHeld, Shape, RollbackAll, GoTo, Scripts, Stages
      <3> QED
        BY <3>1, <3>2, <3>3, <3>4, TypePartsNext
    <2>3. RecoveryHeld'
      BY DEF IInv, RecoveryHeld, RollbackAll, GoTo
    <2>4. FailuresCounted'
      BY DEF IInv, FailuresCounted, Uncounted, RollbackAll, GoTo
    <2> QED
      BY <2>1, <2>2, <2>3, <2>4 DEF IInv
  <1>3. CASE RaiseFlag(s)
    <2> USE <1>3
    <2>1. Shape'
      BY DEF IInv, Shape, Labels, RaiseFlag, history, GoTo, WriteFlag
    <2>2. TypeOK'
      <3>0. Numbers /\ Switches /\ OfStages /\ LocksHeld /\ Shape
        BY TypeParts DEF IInv
      <3>1. Numbers'
        BY <3>0 DEF Numbers, RaiseFlag
      <3>2. Switches'
        BY <3>0 DEF Switches, RaiseFlag, WriteFlag, effects
      <3>3. OfStages'
        BY <3>0 DEF OfStages, Rows, HasPlan, RaiseFlag, effects
      <3>4. LocksHeld'
        BY <3>0 DEF LocksHeld, Shape, RaiseFlag, GoTo, Scripts
      <3> QED
        BY <3>1, <3>2, <3>3, <3>4, TypePartsNext
    <2>3. RecoveryHeld'
      <3>1. flag => flag'
        BY DEF RaiseFlag, WriteFlag
      <3> QED
        BY <3>1 DEF IInv, RecoveryHeld, RaiseFlag, effects, GoTo, Shape, Scripts
    <2>4. FailuresCounted'
      BY DEF IInv, FailuresCounted, Uncounted, RaiseFlag, effects, history, GoTo, WriteFlag
    <2> QED
      BY <2>1, <2>2, <2>3, <2>4 DEF IInv
  <1>4. CASE LockDetach(s)
    <2> USE <1>4
    <2>1. Shape'
      BY DEF IInv, Shape, Labels, LockDetach, history, GoTo, AfterSuccess
    <2>2. TypeOK'
      BY DEF IInv, TypeOK, Shape, Rows, HasPlan, LockDetach, files, effects, history, GoTo,
         AfterSuccess, Scripts, Stages
    <2>3. RecoveryHeld'
      BY DEF IInv, RecoveryHeld, Shape, LockDetach, files, effects, history, GoTo,
         AfterSuccess, Scripts
    <2>4. FailuresCounted'
      BY DEF IInv, FailuresCounted, Uncounted, Shape, LockDetach, files, effects, history,
         GoTo, AfterSuccess, Scripts, Stages
    <2> QED
      BY <2>1, <2>2, <2>3, <2>4 DEF IInv
  <1>5. CASE Detach(s)
    <2> USE <1>5
    <2>1. Shape'
      BY DEF IInv, Shape, Labels, Detach, GoTo, AfterSuccess
    <2>2. TypeOK'
      <3>0. Numbers /\ Switches /\ OfStages /\ LocksHeld /\ Shape
        BY TypeParts DEF IInv
      <3>1. Numbers'
        BY <3>0 DEF Numbers, Detach
      <3>2. Switches'
        BY <3>0 DEF Switches, Detach
      <3>3. OfStages'
        BY <3>0 DEF OfStages, Rows, HasPlan, Detach
      <3>4. LocksHeld'
        BY <3>0 DEF LocksHeld, Shape, Detach, GoTo, AfterSuccess, Scripts, Stages
      <3> QED
        BY <3>1, <3>2, <3>3, <3>4, TypePartsNext
    <2>3. RecoveryHeld'
      BY DEF IInv, RecoveryHeld, Shape, Detach, GoTo, AfterSuccess, Scripts
    <2>4. FailuresCounted'
      BY DEF IInv, FailuresCounted, Uncounted, TypeOK, Detach, GoTo, AfterSuccess
    <2> QED
      BY <2>1, <2>2, <2>3, <2>4 DEF IInv
  <1> QED
    BY <1>1, <1>2, <1>3, <1>4, <1>5

\* The guard and the mounts.
LEMMA BootApplySteps == IInv /\ (GuardCount \/ GuardLimit \/ LockMount \/ Mount) => IInv'
  <1> SUFFICES ASSUME IInv, GuardCount \/ GuardLimit \/ LockMount \/ Mount PROVE IInv'
    OBVIOUS
  <1>1. CASE GuardCount
    <2> USE <1>1
    <2>1. Shape'
      BY DEF IInv, Shape, Labels, GuardCount, GoTo, Scripts
    <2>2. TypeOK'
      <3>0. Numbers /\ Switches /\ OfStages /\ LocksHeld /\ Shape
        BY TypeParts DEF IInv
      <3>1. Numbers'
        BY <3>0 DEF IInv, FailuresCounted, Numbers, GuardCount
      <3>2. Switches'
        BY <3>0 DEF Switches, GuardCount, effects
      <3>3. OfStages'
        BY <3>0 DEF OfStages, Rows, HasPlan, GuardCount, effects
      <3>4. LocksHeld'
        BY <3>0 DEF LocksHeld, GuardCount, GoTo
      <3> QED
        BY <3>1, <3>2, <3>3, <3>4, TypePartsNext
    <2>3. RecoveryHeld'
      BY DEF IInv, RecoveryHeld, GuardCount, effects, GoTo
    <2>4. FailuresCounted'
      BY DEF IInv, FailuresCounted, Uncounted, Shape, TypeOK, GuardCount, effects, GoTo, Scripts
    <2> QED
      BY <2>1, <2>2, <2>3, <2>4 DEF IInv
  <1>2. CASE GuardLimit
    <2> USE <1>2
    <2>1. Shape'
      BY DEF IInv, Shape, Labels, GuardLimit, history, GoTo, Limit, WriteFlag
    <2>2. TypeOK'
      <3>0. Numbers /\ Switches /\ OfStages /\ LocksHeld /\ Shape
        BY TypeParts DEF IInv
      <3>1. Numbers'
        BY <3>0 DEF Numbers, GuardLimit, Limit, WriteFlag
      <3>2. Switches'
        BY <3>0 DEF Switches, GuardLimit, effects, history, Limit, WriteFlag
      <3>3. OfStages'
        BY <3>0 DEF OfStages, Rows, HasPlan, GuardLimit, effects, history, Limit, WriteFlag
      <3>4. LocksHeld'
        BY <3>0 DEF LocksHeld, Shape, GuardLimit, GoTo, Limit, WriteFlag
      <3> QED
        BY <3>1, <3>2, <3>3, <3>4, TypePartsNext
    <2>3. RecoveryHeld'
      BY DEF IInv, RecoveryHeld, Shape, GuardLimit, effects, history, GoTo, Limit, Scripts,
             WriteFlag
    <2>4. FailuresCounted'
      BY DEF IInv, FailuresCounted, Uncounted, Shape, TypeOK, GuardLimit, effects, history,
         GoTo, Limit, Scripts, Stages, WriteFlag
    <2> QED
      BY <2>1, <2>2, <2>3, <2>4 DEF IInv
  <1>3. CASE LockMount
    <2> USE <1>3
    <2>1. Shape'
      BY DEF IInv, Shape, Labels, LockMount, history, GoTo
    <2>2. TypeOK'
      BY DEF IInv, TypeOK, Shape, Rows, HasPlan, LockMount, files, effects, history, GoTo,
         Scripts, Stages
    <2>3. RecoveryHeld'
      BY DEF IInv, RecoveryHeld, LockMount, files, effects, history, GoTo
    <2>4. FailuresCounted'
      BY DEF IInv, FailuresCounted, Uncounted, LockMount, files, history, GoTo
    <2> QED
      BY <2>1, <2>2, <2>3, <2>4 DEF IInv
  <1>4. CASE Mount
    <2> USE <1>4
    <2>1. Shape'
      BY DEF IInv, Shape, Labels, Mount, GoTo
    <2>2. TypeOK'
      <3>0. Numbers /\ Switches /\ OfStages /\ LocksHeld /\ Shape
        BY TypeParts DEF IInv
      <3>1. Numbers'
        BY <3>0 DEF Numbers, Mount
      <3>2. Switches'
        BY <3>0 DEF Switches, Mount
      <3>3. OfStages'
        BY <3>0 DEF OfStages, Rows, HasPlan, Mount
      <3>4. LocksHeld'
        BY <3>0 DEF LocksHeld, Shape, Mount, GoTo, Scripts, Stages
      <3> QED
        BY <3>1, <3>2, <3>3, <3>4, TypePartsNext
    <2>3. RecoveryHeld'
      BY DEF IInv, RecoveryHeld, Mount, GoTo
    <2>4. FailuresCounted'
      BY DEF IInv, FailuresCounted, Uncounted, Mount, GoTo
    <2> QED
      BY <2>1, <2>2, <2>3, <2>4 DEF IInv
  <1> QED
    BY <1>1, <1>2, <1>3, <1>4

\* The end of the boot.
LEMMA BootCompleteSteps ==
    ASSUME IInv, LockComplete \/ CompleteVerify \/ Unmark \/ ResetFailures \/ RecordSuccess
    PROVE  IInv'
  <1>1. CASE LockComplete
    <2> USE <1>1
    <2>1. Shape'
      BY DEF IInv, Shape, Labels, LockComplete, history, GoTo
    <2>2. TypeOK'
      BY DEF IInv, TypeOK, Shape, Rows, HasPlan, LockComplete, files, effects, history, GoTo,
         Scripts, Stages
    <2>3. RecoveryHeld'
      BY DEF IInv, RecoveryHeld, Shape, LockComplete, files, effects, history, GoTo, Scripts
    <2>4. FailuresCounted'
      BY DEF IInv, FailuresCounted, Uncounted, Shape, LockComplete, files, effects, history,
         GoTo, Scripts
    <2> QED
      BY <2>1, <2>2, <2>3, <2>4 DEF IInv
  <1>2. CASE CompleteVerify
    <2> USE <1>2
    <2>1. Shape'
      BY DEF IInv, Shape, Labels, CompleteVerify, history, GoTo
    <2>2. TypeOK'
      BY DEF IInv, TypeOK, Shape, Rows, HasPlan, CompleteVerify, files, effects, history,
         GoTo, Scripts, Stages
    <2>3. RecoveryHeld'
      BY DEF IInv, RecoveryHeld, Shape, CompleteVerify, files, effects, history, GoTo, Scripts
    <2>4. FailuresCounted'
      BY DEF IInv, FailuresCounted, Uncounted, Shape, CompleteVerify, files, effects, history,
         GoTo, Scripts
    <2> QED
      BY <2>1, <2>2, <2>3, <2>4 DEF IInv
  <1>3. CASE Unmark
    <2> USE <1>3
    <2>1. Shape'
      BY DEF IInv, Shape, Labels, Unmark, GoTo
    <2>2. TypeOK'
      BY DEF IInv, TypeOK, Rows, HasPlan, Unmark, effects, GoTo
    <2>3. RecoveryHeld'
      BY DEF IInv, RecoveryHeld, Unmark, effects, GoTo
    <2>4. FailuresCounted'
      BY DEF IInv, FailuresCounted, Uncounted, TypeOK, Unmark, GoTo
    <2> QED
      BY <2>1, <2>2, <2>3, <2>4 DEF IInv
  <1>4. CASE ResetFailures
    <2> USE <1>4
    <2>1. Shape'
      BY DEF IInv, Shape, Labels, ResetFailures, history, GoTo
    <2>2. TypeOK'
      BY DEF IInv, TypeOK, Rows, HasPlan, ResetFailures, effects, history, GoTo
    <2>3. RecoveryHeld'
      BY DEF IInv, RecoveryHeld, ResetFailures, effects, history, GoTo
    <2>4. FailuresCounted'
      BY DEF IInv, FailuresCounted, Uncounted, Shape, TypeOK, ResetFailures, history
    <2> QED
      BY <2>1, <2>2, <2>3, <2>4 DEF IInv
  <1>5. CASE RecordSuccess
    <2> USE <1>5
    <2>1. Shape'
      BY DEF IInv, Shape, Labels, RecordSuccess, history, GoTo
    <2>2. TypeOK'
      BY DEF IInv, TypeOK, Shape, Rows, HasPlan, RecordSuccess, effects, history, GoTo,
         Scripts, Stages
    <2>3. RecoveryHeld'
      BY DEF IInv, RecoveryHeld, RecordSuccess, effects, history, GoTo
    <2>4. FailuresCounted'
      BY DEF IInv, FailuresCounted, Uncounted, RecordSuccess, effects, history, GoTo
    <2> QED
      BY <2>1, <2>2, <2>3, <2>4 DEF IInv
  <1> QED
    BY <1>1, <1>2, <1>3, <1>4, <1>5

\* The owner and the restart.
LEMMA EnvironmentSteps == IInv /\ (RecoveryOff \/ Reboot) => IInv'
  <1> SUFFICES ASSUME IInv, RecoveryOff \/ Reboot PROVE IInv'
    OBVIOUS
  <1>1. CASE RecoveryOff
    <2> USE <1>1
    <2>1. Shape'
      BY DEF IInv, Shape, RecoveryOff
    <2>2. TypeOK'
      <3>0. Numbers /\ Switches /\ OfStages /\ LocksHeld /\ Shape
        BY TypeParts DEF IInv
      <3>1. Numbers'
        BY <3>0 DEF Numbers, RecoveryOff
      <3>2. Switches'
        BY <3>0 DEF Switches, RecoveryOff, effects
      <3>3. OfStages'
        BY <3>0 DEF OfStages, Rows, HasPlan, RecoveryOff, effects
      <3>4. LocksHeld'
        BY <3>0 DEF LocksHeld, RecoveryOff
      <3> QED
        BY <3>1, <3>2, <3>3, <3>4, TypePartsNext
    <2>3. RecoveryHeld'
      BY DEF IInv, RecoveryHeld, RecoveryOff
    <2>4. FailuresCounted'
      BY DEF IInv, FailuresCounted, Uncounted, TypeOK, RecoveryOff
    <2> QED
      BY <2>1, <2>2, <2>3, <2>4 DEF IInv
  <1>2. CASE Reboot
    <2> USE <1>2
    <2>1. Shape'
      BY DEF IInv, Shape, Labels, Reboot
    <2>2. TypeOK'
      <3>0. Numbers /\ Switches /\ OfStages /\ LocksHeld /\ Shape
        BY TypeParts DEF IInv
      <3>1. Numbers'
        BY <3>0, LifecycleAssumption DEF Numbers, Reboot, files
      <3>2. Switches'
        BY <3>0 DEF Switches, Reboot, files
      <3>3. OfStages'
        BY <3>0 DEF Numbers, OfStages, Reboot, files
      <3>4. LocksHeld'
        BY <3>0 DEF LocksHeld, Reboot, Scripts, Stages
      <3> QED
        BY <3>1, <3>2, <3>3, <3>4, TypePartsNext
    <2>3. RecoveryHeld'
      BY DEF IInv, RecoveryHeld, Reboot, files, Scripts
    <2>4. FailuresCounted'
      BY DEF IInv, FailuresCounted, Uncounted, Shape, TypeOK, Reboot, files, Scripts, Stages
    <2> QED
      BY <2>1, <2>2, <2>3, <2>4 DEF IInv
  <1> QED
    BY <1>1, <1>2

\* Every step keeps the inductive invariant.
LEMMA Step == IInv /\ [Next]_vars => IInv'
  <1> SUFFICES ASSUME IInv, [Next]_vars PROVE IInv'
    OBVIOUS
  <1>1. CASE \E s \in Scripts : Start(s)
    BY <1>1, Starting
  <1>2. CASE \E s \in Stages : CheckFlag(s) \/ LockProperties(s) \/ ApplyStage(s)
    BY <1>2, StageSteps
  <1>3. CASE \E s \in Stages : Undo(s)
    BY <1>3, UndoSteps DEF Undo
  <1>4. CASE BootApply
    BY <1>4, BootApplySteps DEF BootApply
  <1>5. CASE BootComplete
    BY <1>5, BootCompleteSteps DEF BootComplete
  <1>6. CASE RecoveryOff \/ Reboot
    BY <1>6, EnvironmentSteps
  <1>7. CASE UNCHANGED vars
    BY <1>7 DEF IInv, Shape, TypeOK, RecoveryHeld, FailuresCounted, Uncounted, Rows, HasPlan,
                vars, files, effects, history
  <1> QED
    BY <1>1, <1>2, <1>3, <1>4, <1>5, <1>6, <1>7 DEF Next

-----------------------------------------------------------------------------
\* The inductive invariant holds in every state.
THEOREM Invariance == Spec => []IInv
  BY Initially, Step, PTL DEF Spec

\* The types, and that a lock is held by the one command that works under it,
\* for any plan, boots and failures.
THEOREM TypeCorrect == Spec => []TypeOK
  <1>1. IInv => TypeOK
    BY DEF IInv
  <1> QED
    BY <1>1, Invariance, PTL

\* A boot that begins with the recovery flag applies no property and mounts
\* nothing, whatever fails in it and whichever scripts overlap.
THEOREM RecoveryIsQuiet == Spec => []RecoverySuppresses
  <1>1. IInv => RecoverySuppresses
    BY DEF IInv, RecoveryHeld, RecoverySuppresses
  <1> QED
    BY <1>1, Invariance, PTL

\* The guard stops a boot loop: nothing is mounted after two boots in a row that
\* set out to mount and did not complete, plus one for every lost count.
THEOREM GuardStops == Spec => []BootLoopStops
  <1>1. IInv => BootLoopStops
    <2> SUFFICES ASSUME IInv, incomplete >= 2 + miscounts, mounted PROVE FALSE
      BY DEF BootLoopStops, IInv
    <2> QED
      BY DEF IInv, FailuresCounted, Shape
  <1> QED
    BY <1>1, Invariance, PTL
-----------------------------------------------------------------------------
(* What the scripts of one boot know of each other. *)

\* The scripts follow each other, and the counters are numbers.
Ordered ==
    /\ pc["mount"] # "idle" => Ended("early")
    /\ pc["service"] # "idle" => Ended("mount")
    /\ pc["boot-completed"] # "idle" => pc["service"] # "idle"
    /\ ~overlap /\ pc["boot-completed"] # "idle" => Ended("service")
    /\ {propertyLock, mountLock} \subseteq Scripts \cup {"free"}
    /\ faults \in Nat /\ offs \in Nat

\* What is in effect is named by a commit or was reported as left behind; and a
\* script that has not applied yet has nothing in effect.
Named ==
    /\ \A s \in Stages : pc[s] \in {"idle", "flag", "lock", "apply"} => s \notin applied
    /\ \A s \in applied : commits[s] # 0 \/ s \in leftovers
    /\ ~Ended("mount") => ~mounted
    /\ mounted => mountCommit = boot \/ "mounts" \in leftovers

\* The calls of boot-completed.sh after its stage, and those after a verification
\* that counts as a completed boot.
Completing == {"verify", "verifying", "unmark", "reset", "succeed", "ended"}
Completed == pc["boot-completed"] \in {"unmark", "reset", "succeed"} \/ success = boot

\* While the flag has been down since the boot began, and no write of it was lost:
\* a script that failed is on its way to raise it, or every script that has ended
\* has done its work.
Working ==
    /\ success = boot => Ended("boot-completed")
    /\ (~flag /\ ~unflagged /\ offs = 0) =>
          /\ \A s \in Stages : pc[s] \notin {"detach-lock", "detach"}
          /\ Completed => Verified
          /\ (\A s \in Stages : pc[s] # "raise") =>
                /\ pc["boot-completed"] \in Completing /\ "boot-completed" \in Rows =>
                      "boot-completed" \in applied
                /\ Ended("service") /\ "service" \in Rows => "service" \in applied
                /\ Ended("early") /\ "early" \in Rows => "early" \in applied \/ faults > 0

\* When nobody else is running any more, boot-completed.sh sees the flag, or
\* raises it, before it undoes what is in effect; else the flag stays down.
Clearing ==
    ~overlap =>
        /\ pc["boot-completed"] \in {"lock", "apply"} => ~flag
        /\ pc["boot-completed"] \in {"raise", "detach-lock", "detach"} => applied \subseteq leftovers
        /\ pc["boot-completed"] \in Completing /\ flag =>
              applied \subseteq leftovers /\ (mounted => "mounts" \in leftovers)

OneBoot == Ordered /\ Named /\ Working /\ Clearing

\* Scripts start in order, and nothing but a reboot takes one back.
LEMMA OrderedKept == IInv /\ Ordered /\ [Next]_vars => Ordered'
  <1> SUFFICES ASSUME IInv, Ordered, [Next]_vars PROVE Ordered'
    OBVIOUS
  <1>1. ASSUME NEW s \in Scripts, Start(s) PROVE Ordered'
    BY <1>1 DEF IInv, Ordered, Ended, Start, MayStart, GoTo, files, Scripts, Stages, Shape
  <1>2. ASSUME NEW s \in Stages, CheckFlag(s) PROVE Ordered'
    BY <1>2 DEF Ordered, Ended, CheckFlag, GoTo, AfterFailure, files, history
  <1>3. ASSUME NEW s \in Stages, LockProperties(s) PROVE Ordered'
    BY <1>3
    DEF IInv, Ordered, Ended, LockProperties, GoTo, AfterFailure, files, history, Scripts,
        Stages, Shape
  <1>4. ASSUME NEW s \in Stages, ApplyStage(s) PROVE Ordered'
    <2>1. /\ pc[s] = "apply" /\ propertyLock' = "free" /\ UNCHANGED <<mountLock, overlap, offs>>
          /\ Succeeds(s) \/ Fails(s)
      BY <1>4, Outcomes
    <2>2. CASE Succeeds(s)
      BY <2>1, <2>2
      DEF IInv, Ordered, Ended, Succeeds, AfterSuccess, Scripts, Stages, Shape
    <2>3. CASE Fails(s)
      BY <2>1, <2>3
      DEF IInv, Ordered, Ended, Fails, AfterFailure, Scripts, Stages, Shape
    <2> QED BY <2>1, <2>2, <2>3
  <1>5. ASSUME NEW s \in Stages, LockRollback(s) PROVE Ordered'
    BY <1>5 DEF IInv, Ordered, Ended, LockRollback, GoTo, files, history, Scripts, Stages, Shape
  <1>6. ASSUME NEW s \in Stages, RollbackAll(s) PROVE Ordered'
    BY <1>6 DEF Ordered, Ended, RollbackAll, GoTo, Fault
  <1>7. ASSUME NEW s \in Stages, RaiseFlag(s) PROVE Ordered'
    BY <1>7 DEF Ordered, Ended, RaiseFlag, GoTo, WriteFlag, Fault
  <1>8. ASSUME NEW s \in Stages, LockDetach(s) PROVE Ordered'
    BY <1>8
    DEF IInv, Ordered, Ended, LockDetach, GoTo, AfterSuccess, files, history, Scripts, Stages,
        Shape
  <1>9. ASSUME NEW s \in Stages, Detach(s) PROVE Ordered'
    BY <1>9 DEF Ordered, Ended, Detach, GoTo, Fault, AfterSuccess
  <1>10. CASE GuardCount
    BY <1>10 DEF Ordered, Ended, GuardCount, GoTo, Fault
  <1>11. CASE GuardLimit
    BY <1>11 DEF IInv, Ordered, Ended, GuardLimit, GoTo, Fault, history, Scripts, Stages, Shape,
                 WriteFlag
  <1>12. CASE LockMount
    BY <1>12 DEF Ordered, Ended, LockMount, GoTo, files, history, Scripts
  <1>13. CASE Mount
    BY <1>13 DEF Ordered, Ended, Mount, GoTo, Fault
  <1>14. CASE LockComplete
    BY <1>14
    DEF IInv, Ordered, Ended, LockComplete, GoTo, files, history, Scripts, Stages, Shape
  <1>15. CASE CompleteVerify
    BY <1>15
    DEF IInv, Ordered, Ended, CompleteVerify, GoTo, Fault, files, history, Scripts, Stages,
        Shape
  <1>16. CASE Unmark
    BY <1>16 DEF Ordered, Ended, Unmark, GoTo
  <1>17. CASE ResetFailures
    BY <1>17 DEF Ordered, Ended, ResetFailures, GoTo, history
  <1>18. CASE RecordSuccess
    BY <1>18 DEF Ordered, Ended, RecordSuccess, GoTo, history
  <1>19. CASE RecoveryOff
    BY <1>19 DEF Ordered, Ended, RecoveryOff
  <1>20. CASE Reboot
    BY <1>20 DEF Ordered, Reboot, files, Scripts, Stages
  <1>21. CASE UNCHANGED vars
    BY <1>21 DEF Ordered, Ended, vars, files, history
  <1> QED
    BY <1>1, <1>2, <1>3, <1>4, <1>5, <1>6, <1>7, <1>8, <1>9, <1>10, <1>11, <1>12, <1>13, <1>14,
       <1>15, <1>16, <1>17, <1>18, <1>19, <1>20, <1>21
    DEF Next, Undo, BootApply, BootComplete

\* Every step names what it puts in effect, or what it leaves.
LEMMA NamedKept == IInv /\ Ordered /\ Named /\ [Next]_vars => Named'
  <1> SUFFICES ASSUME IInv, Ordered /\ Named, [Next]_vars PROVE Named'
    OBVIOUS
  <1>1. ASSUME NEW s \in Scripts, Start(s) PROVE Named'
    BY <1>1 DEF Named, Ended, HasPlan, Start, GoTo, files, effects
  <1>2. ASSUME NEW s \in Stages, CheckFlag(s) PROVE Named'
    BY <1>2 DEF Named, Ended, HasPlan, CheckFlag, GoTo, AfterFailure, files, effects, history
  <1>3. ASSUME NEW s \in Stages, LockProperties(s) PROVE Named'
    BY <1>3
    DEF IInv, Named, Ended, HasPlan, LockProperties, GoTo, AfterFailure, files, effects,
        history, Scripts, Shape
  <1>4. ASSUME NEW s \in Stages, ApplyStage(s) PROVE Named'
    <2>1. /\ pc[s] = "apply" /\ UNCHANGED <<boot, mountCommit, mounted>>
          /\ Succeeds(s) \/ Fails(s)
      BY <1>4, Outcomes
    <2>2. CASE Succeeds(s)
      BY <2>1, <2>2, LifecycleAssumption
      DEF IInv, Named, Ended, Stamp, Rows, HasPlan, Succeeds, AfterSuccess, Scripts, Shape,
          TypeOK
    <2>3. CASE Fails(s)
      BY <2>1, <2>3, LifecycleAssumption
      DEF IInv, Named, Ended, Fails, AfterFailure, Scripts, Shape, TypeOK
    <2> QED BY <2>1, <2>2, <2>3
  <1>5. ASSUME NEW s \in Stages, LockRollback(s) PROVE Named'
    BY <1>5
    DEF IInv, Named, Ended, HasPlan, LockRollback, GoTo, files, effects, history, Scripts, Shape
  <1>6. ASSUME NEW s \in Stages, RollbackAll(s) PROVE Named'
    BY <1>6, LifecycleAssumption
    DEF IInv, Named, Ended, Rows, HasPlan, RollbackAll, GoTo, Shape, TypeOK
  <1>7. ASSUME NEW s \in Stages, RaiseFlag(s) PROVE Named'
    BY <1>7 DEF Named, Ended, HasPlan, RaiseFlag, GoTo, effects, WriteFlag, Fault
  <1>8. ASSUME NEW s \in Stages, LockDetach(s) PROVE Named'
    BY <1>8
    DEF IInv, Named, Ended, HasPlan, LockDetach, GoTo, AfterSuccess, files, effects, history,
        Scripts, Shape
  <1>9. ASSUME NEW s \in Stages, Detach(s) PROVE Named'
    <2>1. \A t \in Stages : pc'[t] \in {"idle", "flag", "lock", "apply"} => pc[t] = pc'[t]
      BY <1>9 DEF Detach, GoTo, AfterSuccess
    <2>2. pc'["mount"] = pc["mount"]
      BY <1>9 DEF Detach, GoTo, Stages
    <2>3. UNCHANGED <<applied, commits, boot>> /\ leftovers \subseteq leftovers'
      BY <1>9 DEF Detach
    <2>4. mounted' => mounted /\ (mountCommit = boot => mountCommit' = boot /\ "mounts" \in leftovers')
      BY <1>9 DEF Detach
    <2> QED
      BY <2>1, <2>2, <2>3, <2>4 DEF Named, Ended
  <1>10. CASE GuardCount
    BY <1>10 DEF Named, Ended, HasPlan, GuardCount, GoTo, effects
  <1>11. CASE GuardLimit
    BY <1>11 DEF IInv, Named, Ended, HasPlan, GuardLimit, GoTo, effects, history, Scripts, Shape,
                 WriteFlag
  <1>12. CASE LockMount
    BY <1>12 DEF Named, Ended, HasPlan, LockMount, GoTo, files, effects, history
  <1>13. CASE Mount
    BY <1>13 DEF IInv, Named, Ended, HasPlan, Mount, GoTo, Scripts, Shape
  <1>14. CASE LockComplete
    BY <1>14
    DEF IInv, Named, Ended, HasPlan, LockComplete, GoTo, files, effects, history, Scripts, Shape
  <1>15. CASE CompleteVerify
    BY <1>15
    DEF IInv, Named, Ended, HasPlan, CompleteVerify, GoTo, files, effects, history, Scripts,
        Shape
  <1>16. CASE Unmark
    BY <1>16 DEF Named, Ended, HasPlan, Unmark, GoTo, effects
  <1>17. CASE ResetFailures
    BY <1>17 DEF Named, Ended, HasPlan, ResetFailures, GoTo, effects, history
  <1>18. CASE RecordSuccess
    BY <1>18 DEF Named, Ended, HasPlan, RecordSuccess, GoTo, effects, history
  <1>19. CASE RecoveryOff
    BY <1>19 DEF Named, Ended, HasPlan, RecoveryOff, effects
  <1>20. CASE Reboot
    BY <1>20 DEF Named, HasPlan, Reboot, files
  <1>21. CASE UNCHANGED vars
    BY <1>21 DEF Named, Ended, vars, files, effects, history
  <1> QED
    BY <1>1, <1>2, <1>3, <1>4, <1>5, <1>6, <1>7, <1>8, <1>9, <1>10, <1>11, <1>12, <1>13, <1>14,
       <1>15, <1>16, <1>17, <1>18, <1>19, <1>20, <1>21
    DEF Next, Undo, BootApply, BootComplete

\* A failure reaches the flag before its script ends.
LEMMA WorkingKept == IInv /\ Ordered /\ Working /\ [Next]_vars => Working'
  <1> SUFFICES ASSUME IInv, Ordered /\ Working, [Next]_vars PROVE Working'
    OBVIOUS
  <1>1. ASSUME NEW s \in Scripts, Start(s) PROVE Working'
    BY <1>1
    DEF Working, Ended, Completing, Completed, Verified, Rows, HasPlan, Start, GoTo, files,
        effects
  <1>2. ASSUME NEW s \in Stages, CheckFlag(s) PROVE Working'
    BY <1>2
    DEF Working, Ended, Completing, Completed, Verified, Rows, HasPlan, CheckFlag, GoTo,
        AfterFailure, files, effects, history
  <1>3. ASSUME NEW s \in Stages, LockProperties(s) PROVE Working'
    BY <1>3
    DEF IInv, Working, Ordered, Ended, Completing, Completed, Verified, Rows, HasPlan,
        LockProperties, GoTo, AfterFailure, files, effects, history, Scripts, Stages, Shape,
        TypeOK
  <1>4. ASSUME NEW s \in Stages, ApplyStage(s) PROVE Working'
    <2>1. /\ pc[s] = "apply"
          /\ Succeeds(s) \/ Fails(s)
          /\ UNCHANGED <<plan, boot, success, mountCommit, mounted, unflagged, offs>>
      BY <1>4, Outcomes
    <2>2. CASE Succeeds(s)
      BY <2>1, <2>2
      DEF IInv, Working, Ordered, Ended, Completing, Completed, Verified, Rows, HasPlan,
          Succeeds, AfterSuccess, Scripts, Stages, Shape
    <2>3. CASE Fails(s)
      <3>1. /\ pc[s] = "apply" /\ pc \in [Scripts -> Labels] /\ s \in Scripts
            /\ pc' = [pc EXCEPT ![s] = IF s = "early" THEN "ended" ELSE "undo"]
            /\ faults \in Nat /\ faults' \in {faults, faults + 1}
            /\ ("early" \in Rows => faults' = faults + 1) /\ Rows' = Rows
        BY <2>1, <2>3
        DEF IInv, Shape, Ordered, Fails, AfterFailure, Rows, HasPlan, Scripts
      <3>6. ~flag' => ~flag
        BY <2>3 DEF Fails
      <3>7. applied \subseteq applied' /\ applied' \subseteq applied \cup {s}
        BY <2>3 DEF Fails
      <3>2. \A t \in Stages : pc'[t] \in {"raise", "detach-lock", "detach"} => pc'[t] = pc[t] /\ t # s
        BY <3>1 DEF Scripts
      <3>3. \A t \in Stages : pc[t] \in {"raise", "detach-lock", "detach"} => pc'[t] = pc[t]
        BY <3>1 DEF Scripts
      <3>4. CASE s = "early"
        <4>1. \A t \in {"service", "boot-completed", "mount"} : pc'[t] = pc[t]
          BY <3>1, <3>4 DEF Scripts, Stages
        <4> QED
          BY <2>1, <3>1, <3>2, <3>3, <3>4, <3>6, <3>7, <4>1
          DEF Working, Ended, Completing, Completed, Verified, Stages
      <3>5. CASE s # "early"
        <4>1. /\ pc'[s] = "undo" /\ \A t \in Scripts : t # s => pc'[t] = pc[t]
              /\ pc'["early"] = pc["early"] /\ s \in {"service", "boot-completed"}
          BY <3>1, <3>5 DEF Scripts, Stages
        <4> QED
          BY <2>1, <3>1, <3>2, <3>3, <3>5, <3>6, <3>7, <4>1
          DEF Working, Ended, Completing, Completed, Verified, Scripts, Stages
      <3> QED BY <3>4, <3>5
    <2> QED BY <2>1, <2>2, <2>3
  <1>5. ASSUME NEW s \in Stages, LockRollback(s) PROVE Working'
    BY <1>5
    DEF IInv, Working, Ended, Completing, Completed, Verified, Rows, HasPlan, LockRollback,
        GoTo, files, effects, history, Scripts, Stages, Shape
  <1>6. ASSUME NEW s \in Stages, RollbackAll(s) PROVE Working'
    BY <1>6
    DEF IInv, Working, Ended, Completing, Completed, Verified, HasPlan, RollbackAll, GoTo,
        Scripts, Shape
  <1>7. ASSUME NEW s \in Stages, RaiseFlag(s) PROVE Working'
    <2>1. flag' \/ unflagged'
      BY <1>7 DEF RaiseFlag
    <2>2. success' = boot' => pc'["boot-completed"] = "ended"
      BY <1>7 DEF IInv, Shape, Scripts, Stages, Working, Ended, RaiseFlag, GoTo
    <2> QED BY <2>1, <2>2 DEF Working, Ended
  <1>8. ASSUME NEW s \in Stages, LockDetach(s) PROVE Working'
    BY <1>8
    DEF IInv, Working, Ended, Completing, Completed, Verified, HasPlan, LockDetach, GoTo,
        AfterSuccess, files, history, Scripts, Stages, Shape
  <1>9. ASSUME NEW s \in Stages, Detach(s) PROVE Working'
    BY <1>9
    DEF Working, Ended, Completing, Completed, Verified, HasPlan, Detach, GoTo, AfterSuccess
  <1>10. CASE GuardCount
    BY <1>10
    DEF Working, Ordered, Ended, Completing, Completed, Verified, Rows, HasPlan, GuardCount,
        GoTo, Fault, effects
  <1>11. CASE GuardLimit
    BY <1>11
    DEF IInv, Working, Ordered, Ended, Completing, Completed, Verified, Rows, HasPlan,
        GuardLimit, GoTo, Fault, effects, history, Scripts, Stages, Shape, WriteFlag
  <1>12. CASE LockMount
    BY <1>12
    DEF Working, Ended, Completing, Completed, Verified, Rows, HasPlan, LockMount, GoTo, files,
        effects, history
  <1>13. CASE Mount
    BY <1>13
    DEF Working, Ordered, Ended, Completing, Completed, Verified, Rows, HasPlan, Mount, GoTo,
        Fault
  <1>14. CASE LockComplete
    BY <1>14, LifecycleAssumption
    DEF IInv, Working, Ended, Completing, Completed, Verified, Rows, HasPlan, LockComplete,
        GoTo, files, effects, history, Scripts, Shape
  <1>15. CASE CompleteVerify
    BY <1>15, LifecycleAssumption
    DEF IInv, Working, Ordered, Ended, Completing, Completed, Verified, Rows, HasPlan,
        CompleteVerify, GoTo, Fault, files, effects, history, Scripts, Shape
  <1>16. CASE Unmark
    BY <1>16
    DEF Working, Ended, Completing, Completed, Verified, Rows, HasPlan, Unmark, GoTo, effects
  <1>17. CASE ResetFailures
    BY <1>17
    DEF Working, Ended, Completing, Completed, Verified, Rows, HasPlan, ResetFailures, GoTo,
        effects, history
  <1>18. CASE RecordSuccess
    BY <1>18
    DEF IInv, Working, Ended, Completing, Completed, Verified, Rows, HasPlan, RecordSuccess,
        GoTo, effects, history, Scripts, Stages, Shape
  <1>19. CASE RecoveryOff
    BY <1>19 DEF Working, Ordered, Ended, Completing, Completed, Verified, HasPlan, RecoveryOff
  <1>20. CASE Reboot
    BY <1>20
    DEF IInv, Working, Ended, Completing, Completed, Verified, HasPlan, Reboot, files, Scripts,
        Stages, TypeOK
  <1>21. CASE UNCHANGED vars
    BY <1>21
    DEF Working, Ended, Completing, Completed, Verified, Rows, HasPlan, vars, files, effects,
        history
  <1> QED
    BY <1>1, <1>2, <1>3, <1>4, <1>5, <1>6, <1>7, <1>8, <1>9, <1>10, <1>11, <1>12, <1>13, <1>14,
       <1>15, <1>16, <1>17, <1>18, <1>19, <1>20, <1>21
    DEF Next, Undo, BootApply, BootComplete

\* boot-completed.sh, on its own, clears what the flag finds in effect.
LEMMA ClearingKept == IInv /\ Ordered /\ Named /\ Clearing /\ [Next]_vars => Clearing'
  <1> SUFFICES ASSUME IInv, Ordered /\ Named /\ Clearing, [Next]_vars PROVE Clearing'
    OBVIOUS
  <1>1. ASSUME NEW s \in Scripts, Start(s) PROVE Clearing'
    BY <1>1 DEF IInv, Clearing, Completing, Start, GoTo, files, effects, TypeOK
  <1>2. ASSUME NEW s \in Stages, CheckFlag(s) PROVE Clearing'
    BY <1>2 DEF Clearing, Completing, CheckFlag, GoTo, AfterFailure, files, effects, history
  <1>3. ASSUME NEW s \in Stages, LockProperties(s) PROVE Clearing'
    BY <1>3
    DEF IInv, Clearing, Completing, LockProperties, GoTo, AfterFailure, files, effects, history,
        Scripts, Stages, Shape
  <1>4. ASSUME NEW s \in Stages, ApplyStage(s) PROVE Clearing'
    BY <1>4, Outcomes
    DEF IInv, Clearing, Ordered, Ended, Completing, Succeeds, Fails, AfterFailure,
        AfterSuccess, Scripts, Stages, Shape
  <1>5. ASSUME NEW s \in Stages, LockRollback(s) PROVE Clearing'
    BY <1>5
    DEF IInv, Clearing, Ordered, Ended, Completing, LockRollback, GoTo, files, history, Scripts,
        Stages, Shape, TypeOK
  <1>6. ASSUME NEW s \in Stages, RollbackAll(s) PROVE Clearing'
    <2>1. applied' \subseteq leftovers'
      <3>1. applied \subseteq Stages
        BY RowsOfStages DEF IInv, Shape, TypeOK
      <3> SUFFICES ASSUME NEW g \in Stages, g \in applied' PROVE g \in leftovers'
        BY <1>6, <3>1 DEF RollbackAll
      <3>2. CASE commits[g] = boot
        BY <1>6, <3>2 DEF RollbackAll
      <3>3. CASE commits[g] = 0
        BY <1>6, <3>3 DEF Named, RollbackAll
      <3>4. CASE commits[g] \notin {0, boot}
        BY <1>6, <3>4 DEF RollbackAll
      <3> QED
        BY <3>2, <3>3, <3>4
    <2>2. UNCHANGED <<overlap, flag, mounted>> /\ leftovers \subseteq leftovers'
      BY <1>6 DEF RollbackAll
    <2>3. CASE s = "boot-completed"
      BY <1>6, <2>1, <2>2, <2>3 DEF Clearing, Completing, RollbackAll, GoTo
    <2>4. CASE s # "boot-completed"
      BY <1>6, <2>1, <2>2, <2>4 DEF Clearing, Completing, RollbackAll, GoTo
    <2> QED
      BY <2>3, <2>4
  <1>7. ASSUME NEW s \in Stages, RaiseFlag(s) PROVE Clearing'
    BY <1>7 DEF Clearing, Ordered, Ended, Completing, RaiseFlag, GoTo, effects, Stages,
                WriteFlag, Fault
  <1>8. ASSUME NEW s \in Stages, LockDetach(s) PROVE Clearing'
    BY <1>8
    DEF IInv, Clearing, Ordered, Ended, Completing, LockDetach, GoTo, AfterSuccess, files,
        effects, history, Scripts, Stages, Shape, TypeOK
  <1>9. ASSUME NEW s \in Stages, Detach(s) PROVE Clearing'
    BY <1>9 DEF IInv, Clearing, Named, Completing, Detach, GoTo, AfterSuccess, TypeOK
  <1>10. CASE GuardCount
    BY <1>10 DEF Clearing, Completing, GuardCount, GoTo, effects
  <1>11. CASE GuardLimit
    BY <1>11
    DEF IInv, Clearing, Ordered, Ended, Completing, GuardLimit, GoTo, history, Scripts, Stages,
        Shape, WriteFlag
  <1>12. CASE LockMount
    BY <1>12 DEF Clearing, Completing, LockMount, GoTo, files, effects, history
  <1>13. CASE Mount
    BY <1>13 DEF Clearing, Ordered, Ended, Completing, Mount, GoTo
  <1>14. CASE LockComplete
    BY <1>14 DEF IInv, Clearing, Completing, LockComplete, GoTo, files, effects, history, Shape
  <1>15. CASE CompleteVerify
    BY <1>15
    DEF IInv, Clearing, Completing, CompleteVerify, GoTo, files, effects, history, Shape
  <1>16. CASE Unmark
    BY <1>16 DEF Clearing, Completing, Unmark, GoTo, effects
  <1>17. CASE ResetFailures
    BY <1>17 DEF Clearing, Completing, ResetFailures, GoTo, effects, history
  <1>18. CASE RecordSuccess
    BY <1>18 DEF Clearing, Completing, RecordSuccess, GoTo, effects, history
  <1>19. CASE RecoveryOff
    BY <1>19 DEF Clearing, Completing, RecoveryOff, effects
  <1>20. CASE Reboot
    BY <1>20 DEF Clearing, Completing, Reboot, files, Scripts, Stages
  <1>21. CASE UNCHANGED vars
    BY <1>21 DEF Clearing, Completing, vars, files, effects, history
  <1> QED
    BY <1>1, <1>2, <1>3, <1>4, <1>5, <1>6, <1>7, <1>8, <1>9, <1>10, <1>11, <1>12, <1>13, <1>14,
       <1>15, <1>16, <1>17, <1>18, <1>19, <1>20, <1>21
    DEF Next, Undo, BootApply, BootComplete


\* The first boot.
LEMMA OneBootInit == Init => OneBoot
  BY DEF Init, OneBoot, Ordered, Named, Working, Clearing, Ended, Completing, Completed,
         Scripts, Stages

-----------------------------------------------------------------------------
\* What the scripts of a boot know of each other holds in every state.
LEMMA OneBootHolds == Spec => [](IInv /\ OneBoot)
  <1>1. IInv /\ OneBoot /\ [Next]_vars => OneBoot'
    BY OrderedKept, NamedKept, WorkingKept, ClearingKept DEF OneBoot
  <1> QED
    BY <1>1, OneBootInit, Invariance, PTL DEF Spec

\* A boot recorded as successful whose flag is down is whole: its mounts, and
\* every stage but perhaps the early one, whatever failed and overlapped, as long
\* as recovery-on could write the flag.
THEOREM SuccessIsWhole == Spec => []SuccessfulBootIsWhole
  <1>1. IInv /\ OneBoot => SuccessfulBootIsWhole
    BY RowsOfStages
    DEF IInv, Shape, OneBoot, Working, Completing, Completed, Verified, SuccessfulBootIsWhole,
        Quiescent, Ended, Scripts, Stages
  <1> QED
    BY <1>1, OneBootHolds, PTL

\* A boot that ends with the flag up, its last two scripts one after the other,
\* leaves nothing in effect but what an undo could not restore.
THEOREM RecoveryClears == Spec => []RecoveryLeavesNothing
  <1>1. OneBoot => RecoveryLeavesNothing
    BY DEF OneBoot, Clearing, Completing, RecoveryLeavesNothing, Quiescent, Ended, Scripts,
           Stages
  <1> QED
    BY <1>1, OneBootHolds, PTL
=============================================================================
