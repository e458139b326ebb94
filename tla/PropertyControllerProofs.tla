--------------------- MODULE PropertyControllerProofs ---------------------
(***************************************************************************)
(* Proofs about PropertyController, for any plan rows, values, faults and  *)
(* surroundings: what a journal holds and what an undo restores.           *)
(***************************************************************************)
EXTENDS PropertyController, TLAPS

Undoing == {"undo", "restore", "recheck"}

Busy == Undoing \cup {"preflight", "own", "set", "check", "publish", "commit"}

\* A journal has the keys of the first rows of its stage, and each call has got
\* to a row of it.
Journalled ==
    /\ \A s \in Stages :
          /\ Len(journal[s]) <= Len(PlanRows[s])
          /\ \A i \in 1..Len(journal[s]) : journal[s][i].key = PlanRows[s][i]
    /\ pc \notin Undoing \cup {"own", "set", "check", "publish", "commit"} => row = 0
    /\ pc = "preflight" => journal[stage] = <<>>
    /\ pc \in {"own", "set", "check"} => row > 0
    /\ pc = "own" => Len(journal[stage]) = row - 1
    /\ pc \in {"set", "check", "publish", "commit"} => Len(journal[stage]) = row
    /\ pc \in {"publish", "commit"} => row = Len(PlanRows[stage])
    /\ pc \in Undoing => row <= Len(journal[stage])
    /\ pc \in {"restore", "recheck"} => row > 0

\* The command a call belongs to.
Commands ==
    /\ pc # "idle" => op # "none"
    /\ pc = "next" => op # "apply"
    /\ pc \in Undoing \cup {"unreversed"} /\ undo = "rollback" => op # "apply"

\* The rows that have not been applied yet have no value of ours.
Ahead ==
    /\ pc = "own" => \A i \in 1..Len(PlanRows[stage]) :
                         i >= row => value[PlanRows[stage][i]] \notin Plans
    /\ pc \in {"set", "check"} => \A i \in 1..Len(PlanRows[stage]) :
                                      i > row => value[PlanRows[stage][i]] \notin Plans

\* Only rows that an undo has still to get to have a value of ours.
Remaining ==
    /\ pc \in {"undo", "restore"} =>
          \A i \in 1..Len(PlanRows[stage]) : value[PlanRows[stage][i]] \in Plans => i <= row
    /\ pc = "recheck" =>
          \A i \in 1..Len(PlanRows[stage]) : value[PlanRows[stage][i]] \in Plans => i < row

\* So it is while a failed apply is undone without a refusal.
Behind == op = "apply" /\ clean => Remaining

IInv == TypeOK /\ Commands /\ Journalled /\ Ahead /\ Behind /\ OldValuesAreNotOurs

-----------------------------------------------------------------------------
\* The rows of a plan, and that each key has one.
LEMMA Rows ==
    /\ \A s \in Stages : /\ PlanRows[s] \in Seq(Keys) /\ Len(PlanRows[s]) \in Nat
                         /\ DOMAIN PlanRows[s] = 1..Len(PlanRows[s])
                         /\ \A i \in 1..Len(PlanRows[s]) : PlanRows[s][i] \in Keys
    /\ \A s, u \in Stages : \A i \in 1..Len(PlanRows[s]), j \in 1..Len(PlanRows[u]) :
          PlanRows[s][i] = PlanRows[u][j] => s = u /\ i = j
  BY RowsAssumption

\* A journal is a sequence.
LEMMA Journals ==
    ASSUME TypeOK, NEW s \in Stages
    PROVE  /\ journal[s] \in Seq(JournalRow) /\ Len(journal[s]) \in Nat
           /\ DOMAIN journal[s] = 1..Len(journal[s])
           /\ \A i \in 1..Len(journal[s]) : journal[s][i] \in JournalRow
  BY DEF TypeOK

\* The start.
LEMMA Initially == Init => IInv
  <1> SUFFICES ASSUME Init PROVE IInv
    OBVIOUS
  <1>1. TypeOK
    <2>1. boot \in Nat /\ plan \in Plans /\ value \in [Keys -> Values]
      BY DEF Init, Values
    <2>2. commit \in [Stages -> [boot : Nat, plan : Plans \cup {NoPlan}]]
      BY DEF Init, NoCommit
    <2>3. active \in [Stages -> BOOLEAN] /\ journal \in [Stages -> Seq(JournalRow)]
      BY DEF Init
    <2>4. row \in 0..Len(PlanRows[stage]) /\ todo \in Seq(Stages)
      BY Rows DEF Init
    <2>5. pc = "idle" /\ op = "none" /\ stage \in Stages /\ rc = "none" /\ undo = "none"
      BY DEF Init
    <2>6. recovery \in BOOLEAN /\ stuck \in BOOLEAN /\ clean \in BOOLEAN /\ allOk \in BOOLEAN
      BY DEF Init
    <2>7. bootVar \in Nat
      BY DEF Init
    <2> QED
      BY <2>1, <2>2, <2>3, <2>4, <2>5, <2>6, <2>7 DEF TypeOK
  <1>2. Commands /\ Journalled
    BY Rows DEF Init, Commands, Journalled, Undoing
  <1>3. Ahead /\ Behind
    BY DEF Init, Ahead, Behind, Remaining
  <1>4. OldValuesAreNotOurs
    BY DEF Init, OldValuesAreNotOurs
  <1> QED
    BY <1>1, <1>2, <1>3, <1>4 DEF IInv

-----------------------------------------------------------------------------
(* Who changes what. *)

\* Only these steps change the boot, the plan or a property.
LEMMA SystemFrame ==
    ASSUME Next
    PROVE  \/ Set \/ UndoRefused \/ Restore \/ ForeignSet \/ Reboot \/ Replan
           \/ UNCHANGED system
  BY DEF Next, CommandStep, ApplyStep, UndoStep, Command, Environment, ApplyRefused, ApplyBegin,
         RollbackBegin, ApplyStale, ApplyFresh, ApplyVerified, ApplyInconsistent, Allocate,
         Preflight, PreflightFails, Own, Check, CheckFails, Publish, Commit, UndoSkip,
         UndoCheck, Recheck, StageFails, StageUnpublished, StageUncommitted, StageRolledBack,
         UnlinkActive, UnlinkCommit, RollbackNext, RollbackEnd, RecoveryChanges, Kill, system,
         pointers, flags, locals, StartUndo

\* Only these steps change a pointer.
LEMMA PointerFrame ==
    ASSUME Next
    PROVE  Publish \/ Commit \/ UnlinkActive \/ UnlinkCommit \/ UNCHANGED pointers
  BY DEF Next, CommandStep, ApplyStep, UndoStep, Command, Environment, ApplyRefused, ApplyBegin,
         RollbackBegin, ApplyStale, ApplyFresh, ApplyVerified, ApplyInconsistent, Allocate,
         Preflight, PreflightFails, Own, Set, Check, CheckFails, UndoSkip, UndoCheck,
         UndoRefused, Restore, Recheck, StageFails, StageUnpublished, StageUncommitted,
         StageRolledBack, RollbackNext, RollbackEnd, ForeignSet, RecoveryChanges, Kill, Reboot,
         Replan, system, pointers, flags, locals, StartUndo

\* Only these steps change a journal.
LEMMA JournalFrame ==
    ASSUME Next
    PROVE  Allocate \/ Own \/ UNCHANGED journal
  BY DEF Next, CommandStep, ApplyStep, UndoStep, Command, Environment, ApplyRefused, ApplyBegin,
         RollbackBegin, ApplyStale, ApplyFresh, ApplyVerified, ApplyInconsistent, Preflight,
         PreflightFails, Set, Check, CheckFails, Publish, Commit, UndoSkip, UndoCheck,
         UndoRefused, Restore, Recheck, StageFails, StageUnpublished, StageUncommitted,
         StageRolledBack, UnlinkActive, UnlinkCommit, RollbackNext, RollbackEnd, ForeignSet,
         RecoveryChanges, Kill, Reboot, Replan, system, pointers, flags, locals, StartUndo

\* Only these steps change a flag.
LEMMA FlagFrame ==
    ASSUME Next
    PROVE  \/ ApplyInconsistent \/ PreflightFails \/ StageFails \/ StageUnpublished
           \/ StageUncommitted \/ StageRolledBack \/ RecoveryChanges
           \/ UNCHANGED flags
  BY DEF Next, CommandStep, ApplyStep, UndoStep, Command, Environment, ApplyRefused, ApplyBegin,
         RollbackBegin, ApplyStale, ApplyFresh, ApplyVerified, Allocate, Preflight, Own, Set,
         Check, CheckFails, Publish, Commit, UndoSkip, UndoCheck, UndoRefused, Restore, Recheck,
         UnlinkActive, UnlinkCommit, RollbackNext, RollbackEnd, ForeignSet, Kill, Reboot,
         Replan, system, pointers, flags, locals, StartUndo

\* A journal is started empty or gets one row.
LEMMA JournalChange ==
    ASSUME IInv, Next
    PROVE  \/ UNCHANGED journal
           \/ Allocate /\ journal' = [journal EXCEPT ![stage] = <<>>]
           \/ /\ Own /\ pc' = "set" /\ row' = row /\ UNCHANGED <<system, stage>>
              /\ journal' = [journal EXCEPT ![stage] =
                                Append(@, [key |-> Key, old |-> value[Key], new |-> plan])]
  BY JournalFrame DEF Allocate, Own, GoTo, locals, Undo, StartUndo

-----------------------------------------------------------------------------
(* The types. *)

\* The boot counter, the installed plan and the properties.
LEMMA SystemTypes ==
    ASSUME IInv, Next
    PROVE  (boot \in Nat /\ plan \in Plans /\ value \in [Keys -> Values])'
  <1> boot \in Nat /\ plan \in Plans /\ value \in [Keys -> Values] /\ stage \in Stages
    BY DEF IInv, TypeOK
  <1>1. CASE Set
    BY <1>1, Rows DEF Set, Values
  <1>2. CASE UndoRefused \/ Restore
    <2>1. value' = value \/ (pc = "restore" /\ value' = [value EXCEPT ![Entry.key] = Entry.old])
      BY <1>2 DEF UndoRefused, Restore
    <2>2. pc = "restore" => row \in 1..Len(journal[stage])
      BY Journals DEF IInv, TypeOK, Journalled, Undoing
    <2>3. pc = "restore" => Entry.old \in Values
      BY <2>2, Journals DEF Entry, IInv, JournalRow
    <2> QED
      BY <1>2, <2>1, <2>3 DEF UndoRefused, Restore
  <1>3. CASE ForeignSet
    BY <1>3 DEF ForeignSet, Values
  <1>4. CASE Reboot
    BY <1>4 DEF Reboot, Values
  <1>5. CASE Replan
    BY <1>5 DEF Replan
  <1> QED
    BY <1>1, <1>2, <1>3, <1>4, <1>5, SystemFrame DEF system

\* commit and active-journal of each stage.
LEMMA PointerTypes ==
    ASSUME IInv, Next
    PROVE  (/\ commit \in [Stages -> [boot : Nat, plan : Plans \cup {NoPlan}]]
            /\ active \in [Stages -> BOOLEAN])'
  <1> /\ commit \in [Stages -> [boot : Nat, plan : Plans \cup {NoPlan}]]
      /\ active \in [Stages -> BOOLEAN]
      /\ stage \in Stages /\ plan \in Plans /\ bootVar \in Nat
    BY DEF IInv, TypeOK
  <1>1. CASE Publish
    BY <1>1 DEF Publish
  <1>2. CASE Commit
    BY <1>2 DEF Commit
  <1>3. CASE UnlinkActive
    BY <1>3 DEF UnlinkActive
  <1>4. CASE UnlinkCommit
    BY <1>4 DEF UnlinkCommit, NoCommit
  <1> QED
    BY <1>1, <1>2, <1>3, <1>4, PointerFrame DEF pointers

\* The journals.
LEMMA JournalTypes ==
    ASSUME IInv, Next
    PROVE  (journal \in [Stages -> Seq(JournalRow)])'
  <1> /\ journal \in [Stages -> Seq(JournalRow)] /\ stage \in Stages /\ plan \in Plans
      /\ value \in [Keys -> Values]
    BY DEF IInv, TypeOK
  <1>1. CASE Allocate /\ journal' = [journal EXCEPT ![stage] = <<>>]
    BY <1>1
  <1>2. CASE Own /\ journal' = [journal EXCEPT ![stage] =
                          Append(@, [key |-> Key, old |-> value[Key], new |-> plan])]
    <2>1. row \in 1..Len(PlanRows[stage])
      BY <1>2, Rows DEF Own, IInv, TypeOK, Journalled
    <2>2. [key |-> Key, old |-> value[Key], new |-> plan] \in JournalRow
      BY <2>1, Rows DEF Key, JournalRow
    <2> QED
      BY <1>2, <2>2
  <1> QED
    BY <1>1, <1>2, JournalChange

\* The two recovery flags.
LEMMA FlagTypes ==
    ASSUME IInv, Next
    PROVE  recovery' \in BOOLEAN /\ stuck' \in BOOLEAN
  <1> recovery \in BOOLEAN /\ stuck \in BOOLEAN
    BY DEF IInv, TypeOK
  <1>1. CASE ApplyInconsistent \/ PreflightFails
    BY <1>1 DEF ApplyInconsistent, PreflightFails, RaiseRecovery
  <1>2. CASE StageFails \/ StageUnpublished
    BY <1>2 DEF StageFails, StageUnpublished, RaiseRecovery, UndoDone, RaiseStuck
  <1>3. CASE StageUncommitted \/ StageRolledBack
    BY <1>3 DEF StageUncommitted, StageRolledBack, UndoDone, RaiseStuck
  <1>4. CASE RecoveryChanges
    BY <1>4 DEF RecoveryChanges
  <1> QED
    BY <1>1, <1>2, <1>3, <1>4, FlagFrame DEF flags

\* Where the command is, which it is and what it returned.
LEMMA ControlTypes ==
    ASSUME IInv, Next
    PROVE  /\ pc' \in {"idle", "discard", "drop-commit", "drop-active", "allocate", "preflight",
                       "own", "set", "check", "publish", "commit", "undo", "unreversed",
                       "restore", "recheck", "unlink-active", "unlink-commit", "next"}
           /\ op' \in {"none", "apply", "rollback", "rollback-all"}
           /\ rc' \in {"none", "ok", "fail", "killed"}
           /\ undo' \in {"none", "row", "publish", "commit", "rollback"}
  <1>1. pc' \in {"idle", "discard", "drop-commit", "drop-active", "allocate", "preflight",
                 "own", "set", "check", "publish", "commit", "undo", "unreversed",
                 "restore", "recheck", "unlink-active", "unlink-commit", "next"}
    <2>1. CASE ApplyStep
      BY <2>1
      DEF ApplyStep, ApplyStale, ApplyFresh, ApplyVerified, ApplyInconsistent, Allocate,
          Preflight, PreflightFails, Own, Set, Check, CheckFails, Publish, Commit, Return, GoTo,
          Undo, StartUndo
    <2>2. CASE UndoStep
      <3>1. CASE UndoSkip \/ UndoCheck \/ UndoRefused \/ Restore \/ Recheck
        BY <3>1 DEF UndoSkip, UndoCheck, UndoRefused, Restore, Recheck, GoTo
      <3>2. CASE StageFails \/ StageUnpublished \/ StageUncommitted \/ StageRolledBack
        BY <3>2
        DEF StageFails, StageUnpublished, StageUncommitted, StageRolledBack, Return, GoTo
      <3>3. CASE UnlinkActive
        BY <3>3 DEF UnlinkActive, GoTo
      <3>4. CASE UnlinkCommit
        BY <3>4 DEF UnlinkCommit, Return, GoTo
      <3> QED
        BY <2>2, <3>1, <3>2, <3>3, <3>4 DEF UndoStep
    <2>3. CASE RollbackNext \/ RollbackEnd \/ Command
      BY <2>3
      DEF RollbackNext, RollbackEnd, Command, ApplyRefused, ApplyBegin, RollbackBegin, Return,
          GoTo, StartUndo
    <2>4. CASE Environment
      BY <2>4
      DEF IInv, TypeOK, Environment, ForeignSet, RecoveryChanges, Kill, Reboot, Replan, Return
    <2> QED
      BY <2>1, <2>2, <2>3, <2>4 DEF Next, CommandStep
  <1>2. op' \in {"none", "apply", "rollback", "rollback-all"}
    BY DEF IInv, TypeOK, Next, CommandStep, ApplyStep, UndoStep, Command, Environment,
           ApplyRefused, ApplyBegin, RollbackBegin, ApplyStale, ApplyFresh, ApplyVerified,
           ApplyInconsistent, Allocate, Preflight, PreflightFails, Own, Set, Check, CheckFails,
           Publish, Commit, UndoSkip, UndoCheck, UndoRefused, Restore, Recheck, StageFails,
           StageUnpublished, StageUncommitted, StageRolledBack, UnlinkActive, UnlinkCommit,
           RollbackNext, RollbackEnd, ForeignSet, RecoveryChanges, Kill, Reboot, Replan,
           StartUndo
  <1>3. rc' \in {"none", "ok", "fail", "killed"}
    BY DEF IInv, TypeOK, Next, CommandStep, ApplyStep, UndoStep, Command, Environment,
           ApplyRefused, ApplyBegin, RollbackBegin, ApplyStale, ApplyFresh, ApplyVerified,
           ApplyInconsistent, Allocate, Preflight, PreflightFails, Own, Set, Check, CheckFails,
           Publish, Commit, UndoSkip, UndoCheck, UndoRefused, Restore, Recheck, StageFails,
           StageUnpublished, StageUncommitted, StageRolledBack, UnlinkActive, UnlinkCommit,
           RollbackNext, RollbackEnd, ForeignSet, RecoveryChanges, Kill, Reboot, Replan, Return,
           GoTo, Undo, locals, StartUndo
  <1>4. undo' \in {"none", "row", "publish", "commit", "rollback"}
    BY DEF IInv, TypeOK, Next, CommandStep, ApplyStep, UndoStep, Command, Environment,
           ApplyRefused, ApplyBegin, RollbackBegin, ApplyStale, ApplyFresh, ApplyVerified,
           ApplyInconsistent, Allocate, Preflight, PreflightFails, Own, Set, Check, CheckFails,
           Publish, Commit, UndoSkip, UndoCheck, UndoRefused, Restore, Recheck, StageFails,
           StageUnpublished, StageUncommitted, StageRolledBack, UnlinkActive, UnlinkCommit,
           RollbackNext, RollbackEnd, ForeignSet, RecoveryChanges, Kill, Reboot, Replan, Return,
           GoTo, Undo, locals, StartUndo
  <1> QED
    BY <1>1, <1>2, <1>3, <1>4

\* The stage, the boot it has read and the stages still to do.
LEMMA LocalTypes ==
    ASSUME IInv, Next
    PROVE  stage' \in Stages /\ bootVar' \in Nat /\ todo' \in Seq(Stages)
  <1> /\ stage \in Stages /\ bootVar \in Nat /\ boot \in Nat /\ todo \in Seq(Stages)
      /\ commit \in [Stages -> [boot : Nat, plan : Plans \cup {NoPlan}]]
    BY DEF IInv, TypeOK
  <1>1. CASE RollbackBegin
    <2>1. todo' \in Seq(Stages)
      <3>1. ASSUME NEW s \in Stages PROVE <<s>> \in Seq(Stages)
        OBVIOUS
      <3> QED
        BY <1>1, <3>1, StageAssumption DEF RollbackBegin
    <2>2. UNCHANGED <<stage, bootVar>>
      BY <1>1 DEF RollbackBegin
    <2> QED
      BY <2>1, <2>2
  <1>2. CASE RollbackNext
    BY <1>2 DEF RollbackNext, StartUndo
  <1>3. CASE ApplyStale
    BY <1>3 DEF ApplyStale
  <1>4. ASSUME ~RollbackBegin, ~RollbackNext, ~ApplyStale
        PROVE  /\ stage' \in Stages /\ bootVar' \in {0, boot, bootVar} /\ todo' \in {<<>>, todo}
    BY <1>4
    DEF Next, CommandStep, ApplyStep, UndoStep, Command, Environment, ApplyRefused, ApplyBegin,
        ApplyFresh, ApplyVerified, ApplyInconsistent, Allocate, Preflight, PreflightFails, Own,
        Set, Check, CheckFails, Publish, Commit, UndoSkip, UndoCheck, UndoRefused, Restore,
        Recheck, StageFails, StageUnpublished, StageUncommitted, StageRolledBack, UnlinkActive,
        UnlinkCommit, RollbackEnd, ForeignSet, RecoveryChanges, Kill, Reboot, Replan, Return,
        GoTo, Undo, UndoDone, locals, StartUndo, RaiseStuck
  <1>5. <<>> \in Seq(Stages)
    OBVIOUS
  <1>6. CASE ~RollbackBegin /\ ~RollbackNext /\ ~ApplyStale
    <2>1. stage' \in Stages /\ bootVar' \in Nat
      BY <1>4, <1>6
    <2>2. todo' \in Seq(Stages)
      BY <1>4, <1>5, <1>6
    <2> QED
      BY <2>1, <2>2
  <1> QED
    BY <1>1, <1>2, <1>3, <1>6

\* The verdicts a command collects.
LEMMA VerdictTypes ==
    ASSUME IInv, Next
    PROVE  clean' \in BOOLEAN /\ allOk' \in BOOLEAN
  <1> clean \in BOOLEAN /\ allOk \in BOOLEAN
    BY DEF IInv, TypeOK
  <1> QED
    BY DEF Next, CommandStep, ApplyStep, UndoStep, Command, Environment, ApplyRefused,
           ApplyBegin, RollbackBegin, ApplyStale, ApplyFresh, ApplyVerified, ApplyInconsistent,
           Allocate, Preflight, PreflightFails, Own, Set, Check, CheckFails, Publish, Commit,
           UndoSkip, UndoCheck, UndoRefused, Restore, Recheck, StageFails, StageUnpublished,
           StageUncommitted, StageRolledBack, UnlinkActive, UnlinkCommit, RollbackNext,
           RollbackEnd, ForeignSet, RecoveryChanges, Kill, Reboot, Replan, Return, GoTo, Undo,
           UndoDone, locals, StartUndo, RaiseStuck

\* The row never leaves the rows of its stage.
LEMMA RowTypes ==
    ASSUME IInv, Next
    PROVE  row' \in 0..Len(PlanRows[stage'])
  <1> /\ stage \in Stages /\ row \in 0..Len(PlanRows[stage]) /\ Len(PlanRows[stage]) \in Nat
    BY Rows DEF IInv, TypeOK
  <1>1. CASE UNCHANGED <<row, stage>>
    BY <1>1
  <1>2. CASE row' = 0
    BY <1>2, LocalTypes, Rows
  <1>3. CASE stage' = stage /\ row' = Len(journal[stage])
    BY <1>3, Journals DEF IInv, Journalled
  <1>4. CASE stage' = stage /\ row' = row - 1 /\ row > 0
    BY <1>4
  <1>5. CASE Preflight
    BY <1>5, Rows, StageAssumption DEF Preflight, Return
  <1>6. CASE Check
    BY <1>6, Rows DEF Check
  <1>7. CASE RollbackNext
    BY <1>7, LocalTypes, Journals, Rows DEF RollbackNext, IInv, TypeOK, Journalled, Undoing,
                                            StartUndo
  <1>8. ASSUME ~Preflight, ~Check, ~RollbackNext
        PROVE  \/ UNCHANGED <<row, stage>>
               \/ row' = 0
               \/ stage' = stage /\ row' = Len(journal[stage])
               \/ stage' = stage /\ row' = row - 1 /\ row > 0
    BY <1>8
    DEF IInv, TypeOK, Journalled, Undoing, Next, CommandStep, ApplyStep, UndoStep, Command,
        Environment, ApplyRefused, ApplyBegin, RollbackBegin, ApplyStale, ApplyFresh,
        ApplyVerified, ApplyInconsistent, Allocate, PreflightFails, Own, Set, CheckFails,
        Publish, Commit, UndoSkip, UndoCheck, UndoRefused, Restore, Recheck, StageFails,
        StageUnpublished, StageUncommitted, StageRolledBack, UnlinkActive, UnlinkCommit,
        RollbackEnd, ForeignSet, RecoveryChanges, Kill, Reboot, Replan, Return, GoTo, Undo,
        UndoDone, locals, StartUndo, RaiseStuck
  <1> QED
    BY <1>1, <1>2, <1>3, <1>4, <1>5, <1>6, <1>7, <1>8

\* Every step keeps the types.
LEMMA Types == ASSUME IInv, Next PROVE TypeOK'
  BY SystemTypes, PointerTypes, JournalTypes, FlagTypes, ControlTypes, LocalTypes, VerdictTypes,
     RowTypes
  DEF TypeOK

-----------------------------------------------------------------------------
(* What a journal holds. *)

\* An allocated journal is empty.
LEMMA Emptied ==
    ASSUME IInv, Allocate, pc' = "preflight"
    PROVE  /\ UNCHANGED <<stage, row, value>> /\ row = 0
           /\ \A s \in Stages : s # stage => journal'[s] = journal[s]
           /\ journal'[stage] = <<>> /\ Len(journal'[stage]) = 0
  <1>1. /\ journal' = [journal EXCEPT ![stage] = <<>>]
        /\ UNCHANGED <<stage, row, value>> /\ pc = "allocate"
    BY DEF Allocate, GoTo, Return, locals, system
  <1>2. journal'[stage] = <<>>
    BY <1>1 DEF IInv, TypeOK
  <1>3. Len(<<>>) = 0
    OBVIOUS
  <1> QED
    BY <1>1, <1>2, <1>3 DEF IInv, TypeOK, Journalled, Undoing

\* A row that is owned is the next of its stage, with the value read now.
LEMMA Owned ==
    ASSUME IInv, Own, pc' = "set"
    PROVE  /\ UNCHANGED <<stage, row, value>> /\ row \in 1..Len(PlanRows[stage])
           /\ \A s \in Stages : s # stage => journal'[s] = journal[s]
           /\ Len(journal'[stage]) = row
           /\ \A i \in 1..row : i # row => journal'[stage][i] = journal[stage][i]
           /\ journal'[stage][row] = [key |-> Key, old |-> value[Key], new |-> plan]
  <1> DEFINE e == [key |-> Key, old |-> value[Key], new |-> plan]
  <1>1. /\ pc = "own" /\ journal' = [journal EXCEPT ![stage] = Append(@, e)]
        /\ UNCHANGED <<stage, row, value>>
    BY DEF Own, GoTo, Undo, locals, system, StartUndo
  <1>2. stage \in Stages /\ DOMAIN journal = Stages /\ row \in 1..Len(PlanRows[stage])
    BY <1>1, Rows DEF IInv, TypeOK, Journalled
  <1>3. Len(journal[stage]) = row - 1 /\ journal[stage] \in Seq(JournalRow)
    BY <1>1, <1>2, Journals DEF IInv, Journalled
  <1>4. journal'[stage] = Append(journal[stage], e)
    BY <1>1, <1>2
  <1>5. /\ Len(Append(journal[stage], e)) = row
        /\ \A i \in 1..row : i # row => Append(journal[stage], e)[i] = journal[stage][i]
        /\ Append(journal[stage], e)[row] = e
    <2> HIDE DEF e
    <2> QED
      BY <1>2, <1>3
  <1> QED
    BY <1>1, <1>2, <1>4, <1>5

\* No other step changes a journal.
LEMMA JournalKept ==
    ASSUME IInv, Next
    PROVE  UNCHANGED journal \/ (Allocate /\ pc' = "preflight") \/ (Own /\ pc' = "set")
  BY JournalFrame DEF Allocate, Own, GoTo, Undo, StartUndo

-----------------------------------------------------------------------------
(* How a call moves. *)

\* A row, or a pointer, could not be applied: the undo starts.
Failure ==
    /\ pc \in {"own", "set", "check", "publish", "commit"}
    /\ pc' = "undo" /\ undo' # "rollback" /\ clean' /\ row' = Len(journal[stage])
    /\ IF pc = "set" THEN value' \in {value, [value EXCEPT ![Key] = plan]} ELSE UNCHANGED value
    /\ UNCHANGED <<plan, journal, stage, op>>

\* The call stays where it is, and no property gets a value of ours.
Around ==
    /\ UNCHANGED <<boot, commit, active, journal, pc, op, stage, row, bootVar, undo, clean>>
    /\ pc # "idle" => UNCHANGED plan
    /\ \A k \in Keys : value'[k] \in Plans => value'[k] = value[k]

\* A step enters or stays in the rows only along these ways.
LEMMA Moves ==
    ASSUME IInv, Next
    PROVE  \/ pc' \notin Busy /\ row' = 0
           \/ Allocate /\ pc' = "preflight"
           \/ Preflight /\ pc' = "own"
           \/ Own /\ pc' = "set"
           \/ Set /\ pc' = "check"
           \/ Check
           \/ Publish /\ pc' = "commit"
           \/ Failure
           \/ UndoSkip \/ UndoCheck \/ UndoRefused \/ Restore \/ Recheck
           \/ RollbackNext /\ pc' = "undo"
           \/ Around
  <1> pc \notin Busy \ {"preflight"} => row = 0
    BY DEF IInv, Journalled, Busy, Undoing
  <1>1. CASE ApplyRefused \/ ApplyBegin \/ RollbackBegin
    BY <1>1 DEF ApplyRefused, ApplyBegin, RollbackBegin, Return, Busy, Undoing
  <1>2. CASE ApplyStale \/ ApplyFresh \/ ApplyVerified \/ ApplyInconsistent
    BY <1>2 DEF ApplyStale, ApplyFresh, ApplyVerified, ApplyInconsistent, GoTo, Return, locals,
                Busy, Undoing
  <1>3. CASE Allocate \/ Preflight \/ PreflightFails
    BY <1>3 DEF Allocate, Preflight, PreflightFails, GoTo, Return, Busy, Undoing
  <1>4. CASE Own
    BY <1>4 DEF Own, GoTo, Undo, StartUndo, Failure, system, Busy, Undoing
  <1>5. CASE Set
    BY <1>5 DEF Set, GoTo, Undo, StartUndo, Failure, Busy, Undoing
  <1>6. CASE CheckFails
    BY <1>6 DEF CheckFails, Undo, StartUndo, Failure, system, Busy, Undoing
  <1>7. CASE Publish
    BY <1>7 DEF Publish, GoTo, Undo, StartUndo, Failure, system, Busy, Undoing
  <1>8. CASE Commit
    BY <1>8 DEF Commit, Return, Undo, Failure, system, Busy, Undoing, StartUndo
  <1>9. CASE StageFails \/ StageUnpublished
    BY <1>9 DEF StageFails, StageUnpublished, Return, Busy, Undoing
  <1>10. CASE StageUncommitted \/ StageRolledBack
    BY <1>10 DEF StageUncommitted, StageRolledBack, UndoDone, GoTo, locals, Busy, Undoing,
                 RaiseStuck
  <1>11. CASE UnlinkActive \/ UnlinkCommit
    BY <1>11 DEF UnlinkActive, UnlinkCommit, GoTo, Return, locals, Busy, Undoing
  <1>12. CASE RollbackNext
    BY <1>12 DEF RollbackNext, Busy, Undoing, StartUndo
  <1>13. CASE RollbackEnd \/ Kill \/ Reboot
    BY <1>13 DEF RollbackEnd, Kill, Reboot, Return, Busy, Undoing
  <1>14. CASE ForeignSet
    BY <1>14, ValueAssumption DEF ForeignSet, Around, pointers, locals, IInv, TypeOK
  <1>15. CASE RecoveryChanges \/ Replan
    BY <1>15 DEF RecoveryChanges, Replan, Around, pointers, locals, system
  <1> QED
    BY <1>1, <1>2, <1>3, <1>4, <1>5, <1>6, <1>7, <1>8, <1>9, <1>10, <1>11, <1>12, <1>13,
       <1>14, <1>15
    DEF Next, CommandStep, ApplyStep, UndoStep, Command, Environment

\* The commands that start, go from stage to stage or leave a stage.
LEMMA Operations ==
    ASSUME IInv, Next
    PROVE  /\ pc' # "idle" => op' # "none"
           /\ pc' = "next" => op' # "apply"
           /\ pc' = "unreversed" /\ undo' = "rollback" => op' # "apply"
  <1> /\ pc # "idle" => op # "none"
      /\ pc = "next" => op # "apply"
      /\ pc \in {"undo", "unreversed"} /\ undo = "rollback" => op # "apply"
    BY DEF IInv, Commands, Undoing
  <1>1. CASE Command
    BY <1>1 DEF Command, ApplyRefused, ApplyBegin, RollbackBegin, Return
  <1>2. CASE ApplyStep
    BY <1>2 DEF ApplyStep, ApplyStale, ApplyFresh, ApplyVerified, ApplyInconsistent, Allocate,
                Preflight, PreflightFails, Own, Set, Check, CheckFails, Publish, Commit, Return,
                GoTo, Undo, StartUndo
  <1>3. CASE UndoSkip \/ UndoCheck \/ UndoRefused \/ Restore \/ Recheck
    BY <1>3 DEF UndoSkip, UndoCheck, UndoRefused, Restore, Recheck, GoTo
  <1>4. CASE StageFails \/ StageUnpublished \/ StageUncommitted \/ StageRolledBack
    BY <1>4 DEF StageFails, StageUnpublished, StageUncommitted, StageRolledBack, UndoDone,
                Return, GoTo, RaiseStuck
  <1>5. CASE UnlinkActive \/ UnlinkCommit
    BY <1>5 DEF UnlinkActive, UnlinkCommit, Return, GoTo
  <1>6. CASE RollbackNext \/ RollbackEnd
    BY <1>6 DEF RollbackNext, RollbackEnd, Return, StartUndo
  <1>7. CASE Environment
    BY <1>7 DEF Environment, ForeignSet, RecoveryChanges, Kill, Reboot, Replan, Return, locals
  <1> QED
    BY <1>1, <1>2, <1>3, <1>4, <1>5, <1>6, <1>7 DEF Next, CommandStep, UndoStep

\* Each call stays in its command.
LEMMA CommandSteps ==
    ASSUME IInv, Next
    PROVE  Commands'
  <1>1. pc' \in Undoing /\ undo' = "rollback" => op' # "apply"
    BY Moves DEF IInv, Commands, Busy, Undoing, Allocate, Preflight, Own, Set, Check, Publish,
                 Failure, UndoSkip, UndoCheck, UndoRefused, Restore, Recheck, RollbackNext,
                 Around, GoTo, locals, StartUndo
  <1> QED
    BY <1>1, Operations DEF Commands

\* A journal is emptied or gets the next row; the place of a call goes with it.
LEMMA JournalSteps ==
    ASSUME IInv, Next
    PROVE  Journalled'
  <1> /\ stage \in Stages /\ row \in Nat
      /\ Len(journal[stage]) \in Nat /\ Len(PlanRows[stage]) \in Nat
    BY Rows, Journals DEF IInv, TypeOK
  <1>1. ASSUME NEW s \in Stages
        PROVE  /\ Len(journal'[s]) <= Len(PlanRows[s])
               /\ \A i \in 1..Len(journal'[s]) : journal'[s][i].key = PlanRows[s][i]
    <2>1. CASE UNCHANGED journal
      BY <2>1 DEF IInv, Journalled
    <2>2. CASE Allocate /\ pc' = "preflight"
      BY <2>2, Emptied, Rows DEF IInv, Journalled
    <2>3. CASE Own /\ pc' = "set"
      <3>1. CASE s = stage
        BY <2>3, <3>1, Owned, Rows DEF Own, Key, IInv, Journalled
      <3>2. CASE s # stage
        BY <2>3, <3>2, Owned DEF IInv, Journalled
      <3> QED
        BY <3>1, <3>2
    <2> QED
      BY <2>1, <2>2, <2>3, JournalKept
  <1> DEFINE Place ==
        /\ pc \notin Undoing \cup {"own", "set", "check", "publish", "commit"} => row = 0
        /\ pc = "preflight" => journal[stage] = <<>>
        /\ pc \in {"own", "set", "check"} => row > 0
        /\ pc = "own" => Len(journal[stage]) = row - 1
        /\ pc \in {"set", "check", "publish", "commit"} => Len(journal[stage]) = row
        /\ pc \in {"publish", "commit"} => row = Len(PlanRows[stage])
        /\ pc \in Undoing => row <= Len(journal[stage])
        /\ pc \in {"restore", "recheck"} => row > 0
  <1> Place
    BY DEF IInv, Journalled
  <1>2. Place'
    <2>1. CASE pc' \notin Busy /\ row' = 0
      BY <2>1 DEF Busy, Undoing
    <2>2. CASE Allocate /\ pc' = "preflight"
      BY <2>2, Emptied DEF Undoing
    <2>3. CASE Preflight /\ pc' = "own"
      BY <2>3 DEF Preflight, Return, Undoing
    <2>4. CASE Own /\ pc' = "set"
      BY <2>4, Owned DEF Undoing
    <2>5. CASE Set /\ pc' = "check"
      BY <2>5 DEF Set, GoTo, Undo, locals, Undoing, StartUndo
    <2>6. CASE Check
      BY <2>6 DEF Check, Undoing
    <2>7. CASE Publish /\ pc' = "commit"
      BY <2>7 DEF Publish, GoTo, Undo, locals, Undoing, StartUndo
    <2>8. CASE Failure
      BY <2>8 DEF Failure, Undoing
    <2>9. CASE UndoSkip \/ UndoCheck
      BY <2>9 DEF UndoSkip, UndoCheck, GoTo, locals, Undoing
    <2>10. CASE UndoRefused
      BY <2>10 DEF UndoRefused, Undoing
    <2>11. CASE Restore \/ Recheck
      BY <2>11 DEF Restore, Recheck, GoTo, locals, Undoing
    <2>12. CASE RollbackNext /\ pc' = "undo"
      <3>1. stage' \in Stages /\ row' = Len(journal'[stage']) /\ pc' = "undo"
        BY <2>12, LocalTypes DEF RollbackNext, StartUndo
      <3> QED
        BY <3>1, Types, Journals DEF TypeOK, Undoing
    <2>13. CASE Around
      BY <2>13 DEF Around
    <2> QED
      BY <2>1, <2>2, <2>3, <2>4, <2>5, <2>6, <2>7, <2>8, <2>9, <2>10, <2>11, <2>12, <2>13,
         Moves
  <1> QED
    BY <1>1, <1>2 DEF Journalled

\* Values of ours are set row by row.
LEMMA AheadSteps ==
    ASSUME IInv, Next
    PROVE  Ahead'
  <1> /\ stage \in Stages /\ row \in Nat /\ value \in [Keys -> Values] /\ plan \in Plans
      /\ Len(PlanRows[stage]) \in Nat
      /\ \A i \in 1..Len(PlanRows[stage]) : PlanRows[stage][i] \in Keys
    BY Rows DEF IInv, TypeOK
  <1>1. CASE Preflight /\ pc' = "own"
    <2>1. \A i \in 1..Len(PlanRows[stage]) : value[PlanRows[stage][i]] = Stock
      BY <1>1, Rows DEF Preflight, AtBaseline, StageKeys
    <2> QED
      BY <1>1, <2>1, ValueAssumption DEF Preflight, Ahead, system
  <1>2. CASE Own /\ pc' = "set"
    BY <1>2, Owned DEF Own, IInv, Ahead
  <1>3. CASE Set /\ pc' = "check"
    <2>1. /\ pc = "set" /\ value' = [value EXCEPT ![Key] = plan]
          /\ UNCHANGED <<row, stage>>
      BY <1>3 DEF Set, GoTo, Undo, locals, StartUndo
    <2>2. row \in 1..Len(PlanRows[stage])
      BY <2>1 DEF IInv, TypeOK, Journalled
    <2>3. \A i \in 1..Len(PlanRows[stage]) :
             i > row => value'[PlanRows[stage][i]] = value[PlanRows[stage][i]]
      BY <2>1, <2>2, Rows DEF Key
    <2> QED
      BY <1>3, <2>1, <2>3 DEF IInv, Ahead
  <1>4. CASE Check
    BY <1>4 DEF Check, IInv, Ahead, system
  <1>5. CASE Around
    BY <1>5 DEF Around, IInv, Ahead
  <1>6. CASE pc' \notin {"own", "set", "check"}
    BY <1>6 DEF Ahead
  <1> QED
    BY <1>1, <1>2, <1>3, <1>4, <1>5, <1>6, Moves
    DEF Busy, Failure, UndoSkip, UndoCheck, UndoRefused, Restore, Recheck, GoTo

\* The entry an undo is at is the row of the plan with its number.
LEMMA AtRow ==
    ASSUME IInv, pc \in Undoing, row > 0
    PROVE  /\ row \in 1..Len(PlanRows[stage]) /\ Entry.key = PlanRows[stage][row]
           /\ Entry.key \in Keys /\ Entry \in JournalRow /\ Entry.old \notin Plans
  <1>1. row \in 1..Len(journal[stage]) /\ row \in 1..Len(PlanRows[stage]) /\ stage \in Stages
    BY Rows, Journals DEF IInv, TypeOK, Journalled
  <1> QED
    BY <1>1, Rows, Journals DEF IInv, Journalled, OldValuesAreNotOurs, Entry

\* Values of ours are undone row by row.
LEMMA RemainingKept ==
    ASSUME IInv, Remaining, UndoSkip \/ UndoCheck \/ Restore \/ Recheck \/ Around
    PROVE  Remaining'
  <1> /\ stage \in Stages /\ row \in Nat /\ value \in [Keys -> Values]
      /\ \A i \in 1..Len(PlanRows[stage]) : PlanRows[stage][i] \in Keys
    BY Rows DEF IInv, TypeOK
  <1>1. CASE UndoSkip
    <2>1. value[PlanRows[stage][row]] \notin Plans /\ row' = row - 1 /\ pc = "undo" /\ row > 0
      BY <1>1, AtRow DEF UndoSkip, Undoing
    <2> QED
      BY <1>1, <2>1 DEF UndoSkip, Remaining, system
  <1>2. CASE UndoCheck
    BY <1>2 DEF UndoCheck, GoTo, locals, Remaining, system
  <1>3. CASE Restore
    <2>1. pc = "restore" /\ row > 0 /\ pc' = "recheck" /\ UNCHANGED <<row, stage>>
      BY <1>3 DEF Restore, GoTo, locals, IInv, Journalled
    <2>2. /\ value' = [value EXCEPT ![PlanRows[stage][row]] = Entry.old]
          /\ Entry.old \notin Plans /\ PlanRows[stage][row] \in Keys
      BY <1>3, <2>1, AtRow DEF Restore, Undoing
    <2>3. \A i \in 1..Len(PlanRows[stage]) : value'[PlanRows[stage][i]] \in Plans =>
             i # row /\ value[PlanRows[stage][i]] \in Plans
      BY <2>2
    <2> QED
      BY <2>1, <2>3 DEF Remaining
  <1>4. CASE Recheck
    BY <1>4 DEF Recheck, Remaining, system
  <1>5. CASE Around
    BY <1>5 DEF Around, Remaining
  <1> QED
    BY <1>1, <1>2, <1>3, <1>4, <1>5

\* A failed apply starts to undo with the rows it has got to.
LEMMA BehindSteps ==
    ASSUME IInv, Next
    PROVE  Behind'
  <1> /\ stage \in Stages /\ row \in Nat /\ value \in [Keys -> Values]
      /\ Len(PlanRows[stage]) \in Nat
      /\ \A i \in 1..Len(PlanRows[stage]) : PlanRows[stage][i] \in Keys
    BY Rows DEF IInv, TypeOK
  <1>1. CASE Failure
    <2>1. CASE pc = "set"
      <3>1. row' = row /\ row \in 1..Len(PlanRows[stage]) /\ UNCHANGED stage /\ pc' = "undo"
        BY <1>1, <2>1 DEF Failure, IInv, TypeOK, Journalled
      <3>2. \A i \in 1..Len(PlanRows[stage]) :
               i > row => value'[PlanRows[stage][i]] = value[PlanRows[stage][i]]
        BY <1>1, <2>1, <3>1, Rows DEF Failure, Key
      <3> QED
        BY <2>1, <3>1, <3>2 DEF IInv, Ahead, Behind, Remaining
    <2>2. CASE pc \in {"own", "check"}
      BY <1>1, <2>2 DEF Failure, IInv, Journalled, Ahead, Behind, Remaining
    <2>3. CASE pc \in {"publish", "commit"}
      BY <1>1, <2>3 DEF Failure, IInv, Journalled, Behind, Remaining
    <2> QED
      BY <1>1, <2>1, <2>2, <2>3 DEF Failure
  <1>2. CASE UndoSkip \/ UndoCheck \/ Restore \/ Recheck \/ Around
    <2>1. UNCHANGED op
      BY <1>2 DEF UndoSkip, UndoCheck, Restore, Recheck, Around, GoTo, locals
    <2>2. clean' => clean
      <3>1. CASE Recheck
        BY <3>1 DEF Recheck
      <3>2. CASE UndoSkip \/ UndoCheck \/ Restore \/ Around
        BY <3>2 DEF UndoSkip, UndoCheck, Restore, Around, GoTo, locals
      <3> QED
        BY <1>2, <3>1, <3>2
    <2> QED
      BY <1>2, <2>1, <2>2, RemainingKept DEF IInv, Behind
  <1>3. CASE UndoRefused
    BY <1>3 DEF UndoRefused, Behind
  <1>4. CASE RollbackNext
    BY <1>4 DEF RollbackNext, IInv, Commands, Behind, StartUndo
  <1>5. CASE pc' \notin Undoing
    BY <1>5 DEF Behind, Remaining, Undoing
  <1> QED
    BY <1>1, <1>2, <1>3, <1>4, <1>5, Moves DEF Busy, Undoing, Check

\* The value a journal keeps for a row was read while no value of ours was there.
LEMMA OldSteps ==
    ASSUME IInv, Next
    PROVE  OldValuesAreNotOurs'
  <1> SUFFICES \A s \in Stages : \A i \in 1..Len(journal'[s]) : journal'[s][i].old \notin Plans
    <2>1. \A s \in Stages : DOMAIN journal'[s] = 1..Len(journal'[s])
      BY Types DEF TypeOK
    <2> QED
      BY <2>1 DEF OldValuesAreNotOurs
  <1>1. \A s \in Stages : \A i \in 1..Len(journal[s]) : journal[s][i].old \notin Plans
    BY Journals DEF IInv, OldValuesAreNotOurs
  <1>2. CASE UNCHANGED journal
    BY <1>1, <1>2
  <1>3. CASE Allocate /\ pc' = "preflight"
    BY <1>1, <1>3, Emptied
  <1>4. CASE Own /\ pc' = "set"
    <2>1. value[Key] \notin Plans /\ Len(journal[stage]) = row - 1
      BY <1>4, Owned DEF Own, Key, IInv, Ahead, Journalled
    <2>2. ASSUME NEW s \in Stages, NEW i \in 1..Len(journal'[s]), s = stage, i # row
          PROVE  journal'[s][i].old \notin Plans
      <3>1. i \in 1..row /\ i \in 1..Len(journal[stage])
        BY <1>4, <2>1, <2>2, Owned
      <3> QED
        BY <1>1, <1>4, <2>2, <3>1, Owned
    <2>3. journal'[stage][row].old \notin Plans
      BY <1>4, <2>1, Owned
    <2>4. ASSUME NEW s \in Stages, NEW i \in 1..Len(journal'[s]), s # stage
          PROVE  journal'[s][i].old \notin Plans
      BY <1>1, <1>4, <2>4, Owned
    <2> QED
      BY <2>2, <2>3, <2>4
  <1> QED
    BY <1>2, <1>3, <1>4, JournalKept

\* Every step keeps the inductive invariant.
LEMMA Step == IInv /\ [Next]_vars => IInv'
  <1>1. ASSUME IInv, Next PROVE IInv'
    BY <1>1, Types, CommandSteps, JournalSteps, AheadSteps, BehindSteps, OldSteps DEF IInv
  <1>2. ASSUME IInv, UNCHANGED vars PROVE IInv'
    <2>1. TypeOK' /\ OldValuesAreNotOurs'
      BY <1>2 DEF vars, IInv, TypeOK, OldValuesAreNotOurs
    <2>2. Commands' /\ Journalled'
      BY <1>2 DEF vars, IInv, Commands, Journalled
    <2>3. Ahead' /\ Behind'
      BY <1>2 DEF vars, IInv, Ahead, Behind, Remaining
    <2> QED
      BY <2>1, <2>2, <2>3 DEF IInv
  <1> QED
    BY <1>1, <1>2

-----------------------------------------------------------------------------
\* The inductive invariant holds in every state.
THEOREM Invariance == Spec => []IInv
  BY Initially, Step, PTL DEF Spec

\* The types, for any plan, faults and surroundings.
THEOREM TypeCorrect == Spec => []TypeOK
  <1>1. IInv => TypeOK
    BY DEF IInv
  <1> QED
    BY <1>1, Invariance, PTL

\* A journal never keeps a value of ours as the one to go back to, whatever is
\* killed, rebooted or set by others.
THEOREM OldValuesForeign == Spec => []OldValuesAreNotOurs
  <1>1. IInv => OldValuesAreNotOurs
    BY DEF IInv
  <1> QED
    BY <1>1, Invariance, PTL

\* Nothing of ours is left at the end of an undo that met no refusal.
LEMMA Undone ==
    ASSUME IInv, Remaining, pc = "undo", row = 0
    PROVE  Ours(stage) = {}
  <1>1. \A i \in 1..Len(PlanRows[stage]) : value[PlanRows[stage][i]] \notin Plans
    <2> SUFFICES ASSUME NEW i \in 1..Len(PlanRows[stage]), value[PlanRows[stage][i]] \in Plans
                 PROVE  FALSE
      OBVIOUS
    <2>1. i <= row
      BY DEF Remaining
    <2> QED
      BY <2>1
  <1>2. \A k \in StageKeys(stage) : value[k] \notin Plans
    BY <1>1, Rows DEF StageKeys, IInv, TypeOK
  <1> QED
    BY <1>2 DEF Ours

\* A failed apply whose undo met no refusal leaves no value of ours in the stage.
THEOREM CleanUndo == Spec => CleanUndoRestores
  <1>1. IInv => (op = "apply" /\ pc = "undo" /\ pc' # "undo" /\ row = 0 /\ clean =>
                     Ours(stage) = {})
    BY Undone DEF IInv, Behind
  <1> QED
    BY <1>1, Invariance, PTL DEF Spec, CleanUndoRestores

\* The row a restore is at has a value of ours.
Guarded == pc = "restore" => value[Entry.key] \in Plans

\* It keeps it, if others keep out of the window between the check and the write.
LEMMA GuardedStep ==
    ASSUME "restore" \notin Windows
    PROVE  IInv /\ Guarded /\ [Next]_vars => Guarded'
  <1> SUFFICES ASSUME IInv, Guarded, [Next]_vars PROVE Guarded'
    OBVIOUS
  <1>1. CASE UndoCheck
    <2>1. Entry.new \in Plans
      BY <1>1, AtRow DEF UndoCheck, Undoing, JournalRow
    <2> QED
      BY <1>1, <2>1 DEF UndoCheck, Guarded, Entry, GoTo, locals, system
  <1>2. CASE Around /\ Next
    <2>1. CASE UNCHANGED value
      BY <1>2, <2>1 DEF Around, Guarded, Entry
    <2>2. CASE ~UNCHANGED value /\ pc = "restore"
      <3>1. ForeignSet
        BY <1>2, <2>2, SystemFrame
        DEF Around, Set, UndoRefused, Restore, GoTo, Reboot, Return, Replan, system
      <3> QED
        BY <1>2, <3>1 DEF ForeignSet, Shielded, Around, Guarded, Entry, IInv, TypeOK
    <2> QED
      BY <1>2, <2>1, <2>2 DEF Around, Guarded
  <1>3. CASE UNCHANGED vars
    BY <1>3 DEF vars, Guarded, Entry
  <1>4. CASE pc' # "restore"
    BY <1>4 DEF Guarded
  <1> QED
    BY <1>1, <1>2, <1>3, <1>4, Moves
    DEF Busy, Undoing, Check, Failure, UndoSkip, UndoRefused, Restore, Recheck, GoTo

\* With that window closed an undo spares every value of another writer.
THEOREM UndoSpares ==
    ASSUME "restore" \notin Windows
    PROVE  Spec => UndoSparesForeign
  <1>1. Init => Guarded
    BY DEF Init, Guarded
  <1>2. IInv /\ Guarded /\ [Next]_vars =>
            [pc = "restore" /\ pc' = "recheck" =>
                 \A k \in Keys : value[k] \in Others => value'[k] = value[k]]_vars
    <2> SUFFICES ASSUME IInv, Guarded, Next, pc = "restore", pc' = "recheck",
                        NEW k \in Keys, value[k] \in Others
                 PROVE  value'[k] = value[k]
      OBVIOUS
    <2>1. Restore
      BY Moves DEF Busy, Undoing, Preflight, Own, Set, Check, Publish, Failure, UndoSkip,
                   UndoCheck, UndoRefused, Recheck, RollbackNext, Around, StartUndo
    <2>2. k # Entry.key
      BY ValueAssumption DEF Guarded
    <2> QED
      BY <2>1, <2>2 DEF Restore, IInv, TypeOK
  <1> QED
    BY <1>1, <1>2, GuardedStep, Invariance, PTL DEF Spec, UndoSparesForeign

-----------------------------------------------------------------------------
(* Every change is journalled or flagged. *)

\* What the accounts rest on: no command is killed, no boot ends while values are
\* set and the state's own flag can be written.
Undisturbed == {"kill", "reboot"} \cap Env = {} /\ "flag" \notin Faults

Applying == {"discard", "allocate", "preflight", "own", "set", "check", "publish", "commit"}

Open == {"idle", "discard", "next", "allocate", "preflight"}

Accounted(s) ==
    \/ stuck
    \/ \A k \in Ours(s) : active[s] /\ \E i \in DOMAIN journal[s] :
           journal[s][i].key = k /\ journal[s][i].new = value[k]

\* Without a reboot every commit is of this boot.
Current ==
    /\ \A s \in Stages : commit[s] # NoCommit => commit[s].boot = boot
    /\ pc \in Applying => bootVar = boot /\ op = "apply"
    /\ pc \in Undoing /\ undo # "rollback" => op = "apply"
    /\ pc \notin {"drop-commit", "drop-active", "unreversed"}

\* The stages that no call is inside of.
Elsewhere == \A s \in Stages : s # stage \/ pc \in Open => Accounted(s)

\* The stage a call is inside of.
Here ==
    /\ pc \in {"allocate", "preflight"} => ~active[stage]
    /\ pc \in {"own", "set", "check", "publish", "commit"} =>
          \A i \in 1..Len(PlanRows[stage]) : value[PlanRows[stage][i]] \in Plans =>
              /\ i <= Len(journal[stage])
              /\ journal[stage][i].new = value[PlanRows[stage][i]]
    /\ pc = "set" => journal[stage][row].new = plan
    /\ pc = "commit" => active[stage]
    /\ pc \in Undoing /\ clean => stuck \/ Remaining
    /\ pc \in {"unlink-active", "unlink-commit"} => stuck \/ Ours(stage) = {}

Tracked == Current /\ Elsewhere /\ Here

\* The property state's own flag stays up.
LEMMA FlagStays == Next /\ stuck => stuck'
  <1>1. CASE ApplyInconsistent \/ PreflightFails \/ RecoveryChanges
    BY <1>1 DEF ApplyInconsistent, PreflightFails, RecoveryChanges
  <1>2. CASE StageFails \/ StageUnpublished \/ StageUncommitted \/ StageRolledBack
    BY <1>2 DEF StageFails, StageUnpublished, StageUncommitted, StageRolledBack, UndoDone,
                RaiseStuck
  <1> QED
    BY <1>1, <1>2, FlagFrame DEF flags

\* Only the write of a row gives a property a value of ours.
LEMMA OursGrow ==
    ASSUME IInv, Undisturbed, Next, NEW k \in Keys, value'[k] \in Plans
    PROVE  \/ value'[k] = value[k]
           \/ pc = "set" /\ k = PlanRows[stage][row] /\ value'[k] = plan
  <1> value \in [Keys -> Values]
    BY DEF IInv, TypeOK
  <1>1. CASE Set
    BY <1>1 DEF Set, Key
  <1>2. CASE UndoRefused \/ Restore
    <2>1. CASE value' = [value EXCEPT ![Entry.key] = Entry.old] /\ pc = "restore"
      BY <2>1, AtRow DEF IInv, Journalled, Undoing
    <2>2. CASE UNCHANGED value
      BY <2>2
    <2> QED
      BY <1>2, <2>1, <2>2 DEF UndoRefused, Restore
  <1>3. CASE ForeignSet
    BY <1>3, ValueAssumption DEF ForeignSet
  <1>4. CASE UNCHANGED value
    BY <1>4
  <1> QED
    BY <1>1, <1>2, <1>3, <1>4, SystemFrame DEF Reboot, Replan, Undisturbed, system

\* A stage whose journal, pointer and values of ours stay is accounted for still.
LEMMA AccountKept ==
    ASSUME IInv, Undisturbed, Next, NEW s \in Stages, Accounted(s),
           UNCHANGED <<active[s], journal[s]>>,
           pc = "set" => stage # s
    PROVE  Accounted(s)'
  <1>1. ASSUME NEW k \in Ours(s)' PROVE k \in Ours(s) /\ value'[k] = value[k]
    <2>1. k \in StageKeys(s) /\ k \in Keys /\ value'[k] \in Plans
      BY <1>1, Rows DEF Ours, StageKeys
    <2>2. value'[k] = value[k]
      <3>1. CASE pc = "set"
        <4>1. row \in 1..Len(PlanRows[stage]) /\ stage \in Stages
          BY <3>1, Rows DEF IInv, TypeOK, Journalled
        <4>2. PICK i \in 1..Len(PlanRows[s]) : k = PlanRows[s][i]
          BY <2>1, Rows DEF StageKeys
        <4>3. k # PlanRows[stage][row]
          <5>1. stage # s
            BY <3>1
          <5> QED
            BY <4>1, <4>2, <5>1, Rows
        <4> QED
          BY <2>1, <4>3, OursGrow
      <3>2. CASE pc # "set"
        BY <2>1, <3>2, OursGrow
      <3> QED
        BY <3>1, <3>2
    <2> QED
      BY <2>1, <2>2 DEF Ours
  <1> QED
    BY <1>1, FlagStays DEF Accounted

\* A call goes from one stage to another only between them.
LEMMA StageFrame ==
    ASSUME Next
    PROVE  UNCHANGED stage \/ pc \in {"idle", "next"}
  BY DEF Next, CommandStep, ApplyStep, UndoStep, Command, Environment, ApplyRefused, ApplyBegin,
         RollbackBegin, ApplyStale, ApplyFresh, ApplyVerified, ApplyInconsistent, Allocate,
         Preflight, PreflightFails, Own, Set, Check, CheckFails, Publish, Commit, UndoSkip,
         UndoCheck, UndoRefused, Restore, Recheck, StageFails, StageUnpublished,
         StageUncommitted, StageRolledBack, UnlinkActive, UnlinkCommit, RollbackNext,
         RollbackEnd, ForeignSet, RecoveryChanges, Kill, Reboot, Replan, locals, StartUndo

\* How a call gets to where it may end, or to removing the pointers.
LEMMA Leaves ==
    ASSUME Undisturbed, Current, Next, pc' \in {"allocate", "unlink-active", "unlink-commit"}
    PROVE  \/ ApplyFresh
           \/ UnlinkActive /\ pc = "unlink-active" /\ pc' = "unlink-commit"
           \/ (StageUncommitted \/ (StageRolledBack /\ clean)) /\ pc' = "unlink-active"
           \/ UNCHANGED pc /\ UNCHANGED <<active, stage, value>>
           \/ ForeignSet
  <1>1. CASE Command \/ RollbackNext \/ RollbackEnd
    BY <1>1 DEF Command, ApplyRefused, ApplyBegin, RollbackBegin, RollbackNext, RollbackEnd,
                Return, StartUndo
  <1>2. CASE ApplyStep
    BY <1>2
    DEF ApplyStep, ApplyStale, ApplyVerified, ApplyInconsistent, Allocate, Preflight,
        PreflightFails, Own, Set, Check, CheckFails, Publish, Commit, Return, GoTo, Undo,
        StartUndo
  <1>3. CASE UndoSkip \/ UndoCheck \/ UndoRefused \/ Restore \/ Recheck
    BY <1>3 DEF UndoSkip, UndoCheck, UndoRefused, Restore, Recheck, GoTo
  <1>4. CASE StageFails \/ StageUnpublished \/ StageUncommitted \/ StageRolledBack
    <2>1. CASE StageFails \/ StageUnpublished
      BY <2>1 DEF StageFails, StageUnpublished, Return
    <2>2. CASE StageUncommitted
      BY <2>2 DEF StageUncommitted, GoTo
    <2>3. CASE StageRolledBack
      <3>1. pc' = "unlink-active" /\ clean
        BY <2>3 DEF StageRolledBack, GoTo
      <3> QED
        BY <2>3, <3>1
    <2> QED
      BY <1>4, <2>1, <2>2, <2>3
  <1>5. CASE UnlinkActive \/ UnlinkCommit
    BY <1>5 DEF UnlinkActive, UnlinkCommit, Current, Return, GoTo
  <1>6. CASE Environment
    BY <1>6
    DEF Environment, RecoveryChanges, Kill, Reboot, Replan, Undisturbed, system,
        pointers
  <1> QED
    BY <1>1, <1>2, <1>3, <1>4, <1>5, <1>6 DEF Next, CommandStep, UndoStep

\* How a stage is left.
LEMMA Closes ==
    ASSUME Undisturbed, Current, Next, pc \notin Open, pc' \in Open
    PROVE  \/ Commit /\ pc' = "idle"
           \/ StageFails \/ StageUnpublished \/ (UnlinkCommit /\ pc = "unlink-commit")
           \/ StageRolledBack /\ ~clean
  <1>1. CASE Command \/ RollbackNext \/ RollbackEnd
    BY <1>1 DEF Command, ApplyRefused, ApplyBegin, RollbackBegin, RollbackNext, RollbackEnd,
                Open, Return, StartUndo
  <1>2. CASE ApplyStep
    BY <1>2
    DEF ApplyStep, ApplyStale, ApplyFresh, ApplyVerified, ApplyInconsistent, Allocate,
        Preflight,
        PreflightFails, Own, Set, Check, CheckFails, Publish, Commit, Open, Return, GoTo, Undo,
        StartUndo
  <1>3. CASE UndoSkip \/ UndoCheck \/ UndoRefused \/ Restore \/ Recheck
    BY <1>3 DEF UndoSkip, UndoCheck, UndoRefused, Restore, Recheck, Open, GoTo
  <1>4. CASE StageFails \/ StageUnpublished \/ StageUncommitted \/ StageRolledBack
    <2>1. CASE StageFails \/ StageUnpublished
      BY <2>1
    <2>2. CASE StageUncommitted
      BY <2>2 DEF StageUncommitted, GoTo, Open
    <2>3. CASE StageRolledBack
      <3>1. ~clean
        BY <2>3 DEF StageRolledBack, GoTo, Open
      <3> QED
        BY <2>3, <3>1
    <2> QED
      BY <1>4, <2>1, <2>2, <2>3
  <1>5. CASE UnlinkActive \/ UnlinkCommit
    BY <1>5 DEF UnlinkActive, UnlinkCommit, Current, Open, Return, GoTo
  <1>6. CASE Environment
    BY <1>6
    DEF Environment, ForeignSet, RecoveryChanges, Kill, Reboot, Replan, Undisturbed, Open,
        system,
        pointers
  <1> QED
    BY <1>1, <1>2, <1>3, <1>4, <1>5, <1>6 DEF Next, CommandStep, UndoStep

\* Commits, and the boot a command has read, are of this boot.
LEMMA CurrentSteps ==
    ASSUME IInv, Undisturbed, Current, Next, pc' # "unreversed"
    PROVE  Current'
  <1> /\ commit \in [Stages -> [boot : Nat, plan : Plans \cup {NoPlan}]] /\ stage \in Stages
      /\ plan \in Plans
    BY DEF IInv, TypeOK
  <1>1. UNCHANGED boot
    BY SystemFrame
    DEF Set, UndoRefused, Restore, ForeignSet, Reboot, Replan, Undisturbed, system
  <1>2. \A s \in Stages : commit'[s] # NoCommit => commit'[s].boot = boot
    BY PointerFrame DEF Current, Publish, Commit, UnlinkActive, UnlinkCommit, Applying, pointers
  <1>3. ASSUME pc' \in Applying PROVE bootVar' = boot /\ op' = "apply"
    <2>1. ASSUME pc \notin Applying PROVE ApplyBegin
      BY <1>3, <2>1
      DEF Undisturbed, Current, Applying, Next, CommandStep, ApplyStep, UndoStep, Command,
          Environment, ApplyRefused, ApplyBegin, RollbackBegin, ApplyStale, ApplyFresh,
          ApplyVerified, ApplyInconsistent, Allocate, Preflight, PreflightFails, Own, Set,
          Check, CheckFails, Publish, Commit, UndoSkip, UndoCheck, UndoRefused, Restore,
          Recheck, StageFails, StageUnpublished, StageUncommitted, StageRolledBack,
          UnlinkActive, UnlinkCommit, RollbackNext, RollbackEnd, ForeignSet, RecoveryChanges,
          Kill, Reboot, Replan, Return, GoTo, Undo, StartUndo
    <2>2. ASSUME pc \in Applying PROVE UNCHANGED <<bootVar, op>>
      BY <1>3, <2>2, \A s \in Stages : ~Stale(s)
      DEF Undisturbed, Current, Applying, Next, CommandStep, ApplyStep, UndoStep, Command,
          Environment, ApplyRefused, ApplyBegin, RollbackBegin, ApplyStale, ApplyFresh,
          ApplyVerified, ApplyInconsistent, Allocate, Preflight, PreflightFails, Own, Set,
          Check, CheckFails, Publish, Commit, UndoSkip, UndoCheck, UndoRefused, Restore,
          Recheck, StageFails, StageUnpublished, StageUncommitted, StageRolledBack,
          UnlinkActive, UnlinkCommit, RollbackNext, RollbackEnd, ForeignSet, RecoveryChanges,
          Kill, Reboot, Replan, Return, GoTo, Undo, locals, Stale, StartUndo
    <2> QED
      BY <2>1, <2>2 DEF ApplyBegin, Current
  <1>4. pc' \in Undoing /\ undo' # "rollback" => op' = "apply"
    BY Moves
    DEF Current, Busy, Applying, Undoing, Allocate, Preflight, Own, Set, Check, Publish,
        Failure,
        UndoSkip, UndoCheck, UndoRefused, Restore, Recheck, RollbackNext, Around, GoTo, locals,
        StartUndo
  <1>5. pc' \notin {"drop-commit", "drop-active", "unreversed"}
    BY LocalTypes
    DEF Undisturbed, Current, Stale, Next, CommandStep, ApplyStep, UndoStep, Command, Environment,
        ApplyRefused, ApplyBegin, RollbackBegin, ApplyStale, ApplyFresh, ApplyVerified,
        ApplyInconsistent, Allocate, Preflight, PreflightFails, Own, Set, Check, CheckFails,
        Publish, Commit, UndoSkip, UndoCheck, UndoRefused, Restore, Recheck, StageFails,
        StageUnpublished, StageUncommitted, StageRolledBack, UnlinkActive, UnlinkCommit,
        RollbackNext, RollbackEnd, ForeignSet, RecoveryChanges, Kill, Reboot, Replan, Return,
        GoTo, Undo, StartUndo
  <1> QED
    BY <1>1, <1>2, <1>3, <1>4, <1>5 DEF Current

\* A stage that no call is inside of stays accounted for, and one is left only then.
LEMMA ElsewhereSteps ==
    ASSUME IInv, Undisturbed, Tracked, Next
    PROVE  Elsewhere'
  <1> SUFFICES ASSUME NEW s \in Stages, s # stage' \/ pc' \in Open PROVE Accounted(s)'
    BY DEF Elsewhere, Accounted, Ours
  <1> /\ stage \in Stages /\ active \in [Stages -> BOOLEAN]
    BY DEF IInv, TypeOK
  <1>1. CASE s # stage
    <2>1. Accounted(s)
      BY <1>1 DEF Tracked, Elsewhere
    <2>2. UNCHANGED active[s]
      BY <1>1, PointerFrame DEF Publish, Commit, UnlinkActive, UnlinkCommit, pointers
    <2>3. UNCHANGED journal[s]
      BY <1>1, JournalKept, Emptied, Owned
    <2> QED
      BY <1>1, <2>1, <2>2, <2>3, AccountKept
  <1>2. CASE s = stage /\ pc \in Open
    <2>1. Accounted(s)
      BY <1>2 DEF Tracked, Elsewhere
    <2>2. UNCHANGED active[s]
      BY <1>2, PointerFrame
      DEF Publish, Commit, UnlinkActive, UnlinkCommit, pointers, Open
    <2>3. CASE UNCHANGED journal[s]
      BY <1>2, <2>1, <2>2, <2>3, AccountKept DEF Open
    <2>4. CASE Allocate
      <3>1. ~active[s] /\ UNCHANGED value
        BY <1>2, <2>4 DEF Allocate, Tracked, Here, system
      <3>2. stuck \/ Ours(s)' = {}
        BY <2>1, <3>1 DEF Accounted, Ours
      <3> QED
        BY <3>2, FlagStays DEF Accounted
    <2> QED
      BY <1>2, <2>3, <2>4, JournalFrame DEF Own, Open
  <1>3. CASE s = stage /\ pc \notin Open
    <2>1. pc' \in Open
      BY <1>3, StageFrame DEF Open
    <2>2. CASE Commit /\ pc' = "idle"
      <3>1. active[s] /\ UNCHANGED <<active, journal, value>> /\ pc = "commit"
        BY <1>3, <2>2 DEF Commit, Tracked, Here, system
      <3>2. \A k \in Ours(s) : \E i \in DOMAIN journal[s] :
               journal[s][i].key = k /\ journal[s][i].new = value[k]
        <4> SUFFICES ASSUME NEW k \in Ours(s)
                     PROVE  \E i \in DOMAIN journal[s] :
                               journal[s][i].key = k /\ journal[s][i].new = value[k]
          OBVIOUS
        <4>1. PICK i \in 1..Len(PlanRows[s]) : PlanRows[s][i] = k /\ value[k] \in Plans
          BY Rows DEF Ours, StageKeys
        <4>2. i \in 1..Len(journal[s]) /\ journal[s][i].new = value[k]
          BY <1>3, <3>1, <4>1, Rows, Journals DEF Tracked, Here, IInv
        <4>3. journal[s][i].key = k
          BY <4>1, <4>2 DEF IInv, Journalled
        <4> QED
          BY <4>2, <4>3, Journals DEF IInv
      <3> QED
        BY <3>1, <3>2 DEF Accounted, Ours
    <2>3. CASE StageFails \/ StageUnpublished
      <3>1. /\ pc = "undo" /\ row = 0
            /\ UNCHANGED value /\ stuck' = (stuck \/ ~clean)
        BY <2>3
        DEF StageFails, StageUnpublished, UndoDone, system, RaiseStuck, Undisturbed, Tracked,
            Current, IInv, TypeOK
      <3>2. stuck \/ ~clean \/ Ours(s) = {}
        BY <1>3, <3>1, Undone DEF Tracked, Here, Undoing
      <3> QED
        BY <3>1, <3>2, FlagStays DEF Accounted, Ours
    <2>4. CASE UnlinkCommit /\ pc = "unlink-commit"
      <3>1. (stuck \/ Ours(s) = {}) /\ UNCHANGED value
        BY <1>3, <2>4 DEF UnlinkCommit, Tracked, Here, system
      <3> QED
        BY <3>1, FlagStays DEF Accounted, Ours
    <2>5. CASE StageRolledBack /\ ~clean
      BY <2>5
      DEF StageRolledBack, UndoDone, Accounted, RaiseStuck, Undisturbed, Tracked, Current
    <2> QED
      BY <1>3, <2>1, <2>2, <2>3, <2>4, <2>5, Closes DEF Tracked
  <1> QED
    BY <1>1, <1>2, <1>3

\* The stage a call is inside of keeps what its values are accounted by.
LEMMA HereSteps ==
    ASSUME IInv, Undisturbed, Tracked, Next
    PROVE  Here'
  <1> /\ stage \in Stages /\ active \in [Stages -> BOOLEAN] /\ row \in Nat
      /\ value \in [Keys -> Values] /\ Len(PlanRows[stage]) \in Nat
      /\ \A i \in 1..Len(PlanRows[stage]) : PlanRows[stage][i] \in Keys
    BY Rows DEF IInv, TypeOK
  <1>1. ASSUME pc' \in {"allocate", "preflight"} PROVE ~active'[stage']
    <2>1. CASE pc' = "preflight"
      BY <2>1, Moves
      DEF Busy, Undoing, Allocate, GoTo, Return, Check, Failure, UndoSkip, UndoCheck,
          UndoRefused,
          Restore, Recheck, Around, Tracked, Here, pointers
    <2>2. CASE pc' = "allocate"
      BY <2>2, Leaves DEF ApplyFresh, ForeignSet, Tracked, Here, pointers, locals
    <2> QED
      BY <1>1, <2>1, <2>2
  <1>2. ASSUME pc' \in {"own", "set", "check", "publish", "commit"},
               NEW i \in 1..Len(PlanRows[stage']), value'[PlanRows[stage'][i]] \in Plans
        PROVE  /\ i <= Len(journal'[stage'])
               /\ journal'[stage'][i].new = value'[PlanRows[stage'][i]]
    <2>1. CASE Preflight /\ pc' = "own"
      <3>1. value'[PlanRows[stage'][i]] = Stock
        BY <1>2, <2>1, Rows DEF Preflight, AtBaseline, StageKeys, system
      <3> QED
        BY <1>2, <3>1, ValueAssumption
    <2>2. CASE Own /\ pc' = "set"
      <3>1. /\ UNCHANGED <<stage, value>> /\ i # row /\ i <= Len(journal[stage])
            /\ Len(journal[stage]) = row - 1
            /\ journal[stage][i].new = value[PlanRows[stage][i]]
        BY <1>2, <2>2, Owned DEF Own, IInv, Ahead, Journalled, Tracked, Here
      <3> QED
        BY <2>2, <3>1, Owned
    <2>3. CASE Set /\ pc' = "check"
      <3>1. /\ pc = "set" /\ value' = [value EXCEPT ![PlanRows[stage][row]] = plan]
            /\ UNCHANGED <<stage, journal>>
        BY <2>3 DEF Set, GoTo, Undo, Key, StartUndo
      <3>2. row \in 1..Len(PlanRows[stage]) /\ row = Len(journal[stage])
        BY <3>1 DEF IInv, TypeOK, Journalled
      <3>3. CASE i = row
        BY <3>1, <3>2, <3>3 DEF Tracked, Here
      <3>4. CASE i # row
        <4>1. value'[PlanRows[stage][i]] = value[PlanRows[stage][i]]
          BY <1>2, <3>1, <3>2, <3>4, Rows
        <4> QED
          BY <1>2, <3>1, <4>1 DEF Tracked, Here
      <3> QED
        BY <3>3, <3>4
    <2>4. CASE Check \/ (Publish /\ pc' = "commit")
      BY <1>2, <2>4 DEF Check, Publish, Tracked, Here, system
    <2>5. CASE Around
      BY <1>2, <2>5 DEF Around, Tracked, Here
    <2> QED
      BY <1>2, <2>1, <2>2, <2>3, <2>4, <2>5, Moves
      DEF Busy, Failure, UndoSkip, UndoCheck, UndoRefused, Restore, Recheck, GoTo
  <1>3. ASSUME pc' = "set" PROVE journal'[stage'][row'].new = plan'
    BY <1>3, Moves, Owned
    DEF Own, Busy, Undoing, Check, Failure, UndoSkip, UndoCheck, UndoRefused, Restore, Recheck,
        GoTo,
        Around, Tracked, Here, system
  <1>4. ASSUME pc' = "commit" PROVE active'[stage']
    BY <1>4, Moves
    DEF Publish, Undo, Busy, Undoing, Check, Failure, UndoSkip, UndoCheck, UndoRefused, Restore,
        Recheck,
        GoTo, Around, Tracked, Here, StartUndo
  <1>5. ASSUME pc' \in Undoing, clean', ~stuck' PROVE Remaining'
    <2>1. ~stuck
      BY <1>5, FlagStays
    <2>2. CASE op' = "apply"
      BY <1>5, <2>2, BehindSteps DEF Behind
    <2>3. CASE RollbackNext /\ pc' = "undo"
      <3>1. /\ stage' \in Stages /\ pc = "next" /\ UNCHANGED <<active, journal, value>>
            /\ row' = Len(journal[stage'])
        BY <2>3, LocalTypes DEF RollbackNext, pointers, system, StartUndo
      <3>2. Accounted(stage')
        BY <3>1 DEF Tracked, Elsewhere, Open
      <3>3. ASSUME NEW i \in 1..Len(PlanRows[stage']), value[PlanRows[stage'][i]] \in Plans
            PROVE  i <= Len(journal[stage'])
        <4>1. PlanRows[stage'][i] \in Ours(stage')
          BY <3>1, <3>3, Rows DEF Ours, StageKeys
        <4>2. PICK j \in DOMAIN journal[stage'] : journal[stage'][j].key = PlanRows[stage'][i]
          BY <2>1, <3>2, <4>1 DEF Accounted
        <4>3. j \in 1..Len(journal[stage']) /\ j \in 1..Len(PlanRows[stage'])
          BY <3>1, <4>2, Rows, Journals DEF IInv, Journalled
        <4> QED
          BY <3>1, <4>2, <4>3, Rows DEF IInv, Journalled
      <3> QED
        BY <2>3, <3>1, <3>3 DEF Remaining
    <2>4. CASE UndoSkip \/ UndoCheck \/ Restore \/ Around
      <3>1. Remaining
        BY <1>5, <2>1, <2>4
        DEF UndoSkip, UndoCheck, Restore, Around, GoTo, locals, Undoing, Tracked, Here
      <3> QED
        BY <2>4, <3>1, RemainingKept
    <2>5. CASE Recheck
      <3>1. clean /\ pc = "recheck"
        BY <1>5, <2>5 DEF Recheck
      <3> QED
        BY <2>1, <2>5, <3>1, RemainingKept DEF Undoing, Tracked, Here
    <2>6. CASE op' # "apply" /\ Failure
      BY <2>6 DEF Failure, Tracked, Current, Applying
    <2> QED
      BY <1>5, <2>2, <2>3, <2>4, <2>5, <2>6, Moves DEF Busy, Undoing, UndoRefused, Check
  <1>6. ASSUME pc' \in {"unlink-active", "unlink-commit"}, ~stuck'
        PROVE  Ours(stage)' = {}
    <2>1. ~stuck
      BY <1>6, FlagStays
    <2>2. CASE (StageUncommitted \/ (StageRolledBack /\ clean)) /\ pc' = "unlink-active"
      <3>1. pc = "undo" /\ row = 0 /\ clean /\ UNCHANGED <<value, stage>>
        BY <1>6, <2>2
        DEF StageUncommitted, StageRolledBack, UndoDone, system, RaiseStuck, Undisturbed,
            Tracked, Current
      <3> QED
        BY <2>1, <3>1, Undone DEF Tracked, Here, Undoing, Ours
    <2>3. CASE UnlinkActive /\ pc = "unlink-active"
      BY <2>1, <2>3 DEF UnlinkActive, Tracked, Here, Ours, system
    <2>4. CASE UNCHANGED pc /\ UNCHANGED <<active, stage, value>>
      BY <1>6, <2>1, <2>4 DEF Tracked, Here, Ours
    <2>5. CASE ForeignSet
      <3>1. Ours(stage) = {} /\ UNCHANGED stage
        BY <1>6, <2>1, <2>5 DEF ForeignSet, Tracked, Here
      <3>2. \A k \in StageKeys(stage) : k \in Keys
        BY Rows DEF StageKeys
      <3> QED
        BY <2>5, <3>1, <3>2, ValueAssumption DEF ForeignSet, Ours, StageKeys, IInv, TypeOK
    <2> QED
      BY <1>6, <2>2, <2>3, <2>4, <2>5, Leaves DEF Tracked, ApplyFresh, GoTo
  <1> QED
    BY <1>1, <1>2, <1>3, <1>4, <1>5, <1>6 DEF Here

\* Between commands every value of ours is in the journal of an active
\* transaction or the property state's flag is up, as long as no command is killed,
\* the device does not restart, that flag can be written and no undo stops before
\* its first row (property-transaction.sh:39).
THEOREM Accounts ==
    ASSUME Undisturbed
    PROVE  Spec => ChangesAccountedFor
  <1>1. Init => Tracked
    <2> SUFFICES ASSUME Init PROVE Tracked
      OBVIOUS
    <2>1. \A s \in Stages : Ours(s) = {}
      BY Rows, ValueAssumption DEF Init, Ours, StageKeys
    <2> QED
      BY <2>1 DEF Init, Tracked, Current, Elsewhere, Here, Accounted, Applying, Undoing
  <1>2. IInv /\ Tracked /\ (pc # "unreversed")' /\ [Next]_vars => Tracked'
    <2>1. ASSUME IInv, Tracked, Next, pc' # "unreversed" PROVE Tracked'
      BY <2>1, CurrentSteps, ElsewhereSteps, HereSteps DEF Tracked
    <2>2. ASSUME Tracked, UNCHANGED vars PROVE Tracked'
      BY <2>2 DEF vars, Tracked, Current, Elsewhere, Here, Accounted, Ours, Remaining
    <2> QED
      BY <2>1, <2>2
  <1>3. Tracked => ValuesKnown
    BY DEF Tracked, Elsewhere, Accounted, Open, ValuesKnown
  <1> QED
    BY <1>1, <1>2, <1>3, Invariance, PTL DEF Spec, ChangesAccountedFor
=============================================================================
