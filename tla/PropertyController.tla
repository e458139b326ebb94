------------------------- MODULE PropertyController -------------------------
(***************************************************************************)
(* The staged property controller: property-transaction.sh, the row filter *)
(* of property-policy.sh and the propctl.sh commands apply-stage,          *)
(* rollback-stage and rollback-all.                                        *)
(*                                                                         *)
(* One command at a time holds property.lock (module DirLock) and makes    *)
(* one property read, property write or file update per action; other      *)
(* writers of properties, a kill, a reboot and the runtime's recovery flag *)
(* interleave.  Shell functions share their caller's variables: bootVar is *)
(* fl_prop_apply_stage's _boot, which fl_prop_discard_previous_boot also   *)
(* reads the commit into.                                                  *)
(***************************************************************************)
EXTENDS Naturals, Sequences, SequencesExt

CONSTANTS
    Stages,     \* early, service, boot-completed
    AllStages,  \* the order rollback-all visits them in
    Keys,       \* properties of the plan
    PlanRows,   \* the keys of each stage, in plan order
    Plans,      \* values property-plan.tsv may give a property
    NoPlan,     \* the plan of an absent commit
    Stock,      \* a property's baseline
    Others,     \* values other writers set
    Faults,     \* calls that may fail
    Env,        \* what may happen around a command
    Windows,    \* check-to-use windows in which other writers may act
    MaxBoot     \* bound: boots

\* Preflight refuses a plan with a key in two rows, whatever their stages.
ASSUME RowsAssumption ==
    /\ PlanRows \in [Stages -> Seq(Keys)]
    /\ \A s, t \in Stages : \A i \in DOMAIN PlanRows[s], j \in DOMAIN PlanRows[t] :
          PlanRows[s][i] = PlanRows[t][j] => s = t /\ i = j

ASSUME StageAssumption == AllStages \in Seq(Stages) /\ MaxBoot \in Nat

ASSUME ValueAssumption ==
    /\ Plans # {}
    /\ Stock \notin Plans \cup Others
    /\ Plans \cap Others = {}
    /\ NoPlan \notin Plans

ASSUME AroundAssumption ==
    /\ Faults \subseteq {"boot-id", "allocate", "preflight", "read", "journal", "set",
                         "reverse", "restore", "publish", "commit", "flag"}
    /\ Env \subseteq {"foreign", "kill", "reboot", "recovery-on", "recovery-off", "replan"}
    /\ Windows \subseteq {"set", "restore"}

VARIABLES
    boot, plan,     \* boot counter; the installed property plan
    value,          \* what getprop reports for each key
    commit,         \* <stage>/commit
    active,         \* <stage>/active-journal exists
    journal,        \* OWNED rows of the newest transaction-*.tsv of each stage
    recovery,       \* the runtime's recovery.flag
    stuck,          \* the property state's own recovery.flag
    pc, op, stage, rc,  \* the command holding property.lock, or the latest one
    row, bootVar, clean, undo, todo, allOk  \* its shell variables

system == <<boot, plan, value>>
pointers == <<commit, active>>
flags == <<recovery, stuck>>
locals == <<row, bootVar, clean, undo, todo, allOk>>
vars == <<boot, plan, value, commit, active, journal, recovery, stuck, pc, op, stage, rc,
          row, bootVar, clean, undo, todo, allOk>>

NoCommit == [boot |-> 0, plan |-> NoPlan]
Values == {Stock} \cup Plans \cup Others
JournalRow == [key : Keys, old : Values, new : Plans]
Key == PlanRows[stage][row]
Entry == journal[stage][row]
StageKeys(s) == {PlanRows[s][i] : i \in DOMAIN PlanRows[s]}

Init ==
    /\ boot = 1 /\ plan \in Plans /\ value = [k \in Keys |-> Stock]
    /\ commit = [s \in Stages |-> NoCommit]
    /\ active = [s \in Stages |-> FALSE]
    /\ journal = [s \in Stages |-> <<>>]
    /\ recovery = FALSE /\ stuck = FALSE
    /\ pc = "idle" /\ op = "none" /\ stage \in Stages /\ rc = "none"
    /\ row = 0 /\ bootVar = 0 /\ clean = TRUE /\ undo = "none" /\ todo = <<>> /\ allOk = TRUE

\* fl_prop_finish_locked, and the end of the shell.
Return(result) ==
    /\ pc' = "idle" /\ rc' = result
    /\ row' = 0 /\ bootVar' = 0 /\ clean' = TRUE /\ undo' = "none" /\ todo' = <<>>
    /\ allOk' = TRUE

\* fl_atomic_write of a flag, whose own failure nothing checks.
RaiseRecovery == recovery' = TRUE \/ ("flag" \in Faults /\ UNCHANGED recovery)

RaiseStuck == stuck' = TRUE \/ ("flag" \in Faults /\ UNCHANGED stuck)

GoTo(next) == pc' = next /\ UNCHANGED <<rc, locals>>

\* Mutant of Undo: the row being applied is taken not to need undoing.
UndoSkipsNewest(reason) ==
    /\ pc' = "undo" /\ undo' = reason /\ clean' = TRUE
    /\ row' = IF journal[stage] = <<>> THEN 0 ELSE Len(journal[stage]) - 1
    /\ UNCHANGED <<rc, bootVar, todo, allOk>>

\* fl_prop_rollback_journal starts: the OWNED rows in reverse.  When they cannot
\* be written down it returns at once, without the flag.
StartUndo(s, reason) ==
    /\ undo' = reason
    /\ \/ pc' = "undo" /\ row' = Len(journal[s]) /\ clean' = TRUE
       \/ "reverse" \in Faults /\ pc' = "unreversed" /\ row' = 0 /\ clean' = FALSE

Undo(reason) == StartUndo(stage, reason) /\ UNCHANGED <<rc, bootVar, todo, allOk>>

-----------------------------------------------------------------------------
\* fl_prop_apply_stage: entry and the state of an earlier transaction

\* fl_prop_discard_previous_boot finds a commit of another boot.
Stale(s) == commit[s] # NoCommit /\ commit[s].boot # boot

\* fl_prop_verify_stage.
VerifyStage(s) ==
    /\ commit[s] = [boot |-> boot, plan |-> plan]
    /\ active[s]
    /\ \A i \in DOMAIN journal[s] : value[journal[s][i].key] = journal[s][i].new

\* Recovery mode, or no boot id.
ApplyRefused ==
    /\ pc = "idle"
    /\ recovery \/ "boot-id" \in Faults
    /\ op' = "apply" /\ stage' \in Stages
    /\ Return("fail")
    /\ UNCHANGED <<system, pointers, journal, flags>>

\* The recovery flag is read here, before the lock is taken.
ApplyBegin ==
    /\ pc = "idle"
    /\ ~recovery
    /\ op' = "apply" /\ stage' \in Stages
    /\ pc' = "discard" /\ rc' = "none"
    /\ bootVar' = boot
    /\ UNCHANGED <<system, pointers, journal, flags, row, clean, undo, todo, allOk>>

\* The earlier boot's pointers go; reading its commit has also set _boot.
ApplyStale ==
    /\ pc = "discard"
    /\ Stale(stage)
    /\ bootVar' = commit[stage].boot
    /\ pc' = "drop-commit"
    /\ UNCHANGED <<system, pointers, journal, flags, op, stage, rc,
                   row, clean, undo, todo, allOk>>

ApplyFresh ==
    /\ pc = "discard"
    /\ commit[stage] = NoCommit /\ ~active[stage]
    /\ GoTo("allocate")
    /\ UNCHANGED <<system, pointers, journal, flags, op, stage>>

ApplyVerified ==
    /\ pc = "discard"
    /\ ~Stale(stage)
    /\ VerifyStage(stage)
    /\ Return("ok")
    /\ UNCHANGED <<system, pointers, journal, flags, op, stage>>

ApplyInconsistent ==
    /\ pc = "discard"
    /\ ~Stale(stage)
    /\ commit[stage] # NoCommit \/ active[stage]
    /\ ~VerifyStage(stage) \/ "read" \in Faults
    /\ RaiseRecovery
    /\ Return("fail")
    /\ UNCHANGED <<system, pointers, journal, stuck, op, stage>>

\* property-sequence and an empty journal file.
Allocate ==
    /\ pc = "allocate"
    /\ \/ journal' = [journal EXCEPT ![stage] = <<>>] /\ GoTo("preflight")
       \/ "allocate" \in Faults /\ Return("fail") /\ UNCHANGED journal
    /\ UNCHANGED <<system, pointers, flags, op, stage>>

\* Mutant of AtBaseline: a value of ours is not taken for a conflict.
NotForeign(s) == \A k \in StageKeys(s) : value[k] \notin Others

AtBaseline(s) == \A k \in StageKeys(s) : value[k] = Stock

\* fl_prop_preflight_stage; a stage without rows is done.
Preflight ==
    /\ pc = "preflight"
    /\ AtBaseline(stage)
    /\ \/ /\ PlanRows[stage] = <<>>
          /\ Return("ok")
       \/ /\ PlanRows[stage] # <<>>
          /\ row' = 1 /\ pc' = "own"
          /\ UNCHANGED <<rc, bootVar, clean, undo, todo, allOk>>
    /\ UNCHANGED <<system, pointers, journal, flags, op, stage>>

PreflightFails ==
    /\ pc = "preflight"
    /\ ~AtBaseline(stage) \/ "preflight" \in Faults
    /\ RaiseRecovery
    /\ Return("fail")
    /\ UNCHANGED <<system, pointers, journal, stuck, op, stage>>

-----------------------------------------------------------------------------
\* fl_prop_apply_stage: the rows, then the pointers

\* The row is journalled with the value read now, not the one preflight saw.
Own ==
    /\ pc = "own"
    /\ \/ /\ journal' = [journal EXCEPT ![stage] =
                             Append(@, [key |-> Key, old |-> value[Key], new |-> plan])]
          /\ GoTo("set")
       \/ /\ {"read", "journal"} \cap Faults # {}
          /\ Undo("row")
          /\ UNCHANGED journal
    /\ UNCHANGED <<system, pointers, flags, op, stage>>

\* resetprop; a failing one may have changed the property or not.
Set ==
    /\ pc = "set"
    /\ \/ value' = [value EXCEPT ![Key] = plan] /\ GoTo("check")
       \/ /\ "set" \in Faults
          /\ value' \in {value, [value EXCEPT ![Key] = plan]}
          /\ Undo("row")
    /\ UNCHANGED <<boot, plan, pointers, journal, flags, op, stage>>

\* Mutant of Check: the last row is not recognised.
CheckRunsOn ==
    /\ pc = "check"
    /\ value[Key] = plan
    /\ row' = row + 1 /\ pc' = "own"
    /\ UNCHANGED <<system, pointers, journal, flags, op, stage, rc,
                   bootVar, clean, undo, todo, allOk>>

Check ==
    /\ pc = "check"
    /\ value[Key] = plan
    /\ \/ row < Len(PlanRows[stage]) /\ row' = row + 1 /\ pc' = "own"
       \/ row = Len(PlanRows[stage]) /\ pc' = "publish" /\ UNCHANGED row
    /\ UNCHANGED <<system, pointers, journal, flags, op, stage, rc,
                   bootVar, clean, undo, todo, allOk>>

CheckFails ==
    /\ pc = "check"
    /\ value[Key] # plan \/ "read" \in Faults
    /\ Undo("row")
    /\ UNCHANGED <<system, pointers, journal, flags, op, stage>>

Publish ==
    /\ pc = "publish"
    /\ \/ active' = [active EXCEPT ![stage] = TRUE] /\ GoTo("commit")
       \/ "publish" \in Faults /\ Undo("publish") /\ UNCHANGED active
    /\ UNCHANGED <<system, commit, journal, flags, op, stage>>

Commit ==
    /\ pc = "commit"
    /\ \/ /\ commit' = [commit EXCEPT ![stage] = [boot |-> bootVar, plan |-> plan]]
          /\ Return("ok")
       \/ "commit" \in Faults /\ Undo("commit") /\ UNCHANGED commit
    /\ UNCHANGED <<system, active, journal, flags, op, stage>>

-----------------------------------------------------------------------------
\* fl_prop_rollback_journal: in reverse, going on after a row it cannot undo

\* The property is as it was: written before a failed write, or already undone.
UndoSkip ==
    /\ pc = "undo" /\ row > 0
    /\ value[Entry.key] = Entry.old
    /\ row' = row - 1
    /\ UNCHANGED <<system, pointers, journal, flags, pc, op, stage, rc,
                   bootVar, clean, undo, todo, allOk>>

\* Mutant of UndoCheck: a value that is not the old one is taken to be ours.
UndoAnything ==
    /\ pc = "undo" /\ row > 0
    /\ value[Entry.key] # Entry.old
    /\ GoTo("restore")
    /\ UNCHANGED <<system, pointers, journal, flags, op, stage>>

UndoCheck ==
    /\ pc = "undo" /\ row > 0
    /\ value[Entry.key] # Entry.old /\ value[Entry.key] = Entry.new
    /\ GoTo("restore")
    /\ UNCHANGED <<system, pointers, journal, flags, op, stage>>

\* Mutant of UndoRefused: the row is tried again instead of being skipped.
UndoRetries ==
    /\ \/ /\ pc = "undo" /\ row > 0
          /\ value[Entry.key] \notin {Entry.old, Entry.new} \/ "read" \in Faults
       \/ pc = "restore" /\ "restore" \in Faults
    /\ clean' = FALSE /\ pc' = "undo"
    /\ UNCHANGED <<system, pointers, journal, flags, op, stage, rc, row, bootVar, undo,
                   todo, allOk>>

\* Another writer's value, an unreadable one, or a failed restore, which may
\* have changed the property or not.
UndoRefused ==
    /\ \/ /\ pc = "undo" /\ row > 0
          /\ value[Entry.key] \notin {Entry.old, Entry.new} \/ "read" \in Faults
          /\ UNCHANGED value
       \/ /\ pc = "restore" /\ "restore" \in Faults
          /\ value' \in {value, [value EXCEPT ![Entry.key] = Entry.old]}
    /\ clean' = FALSE /\ row' = row - 1 /\ pc' = "undo"
    /\ UNCHANGED <<boot, plan, pointers, journal, flags, op, stage, rc, bootVar, undo,
                   todo, allOk>>

Restore ==
    /\ pc = "restore"
    /\ value' = [value EXCEPT ![Entry.key] = Entry.old]
    /\ GoTo("recheck")
    /\ UNCHANGED <<boot, plan, pointers, journal, flags, op, stage>>

\* The value restored is read again.
Recheck ==
    /\ pc = "recheck"
    /\ \/ clean' = (clean /\ value[Entry.key] = Entry.old)
       \/ "read" \in Faults /\ clean' = FALSE
    /\ row' = row - 1 /\ pc' = "undo"
    /\ UNCHANGED <<system, pointers, journal, flags, op, stage, rc, bootVar, undo,
                   todo, allOk>>

\* Mutant of UndoDone: an incomplete rollback is only returned.
UndoDoneUnflagged(reason) ==
    /\ pc \in {"undo", "unreversed"} /\ row = 0 /\ undo = reason
    /\ UNCHANGED stuck

UndoDone(reason) ==
    /\ pc \in {"undo", "unreversed"} /\ row = 0 /\ undo = reason
    /\ IF clean \/ pc = "unreversed" THEN UNCHANGED stuck ELSE RaiseStuck

\* A row failed: whatever the rollback achieved, recovery mode is entered.
StageFails ==
    /\ UndoDone("row")
    /\ RaiseRecovery
    /\ Return("fail")
    /\ UNCHANGED <<system, pointers, journal, op, stage>>

\* active-journal could not be written: the failure is only returned.
StageUnpublished ==
    /\ UndoDone("publish")
    /\ Return("fail")
    /\ UNCHANGED <<system, pointers, journal, recovery, op, stage>>

\* The commit could not be written: both pointers go, and nothing else.
StageUncommitted ==
    /\ UndoDone("commit")
    /\ GoTo("unlink-active")
    /\ UNCHANGED <<system, pointers, journal, recovery, op, stage>>

\* A rollback command is done with a stage; it keeps the pointers if a row failed.
StageRolledBack ==
    /\ UndoDone("rollback")
    /\ \/ clean /\ GoTo("unlink-active")
       \/ ~clean /\ allOk' = FALSE /\ pc' = "next"
          /\ UNCHANGED <<rc, row, bootVar, clean, undo, todo>>
    /\ UNCHANGED <<system, pointers, journal, recovery, op, stage>>

\* rm -f active-journal commit, or commit active-journal when discarding.
UnlinkActive ==
    /\ active' = [active EXCEPT ![stage] = FALSE]
    /\ \/ pc = "unlink-active" /\ GoTo("unlink-commit")
       \/ pc = "drop-active" /\ op = "apply" /\ GoTo("allocate")
       \/ pc = "drop-active" /\ op # "apply" /\ GoTo("next")
    /\ UNCHANGED <<system, commit, journal, flags, op, stage>>

UnlinkCommit ==
    /\ pc \in {"unlink-commit", "drop-commit"}
    /\ commit' = [commit EXCEPT ![stage] = NoCommit]
    /\ \/ pc = "drop-commit" /\ GoTo("drop-active")
       \/ pc = "unlink-commit" /\ op # "apply" /\ GoTo("next")
       \/ pc = "unlink-commit" /\ op = "apply" /\ Return("fail")
    /\ UNCHANGED <<system, active, journal, flags, op, stage>>

-----------------------------------------------------------------------------
\* fl_prop_rollback_stage and fl_prop_rollback_all

RollbackBegin ==
    /\ pc = "idle"
    /\ rc' = "none" /\ pc' = "next"
    /\ \/ op' = "rollback" /\ \E s \in Stages : todo' = <<s>>
       \/ op' = "rollback-all" /\ todo' = AllStages
    /\ UNCHANGED <<system, pointers, journal, flags, stage, row, bootVar, clean, undo, allOk>>

\* fl_prop_rollback_stage_unlocked: no active journal, an earlier boot's
\* pointers, a journal to undo, or a boot id that cannot be read.
RollbackNext ==
    /\ pc = "next" /\ todo # <<>>
    /\ stage' = Head(todo) /\ todo' = Tail(todo)
    /\ LET s == Head(todo) IN
       \/ ~active[s] /\ UNCHANGED <<pc, row, clean, undo, allOk>>
       \/ /\ active[s] /\ Stale(s)
          /\ pc' = "drop-commit"
          /\ UNCHANGED <<row, clean, undo, allOk>>
       \/ /\ active[s] /\ ~Stale(s)
          /\ StartUndo(s, "rollback")
          /\ UNCHANGED allOk
       \/ /\ active[s] /\ "boot-id" \in Faults
          /\ allOk' = FALSE
          /\ UNCHANGED <<pc, row, clean, undo>>
    /\ UNCHANGED <<system, pointers, journal, flags, op, rc, bootVar>>

RollbackEnd ==
    /\ pc = "next" /\ todo = <<>>
    /\ Return(IF allOk THEN "ok" ELSE "fail")
    /\ UNCHANGED <<system, pointers, journal, flags, op, stage>>

-----------------------------------------------------------------------------
\* Around the commands

\* Between a check and the write that relies on it other writers act only in
\* the windows named.
Shielded(k) ==
    \/ pc = "set" /\ "set" \notin Windows /\ k = Key
    \/ pc \in {"restore", "recheck"} /\ "restore" \notin Windows /\ k = Entry.key

ForeignSet ==
    /\ "foreign" \in Env
    /\ \E k \in Keys, v \in Others \cup {Stock} :
          ~Shielded(k) /\ v # value[k] /\ value' = [value EXCEPT ![k] = v]
    /\ UNCHANGED <<boot, plan, pointers, journal, flags, pc, op, stage, rc, locals>>

RecoveryChanges ==
    /\ \/ "recovery-on" \in Env /\ ~recovery
       \/ "recovery-off" \in Env /\ recovery
    /\ recovery' = ~recovery
    /\ UNCHANGED <<system, pointers, journal, stuck, pc, op, stage, rc, locals>>

Kill ==
    /\ "kill" \in Env
    /\ pc # "idle"
    /\ Return("killed")
    /\ UNCHANGED <<system, pointers, journal, flags, op, stage>>

\* resetprop without -p does not survive a reboot; files do.
Reboot ==
    /\ "reboot" \in Env
    /\ boot < MaxBoot
    /\ boot' = boot + 1
    /\ plan' \in Plans
    /\ value' = [k \in Keys |-> Stock]
    /\ op' = "none"
    /\ Return("none")
    /\ UNCHANGED <<pointers, journal, flags, stage>>

Replan ==
    /\ "replan" \in Env
    /\ pc = "idle"
    /\ plan' \in Plans \ {plan}
    /\ UNCHANGED <<boot, value, pointers, journal, flags, pc, op, stage, rc, locals>>

-----------------------------------------------------------------------------
ApplyStep ==
    \/ ApplyStale \/ ApplyFresh \/ ApplyVerified \/ ApplyInconsistent
    \/ Allocate \/ Preflight \/ PreflightFails
    \/ Own \/ Set \/ Check \/ CheckFails \/ Publish \/ Commit

UndoStep ==
    \/ UndoSkip \/ UndoCheck \/ UndoRefused \/ Restore \/ Recheck
    \/ StageFails \/ StageUnpublished \/ StageUncommitted \/ StageRolledBack
    \/ UnlinkActive \/ UnlinkCommit

\* The running command makes its next call.
CommandStep == ApplyStep \/ UndoStep \/ RollbackNext \/ RollbackEnd

Command == ApplyRefused \/ ApplyBegin \/ RollbackBegin

Environment == ForeignSet \/ RecoveryChanges \/ Kill \/ Reboot \/ Replan

Next == CommandStep \/ Command \/ Environment

Spec == Init /\ [][Next]_vars

\* A running command is scheduled; nothing obliges anyone to start one.
FairSpec == Spec /\ WF_vars(CommandStep)

-----------------------------------------------------------------------------
\* Properties

TypeOK ==
    /\ boot \in Nat /\ plan \in Plans /\ value \in [Keys -> Values]
    /\ commit \in [Stages -> [boot : Nat, plan : Plans \cup {NoPlan}]]
    /\ active \in [Stages -> BOOLEAN]
    /\ journal \in [Stages -> Seq(JournalRow)]
    /\ recovery \in BOOLEAN /\ stuck \in BOOLEAN
    /\ pc \in {"idle", "discard", "drop-commit", "drop-active", "allocate", "preflight",
               "own", "set", "check", "publish", "commit", "undo", "unreversed", "restore",
               "recheck", "unlink-active", "unlink-commit", "next"}
    /\ op \in {"none", "apply", "rollback", "rollback-all"} /\ stage \in Stages
    /\ rc \in {"none", "ok", "fail", "killed"}
    /\ row \in 0..Len(PlanRows[stage]) /\ bootVar \in Nat /\ clean \in BOOLEAN /\ allOk \in BOOLEAN
    /\ undo \in {"none", "row", "publish", "commit", "rollback"} /\ todo \in Seq(Stages)

Ours(s) == {k \in StageKeys(s) : value[k] \in Plans}

\* An apply that fails and reports a clean rollback has left none of its
\* values in the stage, whichever row, write or pointer failed.
CleanUndoRestores ==
    [][op = "apply" /\ pc = "undo" /\ pc' # "undo" /\ row = 0 /\ clean
         => Ours(stage) = {}]_vars

ValuesKnown ==
    pc = "idle" => \A s \in Stages : \A k \in Ours(s) :
        \/ stuck
        \/ active[s] /\ \E i \in DOMAIN journal[s] :
               journal[s][i].key = k /\ journal[s][i].new = value[k]

\* Between commands every value of ours is journalled in an active
\* transaction, or the property state's own flag, which nothing lowers, says that
\* one could not be undone; as long as each undo can write its reversed journal
\* (FailedApplyFlags is about the other case) and that flag can be written.
ChangesAccountedFor == [](pc # "unreversed") => []ValuesKnown

\* A stage is applied from its baseline: a value that a killed, unfinished or
\* uncommitted apply left behind is never journalled as the value to restore.
OldValuesAreNotOurs ==
    \A s \in Stages : \A i \in DOMAIN journal[s] : journal[s][i].old \notin Plans

\* Rolling back never overwrites a value another writer set after us, as long
\* as none is set between the check and the write.
UndoSparesForeign ==
    [][pc = "restore" /\ pc' = "recheck" =>
         \A k \in Keys : value[k] \in Others => value'[k] = value[k]]_vars

\* Once a row of a stage has failed, recovery mode is entered, as long as its flag
\* can be written: the undo gets to its end whatever rows it cannot restore, and
\* when it cannot even begin.
StageFailureLatches == undo = "row" ~> recovery

\* An apply that fails and leaves values of its own in the stage has raised the
\* runtime's recovery flag (docs/STAGED_PROPERTIES.md:59).
FailedApplyFlags ==
    [][op = "apply" /\ pc # "idle" /\ rc' = "fail" /\ Ours(stage) # {} => recovery']_vars

\* A rollback-all that has been through every stage and returns success has left
\* no value of ours.
RollbackRestores ==
    [][op = "rollback-all" /\ pc = "next" /\ rc' = "ok" =>
         \A s \in Stages : Ours(s) = {}]_vars
=============================================================================
