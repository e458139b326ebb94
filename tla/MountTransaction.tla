-------------------------- MODULE MountTransaction --------------------------
(***************************************************************************)
(* The mount transaction engine of scripts/runtime/transaction.sh and the  *)
(* mountctl.sh commands that reach it: apply, detach, boot-complete,       *)
(* recovery-on and recovery-off.                                           *)
(*                                                                         *)
(* The kernel keeps, for every plan row, the stack of layers mounted on    *)
(* the row's target.  One command at a time holds transaction.lock (module *)
(* DirLock has the lock itself); it advances one platform call per action, *)
(* so that other mounters, a kill, a reboot and the commands that write    *)
(* recovery.flag without the lock interleave between any two calls.        *)
(*                                                                         *)
(* Mount ids are those of Linux: an id is free again once its layer is     *)
(* gone, so Bind and ForeignMount take any id that no layer has now.       *)
(***************************************************************************)
EXTENDS Naturals, Sequences, FiniteSets, SequencesExt

CONSTANTS
    NRows,      \* rows of the mount plan; preflight refuses a repeated target
    Plans,      \* contents mount-plan.tsv and the generated files may have
    Ids,        \* mount ids the kernel hands out
    BaseId,     \* mount id of the partition below every target
    NoId,       \* "no mount id"
    NoPlan,     \* the plan of an absent journal or commit
    Baseline,   \* content of an unmodified target
    Others,     \* contents of layers bound by other mounters
    Faults,     \* platform calls that may fail
    Env,        \* what may happen around a command
    Windows,    \* check-to-use windows in which other mounters may act
    MaxBoot,    \* bound: boots
    MaxForeign, \* bound: layers of other mounters at one time
    MaxTx       \* bound: transactions begun in one boot

ASSUME SizeAssumption == NRows \in Nat \ {0} /\ MaxBoot \in Nat /\ MaxTx \in Nat
                         /\ MaxForeign \in Nat

ASSUME IdAssumption == BaseId \notin Ids /\ NoId \notin Ids /\ NoId # BaseId

\* A generated file differs from the file it replaces and from what another
\* mounter puts there.  Another mounter may put the unmodified file there.
ASSUME ContentAssumption ==
    /\ Plans # {}
    /\ NoPlan \notin Plans \cup Others
    /\ Baseline \notin Plans
    /\ Plans \cap Others = {}

ASSUME EnvAssumption ==
    /\ Faults \subseteq {"namespace", "allocate", "preflight", "bind", "identify",
                         "record", "remount", "check", "publish", "commit",
                         "umount", "reverse", "event", "flag"}
    /\ Env \subseteq {"foreign", "kill", "reboot", "recovery-on", "recovery-off", "replan"}
    /\ Windows \subseteq {"identify", "remount", "umount"}

VARIABLES
    \* the kernel and the installed module
    boot,           \* boot counter standing for random/boot_id
    stack,          \* layers above the baseline of each row's target, top last
    plan,           \* the installed mount plan
    masked,         \* history: rows on which others have hidden a layer of ours
                    \* under the unmodified file in this boot
    \* files of state/runtime
    commit,         \* the commit marker
    activeJournal,  \* transaction named by active-journal
    journal,        \* newest transaction-*.tsv; older ones are never read again
    txSequence,     \* tx-sequence
    recovery,       \* recovery.flag exists
    lastError,      \* last-error
    \* the command holding transaction.lock
    pc,             \* next call to make, "idle" when no command runs
    op,             \* the running or latest command
    rc,             \* what the latest command returned
    row,            \* row being mounted or rolled back
    pre,            \* baseline mount ids recorded by preflight
    created,        \* created_id
    clean,          \* _failed = 0
    undo            \* why fl_rollback_journal was called

kernel == <<boot, stack, plan, masked>>
pointers == <<commit, activeJournal>>
files == <<commit, activeJournal, journal, txSequence, recovery, lastError>>
locals == <<row, pre, created, clean, undo>>
vars == <<boot, stack, plan, masked, commit, activeJournal, journal, txSequence,
          recovery, lastError, pc, op, rc, row, pre, created, clean, undo>>

-----------------------------------------------------------------------------
Rows == 1..NRows
Contents == Plans \cup Others
Layer == [id : Ids, content : Contents, ro : BOOLEAN]
TxId == [boot : Nat, n : Nat]
NoTx == [boot |-> 0, n |-> 0]
JournalRow == [pre : Ids \cup {BaseId}, created : Ids]
Stacks == [Rows -> Seq(Layer)]
JournalFile == [tx : TxId, rows : Seq(JournalRow), plan : Plans \cup {NoPlan}]
CommitFile == [tx : TxId, boot : Nat, plan : Plans \cup {NoPlan}]
PreIds == [Rows -> Ids \cup {BaseId, NoId}]
NoJournal == [tx |-> NoTx, rows |-> <<>>, plan |-> NoPlan]
NoCommit == [tx |-> NoTx, boot |-> 0, plan |-> NoPlan]

Owned(layer) == layer.content \in Plans
HasOwned(r) == \E i \in DOMAIN stack[r] : Owned(stack[r][i])

\* The layer an open of the target reaches; the partition if nothing is mounted.
Visible(r) ==
    IF stack[r] = <<>>
    THEN [id |-> BaseId, content |-> Baseline, ro |-> TRUE]
    ELSE Last(stack[r])

ForeignLayers ==
    UNION {{<<r, i>> : i \in {j \in DOMAIN stack[r] : ~Owned(stack[r][j])}} : r \in Rows}

IdsInUse == UNION {{stack[r][i].id : i \in DOMAIN stack[r]} : r \in Rows}

Push(r, layer) == stack' = [stack EXCEPT ![r] = Append(@, layer)]

\* umount of a target with nothing mounted on it does not succeed.
Pop(r) == stack[r] # <<>> /\ stack' = [stack EXCEPT ![r] = Front(@)]

\* fl_atomic_write of recovery.flag, whose own failure nothing checks.
RaiseRecovery ==
    \/ recovery' = TRUE
    \/ "flag" \in Faults /\ UNCHANGED recovery

\* The command exits: the lock is released and the shell's variables are gone.
Return(result) ==
    /\ pc' = "idle" /\ rc' = result /\ row' = 0 /\ pre' = [r \in Rows |-> NoId]
    /\ created' = NoId /\ clean' = TRUE /\ undo' = "none"

Begin(command, first) ==
    /\ pc = "idle" /\ op' = command /\ rc' = "none" /\ pc' = first
    /\ UNCHANGED locals

\* Mutant of Rollback: the row that failed is taken not to need undoing.
RollbackSkipsNewest(reason, rows) ==
    /\ pc' = "rollback" /\ undo' = reason
    /\ row' = IF rows = <<>> THEN 0 ELSE Len(rows) - 1
    /\ clean' = TRUE

\* fl_rollback_journal begins over the rows journalled so far.  When the reversed
\* journal cannot be written it returns at once: no row is tried, no flag is written.
Rollback(reason, rows) ==
    /\ undo' = reason
    /\ \/ pc' = "rollback" /\ row' = Len(rows) /\ clean' = TRUE
       \/ "reverse" \in Faults /\ pc' = "unreversed" /\ row' = 0 /\ clean' = FALSE

Init ==
    /\ boot = 1 /\ stack = [r \in Rows |-> <<>>] /\ plan \in Plans /\ masked = {}
    /\ commit = NoCommit /\ activeJournal = NoTx /\ journal = NoJournal
    /\ txSequence = NoTx /\ recovery = FALSE /\ lastError = "none" /\ pc = "idle"
    /\ op = "none" /\ rc = "none" /\ row = 0 /\ pre = [r \in Rows |-> NoId]
    /\ created = NoId /\ clean = TRUE /\ undo = "none"

-----------------------------------------------------------------------------
\* State the pointers leave behind

CommitLoads == commit # NoCommit

\* fl_discard_previous_boot_pointers succeeds: a readable commit of another boot.
Discardable == CommitLoads /\ commit.boot # boot

\* Mutant of VerifyActive: trusts the pointers and skips the layers.
VerifyPointersOnly ==
    /\ CommitLoads /\ commit.boot = boot /\ commit.plan = plan
    /\ activeJournal # NoTx /\ activeJournal = journal.tx

\* fl_verify_active: this boot's commit of this plan, and every journalled
\* layer is the visible one, has the source's content and is read-only.
VerifyActive ==
    /\ CommitLoads /\ commit.boot = boot /\ commit.plan = plan
    /\ activeJournal # NoTx /\ activeJournal = journal.tx
    /\ \A k \in DOMAIN journal.rows :
          Visible(k) = [id |-> journal.rows[k].created, content |-> journal.plan, ro |-> TRUE]

\* The sequence number fl_next_transaction_id would take.
NextTx ==
    [boot |-> boot, n |-> IF txSequence.boot = boot THEN txSequence.n + 1 ELSE 1]

-----------------------------------------------------------------------------
\* fl_apply_plan: entry and the pointers of an earlier transaction

\* Recovery mode, or a namespace or boot id that cannot be established.
ApplyRefused ==
    /\ pc = "idle"
    /\ recovery \/ "namespace" \in Faults
    /\ op' = "apply" /\ Return("fail")
    /\ UNCHANGED <<kernel, files>>

ApplyBegin ==
    /\ ~recovery
    /\ NextTx.n <= MaxTx \/ commit # NoCommit \/ activeJournal # NoTx
    /\ Begin("apply", "pointers")
    /\ UNCHANGED <<kernel, files>>

\* Mutant of ApplyPointersClear: stale pointers are left for Commit to overwrite.
ApplyPointersKept ==
    /\ pc = "pointers"
    /\ (commit = NoCommit /\ activeJournal = NoTx) \/ Discardable
    /\ pc' = "allocate"
    /\ UNCHANGED <<kernel, files, op, rc, locals>>

\* No pointers: a new transaction. A stale pair: discard it first.
ApplyPointersClear ==
    /\ pc = "pointers"
    /\ \/ /\ commit = NoCommit
          /\ activeJournal = NoTx /\ pc' = "allocate"
       \/ Discardable /\ pc' = "unlink-active"
    /\ UNCHANGED <<kernel, files, op, rc, locals>>

\* The plan is already active in this boot: success without a mount.
ApplyAlreadyActive ==
    /\ pc = "pointers" /\ ~Discardable /\ VerifyActive /\ Return("ok")
    /\ UNCHANGED <<kernel, files, op>>

ApplyInconsistent ==
    /\ pc = "pointers" /\ ~Discardable
    /\ commit # NoCommit \/ activeJournal # NoTx
    /\ ~VerifyActive /\ RaiseRecovery /\ Return("fail")
    /\ UNCHANGED <<kernel, pointers, journal, txSequence, lastError, op>>

\* fl_next_transaction_id and the empty journal file.
Allocate ==
    /\ pc = "allocate"
    /\ \/ /\ txSequence' = NextTx
          /\ journal' = [NoJournal EXCEPT !.tx = NextTx] /\ pc' = "preflight"
          /\ UNCHANGED <<rc, locals>>
       \/ /\ "allocate" \in Faults /\ txSequence' \in {txSequence, NextTx}
          /\ Return("fail")
          /\ UNCHANGED journal
    /\ UNCHANGED <<kernel, pointers, recovery, lastError, op>>

\* Mutant of TargetsAtBaseline: a file of ours passes as the baseline does.
TargetsNotForeign == \A r \in Rows : Visible(r).content \in Plans \cup {Baseline}

\* Every target's content hashes to the baseline the plan names.
TargetsAtBaseline == \A r \in Rows : Visible(r).content = Baseline

\* fl_preflight_plan passes: every target shows its baseline.
Preflight ==
    /\ pc = "preflight" /\ TargetsAtBaseline
    /\ pre' = [r \in Rows |-> Visible(r).id]
    /\ journal' = [journal EXCEPT !.plan = plan] /\ row' = 1 /\ pc' = "bind"
    /\ UNCHANGED <<kernel, pointers, txSequence, recovery, lastError, op, rc,
                   created, clean, undo>>

\* A row is refused: nothing has been mounted and recovery is not entered.
PreflightFails ==
    /\ pc = "preflight"
    /\ ~TargetsAtBaseline \/ "preflight" \in Faults
    /\ lastError' = "preflight-failed" /\ Return("fail")
    /\ UNCHANGED <<kernel, pointers, journal, txSequence, recovery, op>>

-----------------------------------------------------------------------------
\* fl_apply_plan: the row loop

Bind ==
    /\ pc = "bind"
    /\ \/ /\ \E id \in Ids \ IdsInUse :
                Push(row, [id |-> id, content |-> journal.plan, ro |-> FALSE])
          /\ pc' = "identify"
          /\ UNCHANGED <<row, clean, undo>>
       \/ /\ "bind" \in Faults /\ Rollback("row", journal.rows)
          /\ UNCHANGED stack
    /\ UNCHANGED <<boot, plan, masked, files, op, rc, pre, created>>

\* The id now visible is taken to be the id just created.
Identify ==
    /\ pc = "identify" /\ Visible(row).id # pre[row] /\ created' = Visible(row).id
    /\ pc' = "record"
    /\ UNCHANGED <<kernel, files, op, rc, row, pre, clean, undo>>

\* No new id is visible: the mount is left alone and recovery is entered.
IdentifyFails ==
    /\ pc = "identify"
    /\ Visible(row).id = pre[row] \/ "identify" \in Faults
    /\ RaiseRecovery /\ Rollback("row", journal.rows)
    /\ UNCHANGED <<kernel, pointers, journal, txSequence, lastError, op, rc, pre, created>>

\* The identity is read from mountinfo and the MOUNTED row appended and synced.
Record ==
    /\ pc = "record"
    /\ \/ /\ journal' = [journal EXCEPT !.rows =
                              Append(@, [pre |-> pre[row], created |-> created])]
          /\ pc' = "remount"
       \/ /\ "record" \in Faults /\ pc' = "disown"
          /\ UNCHANGED journal
    /\ UNCHANGED <<kernel, pointers, txSequence, recovery, lastError, op, rc, locals>>

\* fl_unmount_if_owned_id: the check, then the umount.
Disown ==
    /\ pc = "disown" /\ Visible(row).id = created /\ pc' = "disown-umount"
    /\ UNCHANGED <<kernel, files, op, rc, locals>>

DisownRefused ==
    /\ \/ pc = "disown" /\ (Visible(row).id # created \/ "identify" \in Faults)
       \/ pc = "disown-umount" /\ "umount" \in Faults
    /\ RaiseRecovery /\ Rollback("row", journal.rows)
    /\ UNCHANGED <<kernel, pointers, journal, txSequence, lastError, op, rc, pre, created>>

DisownUmount ==
    /\ pc = "disown-umount" /\ Pop(row) /\ Rollback("row", journal.rows)
    /\ UNCHANGED <<boot, plan, masked, files, op, rc, pre, created>>

\* mount -o remount,bind,ro acts on the layer visible at the path.
Remount ==
    /\ pc = "remount"
    /\ \/ /\ stack' = [stack EXCEPT ![row] = [@ EXCEPT ![Len(@)].ro = TRUE]]
          /\ pc' = "check"
          /\ UNCHANGED <<row, clean, undo>>
       \/ /\ "remount" \in Faults /\ Rollback("row", journal.rows)
          /\ UNCHANGED stack
    /\ UNCHANGED <<boot, plan, masked, files, op, rc, pre, created>>

\* Mutant of Check: the last row is not recognised.
CheckRunsOn ==
    /\ pc = "check"
    /\ Visible(row) = [id |-> created, content |-> journal.plan, ro |-> TRUE]
    /\ row' = row + 1 /\ pc' = "bind"
    /\ UNCHANGED <<kernel, files, op, rc, pre, created, clean, undo>>

\* fl_platform_mount_is_ro, the visible id and the content hash.
Check ==
    /\ pc = "check"
    /\ Visible(row) = [id |-> created, content |-> journal.plan, ro |-> TRUE]
    /\ \/ row < NRows /\ row' = row + 1 /\ pc' = "bind"
       \/ row = NRows /\ pc' = "publish" /\ UNCHANGED row
    /\ UNCHANGED <<kernel, files, op, rc, pre, created, clean, undo>>

CheckFails ==
    /\ pc = "check"
    /\ \/ Visible(row) # [id |-> created, content |-> journal.plan, ro |-> TRUE]
       \/ "check" \in Faults
    /\ Rollback("row", journal.rows)
    /\ UNCHANGED <<kernel, files, op, rc, pre, created>>

-----------------------------------------------------------------------------
\* fl_apply_plan: the two pointers, active-journal first

Publish ==
    /\ pc = "publish"
    /\ \/ /\ activeJournal' = journal.tx
          /\ pc' = "commit"
          /\ UNCHANGED <<row, clean, undo>>
       \/ /\ "publish" \in Faults /\ Rollback("pointer", journal.rows)
          /\ UNCHANGED activeJournal
    /\ UNCHANGED <<kernel, commit, journal, txSequence, recovery, lastError, op, rc,
                   pre, created>>

Commit ==
    /\ pc = "commit"
    /\ \/ /\ commit' = [tx |-> journal.tx, boot |-> boot, plan |-> plan]
          /\ lastError' = "none" /\ Return("ok")
       \/ /\ "commit" \in Faults /\ Rollback("pointer", journal.rows)
          /\ UNCHANGED <<commit, lastError, rc, pre, created>>
    /\ UNCHANGED <<kernel, activeJournal, journal, txSequence, recovery, op>>

-----------------------------------------------------------------------------
\* fl_rollback_journal: the MOUNTED rows in reverse, going on after a failure

\* Mutant of RollbackCheck: the target path is proof enough of ownership.
RollbackByPath ==
    /\ pc = "rollback" /\ row > 0 /\ pc' = "umount"
    /\ UNCHANGED <<kernel, files, op, rc, locals>>

\* The journalled layer is still the visible one.
RollbackCheck ==
    /\ pc = "rollback" /\ row > 0 /\ Visible(row).id = journal.rows[row].created
    /\ pc' = "umount"
    /\ UNCHANGED <<kernel, files, op, rc, locals>>

\* Mutant of RollbackRowFails: the row is tried again instead of being skipped.
RollbackRetriesRow ==
    /\ \/ /\ pc = "rollback"
          /\ row > 0
          /\ Visible(row).id # journal.rows[row].created \/ "identify" \in Faults
       \/ pc = "umount" /\ (stack[row] = <<>> \/ "umount" \in Faults)
    /\ clean' = FALSE /\ pc' = "rollback"
    /\ UNCHANGED <<kernel, files, op, rc, row, pre, created, undo>>

\* Another layer is on top, or the umount fails: this row stays as it is.
RollbackRowFails ==
    /\ \/ /\ pc = "rollback"
          /\ row > 0
          /\ Visible(row).id # journal.rows[row].created \/ "identify" \in Faults
       \/ pc = "umount" /\ (stack[row] = <<>> \/ "umount" \in Faults)
    /\ clean' = FALSE /\ row' = row - 1 /\ pc' = "rollback"
    /\ UNCHANGED <<kernel, files, op, rc, pre, created, undo>>

RollbackUmount ==
    /\ pc = "umount" /\ Pop(row) /\ pc' = "restored"
    /\ UNCHANGED <<boot, plan, masked, files, op, rc, locals>>

\* The mount id and the content of before the transaction must be back.
RollbackVerify ==
    /\ pc = "restored"
    /\ clean' = (/\ clean
                 /\ Visible(row).id = journal.rows[row].pre
                 /\ Visible(row).content = Baseline)
    /\ row' = row - 1 /\ pc' = "rollback"
    /\ UNCHANGED <<kernel, files, op, rc, pre, created, undo>>

RollbackDone == pc \in {"rollback", "unreversed"} /\ row = 0

\* Mutant of FlagIfIncomplete: an incomplete rollback is only reported.
FlagNever == UNCHANGED recovery

\* The end of fl_rollback_journal, which an early return does not reach.
FlagIfIncomplete ==
    IF clean \/ pc = "unreversed" THEN UNCHANGED recovery ELSE RaiseRecovery

\* A row of apply failed: report what the rollback achieved.
ApplyFails ==
    /\ RollbackDone /\ undo = "row" /\ FlagIfIncomplete
    /\ lastError' = CASE recovery' -> "recovery-required"
                      [] ~recovery' /\ clean -> "rolled-back"
                      [] ~recovery' /\ ~clean -> "rollback-incomplete"
    /\ Return("fail")
    /\ UNCHANGED <<kernel, pointers, journal, txSequence, op>>

\* A pointer could not be written: whatever the rollback did, drop both.
ApplyUnpublished ==
    /\ RollbackDone /\ undo = "pointer" /\ FlagIfIncomplete /\ pc' = "unlink-active"
    /\ UNCHANGED <<kernel, pointers, journal, txSequence, lastError, op, rc, locals>>

DetachRolledBack ==
    /\ RollbackDone /\ undo = "detach" /\ FlagIfIncomplete
    /\ \/ clean /\ pc' = "unlink-active" /\ UNCHANGED <<rc, locals>>
       \/ ~clean /\ Return("fail")
    /\ UNCHANGED <<kernel, pointers, journal, txSequence, lastError, op>>

-----------------------------------------------------------------------------
\* rm -f active-journal commit: two unlinks

UnlinkActive ==
    /\ pc = "unlink-active" /\ activeJournal' = NoTx /\ pc' = "unlink-commit"
    /\ UNCHANGED <<kernel, commit, journal, txSequence, recovery, lastError, op, rc, locals>>

\* What follows depends on the caller: apply goes on after discarding stale
\* pointers and fails after an unpublished transaction; detach succeeds, unless
\* the last-event of a discard cannot be written: then it looks on for what it has
\* just removed.
UnlinkCommit ==
    /\ pc \in {"unlink-commit", "unlink-orphan"} /\ commit' = NoCommit
    /\ \/ /\ op = "apply" /\ undo = "none"
          /\ pc' = "allocate"
          /\ UNCHANGED <<recovery, rc, locals>>
       \/ op = "apply" /\ undo = "pointer" /\ Return("fail") /\ UNCHANGED recovery
       \/ op = "detach" /\ Return("ok") /\ UNCHANGED recovery
       \/ /\ op = "detach" /\ undo = "none" /\ "event" \in Faults /\ Return("fail")
          /\ IF pc = "unlink-orphan" THEN RaiseRecovery ELSE UNCHANGED recovery
    /\ UNCHANGED <<kernel, activeJournal, journal, txSequence, lastError, op>>

-----------------------------------------------------------------------------
\* fl_detach_active

DetachBegin ==
    /\ Begin("detach", "detach")
    /\ UNCHANGED <<kernel, files>>

\* The boot id or, once there is something to undo, the namespace is not known.
DetachRefused ==
    /\ pc = "detach" /\ "namespace" \in Faults /\ Return("fail")
    /\ UNCHANGED <<kernel, files, op>>

\* Nothing is recorded as active.
DetachNothing ==
    /\ pc = "detach" /\ activeJournal = NoTx /\ commit = NoCommit /\ Return("ok")
    /\ UNCHANGED <<kernel, files, op>>

\* The mounts of an earlier boot are gone: only the pointers are removed.
DetachStale ==
    /\ pc = "detach" /\ Discardable
    /\ pc' = IF activeJournal = NoTx THEN "unlink-orphan" ELSE "unlink-active"
    /\ UNCHANGED <<kernel, files, op, rc, locals>>

DetachOrphanCommit ==
    /\ pc = "detach" /\ activeJournal = NoTx /\ commit # NoCommit /\ ~Discardable
    /\ RaiseRecovery /\ Return("fail")
    /\ UNCHANGED <<kernel, pointers, journal, txSequence, lastError, op>>

DetachActive ==
    /\ pc = "detach" /\ activeJournal # NoTx /\ ~Discardable
    /\ \/ /\ activeJournal = journal.tx
          /\ Rollback("detach", journal.rows)
          /\ UNCHANGED <<rc, pre, created>>
       \/ activeJournal # journal.tx /\ Return("fail")
    /\ UNCHANGED <<kernel, files, op>>

-----------------------------------------------------------------------------
\* The other commands

\* fl_boot_guard_complete_verified, but for the boot counters it clears.
BootComplete ==
    /\ pc = "idle" /\ op' = "boot-complete"
    /\ \/ /\ recovery \/ VerifyActive
          /\ Return("ok")
          /\ UNCHANGED lastError
       \/ /\ ~recovery /\ ~VerifyActive /\ lastError' = "unverified"
          /\ Return("fail")
    /\ UNCHANGED <<kernel, pointers, journal, txSequence, recovery>>

\* The flag is written without the lock; the detach that follows needs it, and
\* its refusal is ignored.
RecoveryOn ==
    /\ "recovery-on" \in Env /\ recovery' = TRUE
    /\ \/ Begin("detach", "detach")
       \/ pc # "idle" /\ UNCHANGED <<pc, op, rc, locals>>
    /\ UNCHANGED <<kernel, pointers, journal, txSequence, lastError>>

\* recovery-off only removes files, and takes no lock.
RecoveryOff ==
    /\ "recovery-off" \in Env /\ recovery /\ recovery' = FALSE
    /\ UNCHANGED <<kernel, pointers, journal, txSequence, lastError, pc, op, rc, locals>>

-----------------------------------------------------------------------------
\* Around the commands

\* Other mounters may act between a call of the command and the call that
\* relies on it only in the windows named; the rest of the time they may act.
Shielded(r) ==
    /\ row = r
    /\ \/ pc = "identify" /\ "identify" \notin Windows
       \/ pc \in {"record", "remount"} /\ "remount" \notin Windows
       \/ pc \in {"disown-umount", "umount"} /\ "umount" \notin Windows

ForeignMount ==
    /\ "foreign" \in Env /\ Cardinality(ForeignLayers) < MaxForeign
    /\ \E r \in Rows, id \in Ids \ IdsInUse, content \in Others, ro \in BOOLEAN :
          /\ ~Shielded(r) /\ Push(r, [id |-> id, content |-> content, ro |-> ro])
          /\ masked' = IF content = Baseline /\ HasOwned(r) THEN masked \cup {r} ELSE masked
    /\ UNCHANGED <<boot, plan, files, pc, op, rc, locals>>

\* Other mounters remove only their own layers.
ForeignUmount ==
    /\ "foreign" \in Env
    /\ \E r \in Rows : ~Owned(Visible(r)) /\ Pop(r)
    /\ UNCHANGED <<boot, plan, masked, files, pc, op, rc, locals>>

\* The command dies between two calls; the next one takes over its lock.
Kill ==
    /\ "kill" \in Env /\ pc # "idle" /\ Return("killed")
    /\ UNCHANGED <<kernel, files, op>>

\* Mounts do not survive a reboot, files do; a staged module update lands.
Reboot ==
    /\ "reboot" \in Env /\ boot < MaxBoot /\ boot' = boot + 1
    /\ stack' = [r \in Rows |-> <<>>] /\ masked' = {} /\ plan' \in Plans /\ op' = "none"
    /\ Return("none")
    /\ UNCHANGED files

\* The plan is replaced in a running system, between two commands.
Replan ==
    /\ "replan" \in Env /\ pc = "idle" /\ plan' \in Plans \ {plan}
    /\ UNCHANGED <<boot, stack, masked, files, pc, op, rc, locals>>

-----------------------------------------------------------------------------
ApplyStep ==
    \/ ApplyPointersClear \/ ApplyAlreadyActive \/ ApplyInconsistent
    \/ Allocate \/ Preflight \/ PreflightFails
    \/ Bind \/ Identify \/ IdentifyFails \/ Record
    \/ Disown \/ DisownRefused \/ DisownUmount
    \/ Remount \/ Check \/ CheckFails \/ Publish \/ Commit

RollbackStep ==
    \/ RollbackCheck \/ RollbackRowFails \/ RollbackUmount \/ RollbackVerify
    \/ ApplyFails \/ ApplyUnpublished \/ DetachRolledBack
    \/ UnlinkActive \/ UnlinkCommit

DetachStep == DetachRefused \/ DetachNothing \/ DetachStale \/ DetachOrphanCommit \/ DetachActive

\* The running command makes its next call.
CommandStep == ApplyStep \/ RollbackStep \/ DetachStep

\* An operator, a lifecycle script or nobody starts the next command.
Command == ApplyRefused \/ ApplyBegin \/ DetachBegin \/ BootComplete

Environment ==
    \/ RecoveryOn \/ RecoveryOff
    \/ ForeignMount \/ ForeignUmount
    \/ Kill \/ Reboot \/ Replan

Next == CommandStep \/ Command \/ Environment

Spec == Init /\ [][Next]_vars

\* A running command is scheduled; nothing obliges anyone to start one.
FairSpec == Spec /\ WF_vars(CommandStep)

-----------------------------------------------------------------------------
\* Properties

PcValues == {"idle", "pointers", "unlink-active", "unlink-commit", "unlink-orphan", "allocate",
             "preflight", "bind", "identify", "record", "disown", "disown-umount",
             "remount", "check", "publish", "commit", "rollback", "unreversed",
             "umount", "restored", "detach"}

KernelOK ==
    /\ boot \in Nat \ {0} /\ stack \in Stacks /\ plan \in Plans /\ masked \subseteq Rows

FilesOK ==
    /\ commit \in CommitFile /\ activeJournal \in TxId /\ journal \in JournalFile
    /\ txSequence \in TxId
    /\ lastError \in {"none", "preflight-failed", "rolled-back", "recovery-required",
                      "rollback-incomplete", "unverified"}

CommandOK ==
    /\ pc \in PcValues /\ op \in {"none", "apply", "detach", "boot-complete"}
    /\ rc \in {"none", "ok", "fail", "killed"} /\ row \in 0..NRows /\ pre \in PreIds
    /\ created \in Ids \cup {BaseId, NoId}
    /\ undo \in {"none", "row", "pointer", "detach"}

FlagsOK == recovery \in BOOLEAN /\ clean \in BOOLEAN

TypeOK == KernelOK /\ FilesOK /\ CommandOK /\ FlagsOK

\* Repeated applies never pile our layers up on a target, whatever killed or
\* rolled back the earlier one (fl_preflight_plan's baseline hash is what stands
\* between an unrecorded layer and the next bind), unless another mounter has laid
\* the unmodified file over a layer of ours, which that hash takes for the baseline.
NoStacking ==
    \A r \in Rows \ masked : \A i, j \in DOMAIN stack[r] :
        Owned(stack[r][i]) /\ Owned(stack[r][j]) => i = j

\* The layer journalled for row r is in place: mounted, read-only, with the
\* content of the journalled plan.
InPlace(r) ==
    \E i \in DOMAIN stack[r] :
        stack[r][i] = [id |-> journal.rows[r].created, content |-> journal.plan, ro |-> TRUE]

\* An apply that returns success, by mounting or by verifying what it found, has
\* every row of the plan now installed in place, never a part of it nor an earlier
\* plan.
AppliedMeansInPlace ==
    [][op = "apply" /\ pc # "idle" /\ rc' = "ok" =>
         /\ journal.plan = plan
         /\ \A r \in Rows : r \in DOMAIN journal.rows /\ InPlace(r)]_vars

\* The commit marker never vouches for a transaction other than the journal it
\* is verified with: same transaction, same plan, a row for every target.
CommitDescribesJournal ==
    commit # NoCommit /\ activeJournal # NoTx =>
        /\ commit.tx = activeJournal /\ journal.tx = activeJournal
        /\ commit.plan = journal.plan /\ Len(journal.rows) = NRows

LayersKnown ==
    pc = "idle" /\ (\E r \in Rows : HasOwned(r)) =>
        recovery \/ (activeJournal # NoTx /\ activeJournal = journal.tx)

\* Between commands no layer of ours is mounted behind the runtime's back: it
\* belongs to the active journal, or recovery mode is on; as long as each rollback
\* can write its reversed journal (IncompleteRollbackFlags is about the other case).
LayersAccountedFor == [](pc # "unreversed") => []LayersKnown

\* An apply that reports "rolled back" has left no layer of ours on any target on
\* which none was hidden from its preflight.
RolledBackIsBaseline ==
    [][op = "apply" /\ RollbackDone /\ rc' = "fail" /\ lastError' = "rolled-back"
         => \A r \in Rows \ masked : ~HasOwned(r)]_vars

\* docs/TRANSACTIONAL_RUNTIME.md: "An incomplete rollback writes recovery.flag."
\* The early return of fl_rollback_journal does not.
IncompleteRollbackFlags ==
    [][RollbackDone /\ ~clean /\ ~RollbackDone' => recovery']_vars

\* The layers of other mounters keep their place, content and flags.
ForeignKept ==
    \A r \in Rows : \A i \in DOMAIN stack[r] :
        ~Owned(stack[r][i]) => i \in DOMAIN stack'[r] /\ stack'[r][i] = stack[r][i]

\* No call of apply removes or remounts a layer of another mounter, as long as
\* none is mounted between a check and the umount or remount it guards.
ApplySparesForeign ==
    [][op = "apply" /\ pc' # pc /\ boot' = boot => ForeignKept]_vars

\* The same of detach, which ids that are handed out again break when a detach
\* follows an incomplete rollback.
DetachSparesForeign ==
    [][op = "detach" /\ pc' # pc /\ boot' = boot => ForeignKept]_vars

\* A detach that returns success leaves no layer of ours mounted: not so after
\* an apply that failed with an incomplete rollback and left no pointers.
DetachedMeansGone ==
    op = "detach" /\ rc = "ok" => \A r \in Rows : ~HasOwned(r)

\* Pointers that an earlier boot left behind never put this boot in recovery: they
\* do when it ended between the writes of active-journal and commit.
StalePointersHarmless ==
    [][pc = "pointers" /\ recovery' /\ ~recovery =>
         activeJournal.boot = boot \/ commit.boot = boot]_vars

\* Once a row has failed, apply ends with every target free of our layers, with
\* recovery mode on or, if the rollback could not begin, with an error that says
\* so: no rollback gives up half way in silence.
FailureSettles ==
    undo = "row" ~> /\ pc = "idle"
                    /\ \/ recovery \/ lastError = "rollback-incomplete"
                       \/ \A r \in Rows \ masked : ~HasOwned(r)
=============================================================================
