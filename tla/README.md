# OP13-FeatureLab in TLA+

OP13-FeatureLab is a KernelSU module for one phone.  A Python toolchain on a
workstation generates XML replacements and a property plan from a feature
catalogue and assembles them into a module; shell scripts on the device bind
the replacements over system files and set properties at boot, in
transactions that can be rolled back.  This directory models the device side,
where several actors share kernel and file state, and the workstation's
toolchain, whose inputs and outputs are directories that others exchange
meanwhile; checks both with TLC and proves the safety of each module that
describes a process, for every size, with TLAPS.

Paths below are relative to `src/`.

## Inventory

| Part | State it keeps | Operations | Talks to |
|---|---|---|---|
| Directory lock, `scripts/runtime/platform.sh` 78-139 | `<state>/*.lock/owner` with boot id, pid, time | acquire, judge the owner, take over, release, signal trap | taken by both transaction engines |
| Platform helpers, `platform.sh` 1-76 | none | hash, atomic write, visible mount id, bind, remount, umount | kernel |
| Mount preflight, `policy.sh` | `preflight-*.tsv` | check every row and hash, record mount ids | called by apply under the lock |
| Mount transaction, `transaction.sh` | `commit`, `active-journal`, `transaction-*.tsv`, `tx-sequence`, `recovery.flag`, `last-error`; mounts in the kernel | apply, verify, detach, rollback | lock, preflight, platform |
| Boot guard, `transaction.sh` 261-304 | `boot-in-progress`, `boot-failures`, `last-boot-success` | begin, complete, complete verified | `recovery.flag`, verify |
| `mountctl.sh` | none | apply, boot-apply, detach, boot-complete, recovery-on/off, status | all of the above |
| Property controller, `scripts/properties/` | per stage `commit`, `active-journal`, `transaction-*.tsv`; `property-sequence`, its own `recovery.flag`, `reboot-required.flag`; the system's properties | apply-stage, rollback-stage, rollback-all, status | lock, the runtime's `recovery.flag`, resetprop |
| Lifecycle wrappers, `module-template/` | `lifecycle-mode` | post-fs-data / late-load, post-mount, service, boot-completed, uninstall | mountctl and propctl, one process each |
| Status bridge, `scripts/webui/status.sh`, `src/webui/` | none | read-only JSON | reads every state file, without a lock |
| Generator, `src/featurelab/generator.py` and the XML, selector, property-plan, audit, snapshot, compatibility modules | generated directory | generate, audit, commit by rename with a backup | catalogue, baseline |
| Assembler, `src/featurelab/assembler.py`, `assembly_*.py` | module directory and ZIP | stage, harden, commit both | generator's output |
| Device preflight, `tools/device/collect-preflight.sh`, `src/featurelab/preflight*.py` | archive and checksum; analysis directory | collect, verify, analyse, commit | device, workstation |
| CLI, repository audit, media tools | none | argument parsing, one-pass validators | files |

What is hard here, and what makes each part correct:

* **Lock.**  Mkdir, the owner file, the judgement and the takeover are separate
  calls on a path, by processes that die, are signalled and are rebooted away.
  Correct: one holder; a crash blocks nobody; everybody ends.
* **Mount engine.**  Every platform call may fail; other modules mount over and
  unmount from the same targets; a command is killed anywhere; mounts vanish at
  reboot and files do not; recovery-on and -off work without the lock.  Correct:
  all or nothing, never two layers of ours, never a foreign layer removed, every
  leftover either journalled or announced by recovery mode.
* **Property controller.**  The same, with values in place of layers: journal
  before write, restore only what is still ours, original values never lost.
* **Lifecycle.**  Two engines with two locks run from boot scripts that
  overlap; the boot guard must stop a boot loop.  Correct: recovery mode means
  nothing is in effect; a boot recorded as successful is whole.
* **Generator.**  Edits are written against selectors, the audit against
  whole documents: no combination of edits may cost a protected element, and no
  published property plan may be one the device refuses.
* **Assembler and preflight.**  Hash and use of a file are two reads of a path.
  Correct: what is packed or accepted is what was checked, whatever is exchanged
  in between, or the device finds out.
* **Output commits.**  Directory and ZIP, generation, analysis are renamed in
  one by one, by processes that fail, are killed and run beside each other.
  Correct: the old output or the new one, whole.

The line-by-line list of hazards is `PROJECT.json`, with the properties that
cover each.

## Modules

| Module | Models |
|---|---|
| `DirLock`, `DirLockProofs` | the lock, one file-system call or `kill -0` per action; its theorems |
| `Mutex` | what it promises: one command at a time, and the dead keep nobody out |
| `MountTransaction` | apply, detach, rollback, boot-complete's verification, recovery-on/off |
| `MountTransactionProofs` | the theorems about it |
| `PropertyController` | apply-stage, rollback-stage, rollback-all |
| `PropertyControllerProofs` | the theorems about it |
| `Lifecycle` | the boot scripts over both controllers at command grain, the boot guard, the recovery flag, both locks, across boots |
| `LifecycleProofs` | the theorems about it |
| `XmlEdit` | selectors, the five edits, the audit: operators on documents |
| `PropertyPlan` | snapshot, property plan, what the device accepts of it: operators |
| `Generator`, `GeneratorProofs` | a generation from catalog to output, several at once; its theorems |
| `Assembler`, `AssemblerProofs` | an assembly from its checks to the commit of directory and ZIP; its theorems |
| `PreflightEvidence` | classification of a device report: operators |
| `Preflight`, `PreflightProofs` | verification, classification and output of a report's analysis; its theorems |
| `Basics` | lemmas for the proof modules: names that make four (three) are different, induction over a set of numbers, running sums |
| `MC...` | instances for TLC |

`MountTransaction` and `PropertyController` let one command run at a time.
That is what `Mutex` says and what `DirLock` is checked to give outside the
windows named below.  `Lifecycle` has the locks again, as who is turned away is
its subject, and one step for what a command does under its lock; that step's
outcomes are those the two engine modules allow (done; failed with nothing left
or with something left that no pointer names, each with the flag or without).  `Assembler` reads what `Generator` and `Preflight` write;
the interface is the generation's manifest hash and the analysis, and what
those components do to the shared paths meanwhile are its `Regenerate` and
`Analyse`.

### DirLock

`lock` is the path: absent, a directory without owner file, or the process
whose token is in it.  `pc[p]` is the next call of a process.  `Mkdir`, `Stamp`,
`ReadOwner`, `RereadOwner` (after `sleep 1`), `Judge` and `Steal` are the loop of
`fl_acquire_lock`; `Finish`, `Release` and `Remove` the end of a command.  `Signal`
is the trap: the lock goes and the script goes on (`unlocked`), which to `Mutex` is
the end of its turn.  A token stands for
boot id, pid and time together; `Pid` gives two processes the same pid, in
different boots.  `alone` is a history variable for `AloneIsServed`.

`Races` opens the windows: `stamp` (a live owner takes longer than the one
second sleep between mkdir and the write of its token), `steal` (another process
takes the lock between a judgement and its mv), `pid` (a pid returns within one
boot).  With `Races = {}` the lock is a mutex; with `steal` it is not.

### MountTransaction

`stack[r]` is what is mounted on row r's target, above the partition; a layer
has an id, a content and a read-only flag.  A content is a plan (the generated
file of that plan), `Baseline`, or something of another mounter; comparing
contents is comparing hashes.  `Visible` is what an open of the target reaches.
The state files are the variables of their names, and `pc`, `row`, `pre`,
`created`, `clean` (`_failed` = 0) and `undo` the shell's variables.  One action
is one platform call or file update with the branches the code takes on it.
`rm -f active-journal commit` is two actions; so are a check and the umount it
guards.

Single steps: preflight of all rows, and verification of all rows.  Both only
read; splitting them would add readings of a mixture of states, which a mounter
acting in between can cause just as well right after the check.

The plan is replaced in a running system only between commands.  `Windows`
opens the check-to-use windows to other mounters: between bind and the read of
the new id, before the remount, before an umount.  Other mounters remove only
their own layers.  `tx-sequence` keeps its boot and number, the pid in a
transaction name is dropped (one command runs at a time, and the number is
unique in its boot).  Free mount ids are handed out again, as Linux does.
`lastError` keeps the kind of error, not the transaction's name.

`Rollback` has a branch of its own for a reversed journal that cannot be written
(transaction.sh:70): no row is tried, no flag is raised (`pc` "unreversed"), and the
caller goes on as after any rollback that failed.  Another mounter may mount any
content of `Others`, the stock bytes among them; `masked` is a history variable, the
rows on which such a layer has covered one of ours, which preflight's hash check cannot see through.

### PropertyController

`value[k]` is what a read of the property gives, its baseline being `Stock`
(an absent property is one of its values), a plan's value or another writer's.
A stage keeps `commit`, `active` and the rows of its newest journal: an active
journal is always the newest, because apply starts a new one only when no
pointer exists.  `bootVar` is the shell variable `_boot`: it is the caller's boot
id and also what `fl_prop_discard_previous_boot` reads the old commit into.
`stuck` is the property state's own recovery flag, which only the status bridge
reads.  `StartUndo` has the branch of a reversed journal that cannot be written
(property-transaction.sh:39), after which nothing is undone and `stuck` is not raised.
Sequence numbers and `reboot-required.flag` are left out.

### Lifecycle

The variables `flag`, `inProgress`, `failures`, `success`, `commits` and
`mountCommit` are the files of those names, holding a boot's number for its id;
`applied` and `mounted` are what is in effect.  `pc[s]` is the next call of the
script s.  A command is cut where another script or a crash changes its outcome:
the look at the flag before the lock, taking the lock, the work under it, and
every write of the guard.  Scripts start in KernelSU's order: post-fs-data (or
late-load, which runs the same command), post-mount and service one after another, and
boot-completed once service has started.  `Stamp` is the boot id that a stage's
commit gets, which is the earlier boot's when one was discarded.  `WriteFlag` is a
write of `recovery.flag`, whose result no caller looks at and which may fail as any other.
`incomplete`, `miscounts`, `overlap`, `leftovers`, `unflagged` (a recovery-on of this
boot could not write the flag) and `recoveryBoot` are history.

### XmlEdit, PropertyPlan, Generator

A document is a function from node numbers to parent, tag, attributes and the
words of its text; a word stands for a token, and the audit's regular
expressions for sets of words (`CredentialWords`, `CameraWords`), so matches that
span two tokens are not seen.  Whitespace, comments, declarations and quoting are
left out, and so are `children` in an `xml_add` value and malformed values.  Feature ids
and keys are numbers in alphabetical order.

`Generator` has one step for each target edited, for the audit, for the plan and
manifest, and for each call on the output path.  `backup[p]` is the directory
with the pid of p in its name; a process runs one generation, so no pid is
reused.  The failing replacement of the output and the test of backup and output that
follows it are two steps (`Install`, `Caught`).  A whole generation is named by its process; `Torn` is a directory some
of whose files are gone.  `rmtree(..., ignore_errors=True)` may stop half way.
`Interrupt` is Ctrl-C: not an `OSError`, so only the finally clause runs.
The snapshot is captured before the first generation, for any catalog and
selection.  The audit's finding on a generated file under a protected path (audit.py:259) is left out: the
documents have no paths, and it only refuses more.

### Assembler

A file's content stands for its hash.  `generated` is the generation in the
directory and the files in it that something else has altered; `Regenerate`,
`AlterFile`, `ProfileReads`/`ProfileWritten` (the profile builder, which reads the
manifest and hashes it later) and `Analyse` change the inputs between any two
reads of the assembly.  A step is one such read: hash of the manifest, parse of
the manifest, the comparison of all files (one step; it only reads), the copy
of each target, of the documents, the hash of the profile for the package's
manifest.  The rows of the package carry the hashes that were checked, so the
device's preflight finds a file that was exchanged; nothing does that for
`property-plan.tsv`.  The commit has one step for each call of
`commit_assembled_outputs` and its handler.

### Preflight and PreflightEvidence

An archive is a sequence of tar members, a sidecar a sequence of lines.  Reading
is one step a member.  A document is named by its content; `Table` gives the
rows of those that parse.  `ReplaceInput` changes either file between any two
reads.  The output exchange has one step a call; `torn` remembers that a removal
stopped half way.  `Earlier` is what it may start from: `before` keeps it, an earlier
analysis or none, or a backup that a killed process with the same pid left.  `Interrupt` is Ctrl-C
in the try or its handler, which only the finally clause sees; a second one in that
clause itself is a kill.

## Runs

Passing runs:

| Run | Instance | Shows |
|---|---|---|
| `mount_faults` | 2 rows, 3 ids, every call may fail except the write of recovery.flag, other mounters, recovery-on, a reboot, windows closed, fair | `LayersAccountedFor`: between commands a layer of ours belongs to the active journal or recovery mode is on, as long as no rollback stops before its first row; `RolledBackIsBaseline`: a reported rollback has removed every layer of ours; `ApplySparesForeign`; `FailureSettles`: a failed row ends in clean targets, in recovery mode or, when the rollback could not begin, in an error that says so; `TypeOK` |
| `mount_chaos` | 2 rows, 2 plans, 3 ids, every environment event, every window, other mounters who mount the stock bytes, five faults | `NoStacking`: later applies bind over no layer of ours that can be seen; `AppliedMeansInPlace`: the step that returns success finds each row of the plan now installed in place; `CommitDescribesJournal` |
| `property_faults` | 3 keys in 2 stages and an empty stage, every call may fail except the flags' writes, other writers, fair | `ChangesAccountedFor`: a value of ours is journalled in an active transaction or the property state's own flag is up, as long as no undo stops before its first row; `CleanUndoRestores`; `StageFailureLatches`; `TypeOK` |
| `property_chaos` | 2 keys, 2 plans, every environment event, five faults, windows closed | `OldValuesAreNotOurs`, `UndoSparesForeign` |
| `lock_safe` | 3 commands, one pid reused after a reboot, kills, signals, failing writes, fair, race windows closed | `MutualExclusion`, `AloneIsServed`, `EveryCommandEnds`, the refinement `ImplementsMutex`, `TypeOK` |
| `lifecycle` | 3 packages (rows in every stage, in two, no plan), 4 boots, a crash anywhere, 1 failing command or write, the flag's included, 1 recovery-off | `RecoverySuppresses`: a boot that begins with the flag sets and mounts nothing; `BootLoopStops`: after two boots that set out to mount and did not complete nothing is mounted; `SuccessfulBootIsWhole`: mounts and every stage, but perhaps the early one, unless a recovery-on could not write the flag; `RecoveryLeavesNothing`; `TypeOK` |
| `generator` | 2 documents with protected elements at several depths, every pair of 14 edits of one of them, 25 property plans, defective catalogs, a second generation, 2 failing calls, a kill or Ctrl-C | `ProtectedSurvive`: what passes the audit has every protected element where it was; `PlanRuns`: the device accepts every published plan; `FailureKeepsOutput`: of two generations none undoes the other's success; `OutputIsReported`: what is in the output reported success or was there before, and without a failing call it is not left empty; `PublishedSurvives`: no step destroys the last whole generation; `TypeOK` |
| `assembler` | 4 generations sharing files and baselines, 2 devices, 2 changes of the inputs, 2 failing calls, a kill | `MountedPayloadIsAudited`: files the device will mount are one audited generation's over its baselines; `QuietPackageIsOneGeneration`; `PairMatches`: directory and ZIP are both new or both old; `OldPairSurvives`; `TypeOK` |
| `preflight` | reports with one or two documents changed, and reports packed wrongly in one way each; 1 replacement, 2 failing calls, Ctrl-C or a kill, four states of output and backup to start from | `AcceptedIffWellFormed`: the verifier's loop against a definition of a good archive; `ReadyIsFit`: READY only for an archive whose own members say that it is the supported device in the required state; `FailureKeepsOutput`: after an error output and backup are what they were; `OldOutputSurvives`; `TypeOK` |

Runs that show the code against what its documents and tests say:

| Run | What happens |
|---|---|
| `property_restore` | Discarding the earlier boot's commit overwrites `_boot`, so from the second boot on the stage's commit carries the first boot's id; rollback-all, through all three stages, drops this boot's pointers, restores nothing there and reports success.  For the same reason repeating the stage in that boot enters recovery. |
| `lifecycle_noplan` | A package without `property-plan.tsv`, which the documents call optional and the generator leaves out when no property is selected: apply-stage fails its preflight at post-fs-data and raises the flag, so the first boot is a recovery boot. |
| `lifecycle_overlap` | service.sh and boot-completed.sh meet at `property.lock`: the one turned away is turned away from rollback-all as well, then raises the flag; the other applies and commits.  Properties stay in effect with recovery mode on. |

### What does not hold

These follow from the models and have no run of their own.  The first seven
are definitions of the modules; naming one as INVARIANT or PROPERTY in a .cfg with
the constants given shows its counterexample.

* `DirLock`, `Races = {"steal"}`: `LiveLockNotStolen`.  Two takeovers of one stale
  lock; the slower takes the lock a third command has just stamped.
* `DirLock`, `signal` in `Env`: `OneTransaction`.  A signalled transaction goes on
  without its lock, beside the next.
* `MountTransaction`, `commit` and `reverse` failing: `IncompleteRollbackFlags`.  The
  commit cannot be written and then the reversed journal cannot either
  (transaction.sh:70): no layer is unmounted, `recovery.flag` is not raised and both
  pointers are removed, where docs/TRANSACTIONAL_RUNTIME.md:41 says "An incomplete
  rollback writes `recovery.flag`."
* `PropertyController`, `commit` and `reverse` failing: `FailedApplyFlags`.  The same in
  a property stage (property-transaction.sh:39): its values stay, with no pointer and
  neither flag raised, where docs/STAGED_PROPERTIES.md:59 says "Any preflight or apply
  failure writes the shared runtime recovery flag."
* `MountTransaction`, 3 ids, `umount` failing: `DetachSparesForeign`.  A rollback fails
  on one row; a later detach works through the same journal, whose other row's
  id now belongs to another module, and unmounts that module's layer.
* `MountTransaction`: `DetachedMeansGone`.  Apply fails, its rollback fails, no pointer
  is written; detach (and uninstall) then succeeds with our layer mounted.
* `MountTransaction`, `reboot` in `Env`: `StalePointersHarmless`.  A reboot between the
  writes of `active-journal` and `commit` puts the next boot in recovery mode
  though nothing is mounted.
* A recovery-on while an apply is past its check does not keep the apply from
  committing: `recovery.flag` is read once and written without the lock.
* A property stage that cannot write its pointers undoes its rows and fails
  without writing the runtime's recovery flag, also when the undo succeeds; an incomplete property rollback
  raises only the property state's own flag, which apply-stage does not read.
* `NoStacking` for every row: a foreign layer with the stock bytes over an unrecorded
  layer of ours passes preflight's hash check, and apply binds again (`masked`).
* A recovery-on whose write of the flag fails detaches nevertheless: where
  service.sh and boot-completed.sh overlap, the boot may then be recorded as successful with
  mounts and properties gone and the flag down (`unflagged` in `SuccessfulBootIsWhole`).
* A failing early stage raises no flag in some paths and its wrapper does
  nothing about it, so the boot can be recorded as successful without it: the
  exception in `SuccessfulBootIsWhole`.
* Boots that die before post-mount are not counted (the marker is written
  there), and the boot in which the guard stops has applied its early
  properties already.  A lost write of `boot-failures` allows one boot more
  (`miscounts`); a crash between the two unlinks of the guard's end makes the next
  count one too high.
* Generator: `ProtectedSurvive` needs its hypothesis that the edits write no protected
  words.  The audit compares bags, so a protected element may be removed if an
  equal one is added elsewhere.  A removed permission is noticed only in files
  whose name says permissions.  After Ctrl-C between the renames the old output
  is only in the backup.  A process with the pid of one that was killed there
  deletes that backup (generator.py:207).
* Three generations on one output: p1 moves the old output to its backup, p2 installs and
  reports success, p1's replacement fails, p3 moves p2's output away, p1 restores the old one, p3 fails
  and its finally clause removes p2's.  No call fails but for the path being taken.
* One value of more than 91 bytes anywhere in a getprop dump makes the capture of
  any snapshot fail.
* Assembler: a profile leaves out unset optional properties while an analysis
  names all, so a READY device with an optional property unset is refused.  A
  generation exchanged between the checks and the copy of the documents puts
  another generation's plan in the package, which nothing notices.  Ctrl-C in
  the commit leaves old outputs in backups that only the same pid would remove.
* Preflight: a backup that `rmtree` removed only in part is taken for whole by
  the handler, which removes the new output and puts the torn one in its place; a
  new output that could not be removed keeps the backup from its place, and the
  finally clause then drops it (both are `torn`).  Layers of modules
  listed as inactive block as well, where docs/PRIVATE_PREFLIGHT_ANALYSIS.md:49
  speaks of active and unlisted ones.  `PROTECTED_ROOTS` lacks six of the roots the
  assembler may place files under (`my_engineering`, `my_heytap`, `my_stock`,
  `my_preload`, `my_manifest`, `my_bigball`).

### Bounds

Two rows are the least with an order, a first row that succeeds and a second
that fails; the row loop has no memory of earlier rows but the journal.  Three
mount ids let two rows and one foreign layer coexist and an id come back.  Two
boots give every file a stale version, and two transactions a boot one after
another.  Three commands are needed for the lock: one dead owner and two that
take over.  `MaxAttempts` is the code's.  `MaxForeign`, `MaxTx` and `MaxBoot`
occur only in guards of `ForeignMount`, `ApplyBegin` and `Reboot`.  Ids and plans
are permuted in `mount_chaos`: no definition tells one from another.  That run
also takes states that differ in `lastError` alone as one (`Unexplained`): no guard
reads it, and the run's properties do not speak of it.  The lock run does not
check deadlock: each command takes the lock once and ends.

In `lifecycle` four boots are two that fail, the one the guard must stop, and
one after it; one failing command is enough for a commit to be missing or
something to be left, and each boot may crash at any step besides.  In `generator`
two edits of one document can depend on each other (one adds or renames what the
other selects), two failing calls let an exchange fail and its restoration too,
and the second generation needs no variety: it competes for the path; what three can do to each other is above and
in the theorem `OutputReported`.  In
`assembler` two changes exchange a generation and bring it back, or change two
inputs.  In `preflight` the limits are set to be met exactly and passed by one.
These runs do not check deadlock: a generation, an assembly, an analysis and the
last boot end.  `MaxBoots`, `MaxFaults`, `MaxRecoveryOff` and `MaxChanges` occur only in the
guards of the failing calls and of the environment.

### Fairness

The specifications of `mount_faults`, `property_faults` and `lock_safe` are
`FairSpec`.  In the first two it is weak fairness of `CommandStep`: a shell that
is running is scheduled, no command is obliged to start and other actors never
have to act.  No kill is in those runs, as a killed command finishes nothing.
`DirLock` assumes it of each process's calls and of nothing else: the waits
of the lock are one `sleep` and a loop of three, and a killed process counts as
ended.

## Proofs

TLC checks one small instance; the theorems hold for every value of the
constants that their module's assumptions allow, and those assumptions say what
the code says: a generated file is not the file it replaces, directory contents
have different names, a plan has one row for each key, and so on.  Where a
theorem assumes more, an `ASSUME` in its statement says so, and this section
says why.

| Module | Theorems (property) |
|---|---|
| `MountTransactionProofs` | `TypeCorrect`, `NeverStacked` (`NoStacking`), `AppliedInPlace` (`AppliedMeansInPlace`), `CommitMatchesJournal` (`CommitDescribesJournal`); with windows closed `ApplySpares` (`ApplySparesForeign`); with those two windows closed that matter and a flag that can be trusted `RolledBack` (`RolledBackIsBaseline`) and, without kills and with a reversed journal that can be written, `LayersAccounted` (`LayersAccountedFor`) |
| `DirLockProofs` | `TypeCorrect`, `NothingLeftBehind` (`EndedLeavesNoLock`, which no run checks); with the race windows closed `Exclusive` (`MutualExclusion`) and `Refinement` (`ImplementsMutex`); with the pid window closed `Served` (`AloneIsServed`) |
| `PropertyControllerProofs` | `TypeCorrect`, `OldValuesForeign` (`OldValuesAreNotOurs`), `CleanUndo` (`CleanUndoRestores`); with its window closed `UndoSpares` (`UndoSparesForeign`); without kills and reboots, and with a reversed journal and a flag that can be written, `Accounts` (`ChangesAccountedFor`) |
| `LifecycleProofs` | `TypeCorrect`, `RecoveryIsQuiet` (`RecoverySuppresses`), `GuardStops` (`BootLoopStops`), `SuccessIsWhole` (`SuccessfulBootIsWhole`), `RecoveryClears` (`RecoveryLeavesNothing`) |
| `GeneratorProofs` | `TypeCorrect`, `PublishedStays` (`PublishedSurvives`), `OutputReported` (`OutputIsReported`), `TwoKeepOutput` (`FailureKeepsOutput`), `PlansRun` (`PlanRuns`), `AuditedBeforePublished` (`PublishedAudited`, which no run checks) |
| `AssemblerProofs` | `TypeCorrect`, `PairsMatch` (`PairMatches`), `PayloadAudited` (`MountedPayloadIsAudited`), `QuietIsOneGeneration` (`QuietPackageIsOneGeneration`), `OldSurvives` (`OldPairSurvives`) |
| `PreflightProofs` | `TypeCorrect`, `FailureRestores` (`FailureKeepsOutput`), `ReadyMeansFit` (`ReadyIsFit`), `AcceptedWellFormed` (`AcceptedIffWellFormed`), `OldSurvives` (`OldOutputSurvives`) |

Each module has an inductive invariant (`IInv`; `Inv` with `Exclusion` or
`Solitude` in `DirLockProofs`), lemmas that it holds at the start and that every
step keeps it, one step of the proof for each action or group of actions, and
theorems that follow from it.  An action property is proved of each step from a
state of the invariant.

### Mount engine

None of the properties is inductive.  Why no second layer is bound: `Bind` pushes
onto the target of `row`, and what says that no layer of ours is there is
preflight's hash check, made for all rows at once before the loop.  `RowsAhead`
carries it through the loop (the rows not yet reached hold no layer of ours,
since other mounters bring none), `masked` rows apart, where that check saw a foreign layer, `RowsBehind` says what the rows done hold
(the journalled id, plan and, once remounted, the read-only flag), and
`JournalProgress` ties `pc` and `row` to the length of the journal.
`PlanHeld` says that the plan does not change under a command, which is why the
hash taken at commit time is that of the rows mounted.  `PointersKnown` keeps a
commit from outliving its journal: the pointers are both gone when a transaction
allocates its number.  `IInv` is the conjunction of these with the properties.

That no call removes another's layer, and that a rollback finds all of ours,
is about ids, and `Known` adds what the code knows of them: the layers of a
target have different ids, the id taken for the new layer's is the new layer's,
the layer the next call unmounts is ours, and the rows that a rollback has still
to reach hold the layers the journal names.  `Tracked` adds what follows a
failure: a command that is about to return has no layer of ours left, has the
flag up, or has an active journal that names them.

`ApplySpares` needs all windows closed.  The other two need less: `Closed` shuts two, `identify` and `umount`.  A layer that
somebody mounts between our bind and the read of the new id is taken for ours:
the journal then names theirs, the rollback removes theirs and reports success,
and ours stays, in no journal.  The window before an umount has the same effect
in one call.  `Latched` is a `recovery.flag` that can be written and that nobody
lowers, and `LayersAccounted` has no kill (`Orderly`) and speaks of behaviours in which no
rollback stops before its first row:
after a failed rollback the flag is the only thing that tells of what is left, a killed command
leaves its layers with no pointer, and a rollback that cannot begin leaves them with
neither, which is `IncompleteRollbackFlags`.  Each of these conditions is needed: TLC finds a counterexample when one of
them is dropped.  Reboots, replaced plans, recovery-on and other
mounters are not restricted otherwise.

### Directory lock

`Tokens` is what holds in every window: a token in the lock is that of a command
that holds it or was killed, and whoever runs was started in this boot.
`Exclusion` is the argument for the mutex, with only the `pid` window open: a holder's token is in the lock; a
command about to stamp finds its own unstamped directory; and a command between its judgement
and its mv finds the lock it judged, or none, because nobody else can be about to
stamp.  The last is what the `stamp` and `steal` windows break.  `Refinement` maps
a command's calls to the phases of `Mutex` and shows each step to be one of its steps or a
stutter.  `Solitude` follows a command that no live one
meets through its attempts: the first may have to take over a stale lock, and the
second finds none.  A returned pid makes a stale lock look live, hence its
assumption.

### Property controller

`Journalled` ties the journal to the plan's rows and to `row`, so that a row is
journalled before it is set and the journal's keys are the stage's first.
`Ahead` says that rows not yet applied hold no value of ours, which is why the
values journalled as old are never ours; `Behind` says that an undo without a refusal
leaves values of ours only in the rows it has still to reach.  For `Accounts` each call
has a statement of where values of ours may be (`Tracked`).  Its assumption
`Undisturbed` excludes a kill, after which the journal of an unfinished apply has no
pointer, a reboot, because of the boot id that `property_restore` is about, and flags that cannot be written; an undo that
cannot begin, which `FailedApplyFlags` is about, is excluded by the property itself (TLC
shows each to be needed).
The flag that takes part is the property state's own, which no command lowers, so it does not
matter that the runtime's is.

### Lifecycle

Nothing is assumed but the assumption on the constants: any number of boots, of
failures, lost writes of the flag and recovery-off commands, any property plan.  `TypeCorrect`
includes that a lock is held by exactly the command that works under it.
The inductive invariant adds two things.  `RecoveryHeld`: in a boot that began
with the flag no script is past its look at the flag, so none can still apply;
the property alone would allow a script that looked earlier.  `FailuresCounted`:
the boots in a row that did not complete are at most the content of
`boot-failures`, plus the writes that were lost, plus one for a marker of an
earlier boot that the guard has not counted yet (`Uncounted`); the same of the
guard's local count until it is compared with the limit, and what was let
through is below the limit.  Between `ResetFailures` and the unlink before it
nothing is incomplete, which is why a crash there does no harm.

What the scripts of one boot know of each other is `OneBoot`, a second layer on top.
`Ordered` is KernelSU's order.  `Named` says that what is in effect has a commit or was
reported as left behind, which makes rollback-all and detach complete.
`Working` is about boots in which the flag is down: a script that failed is then
on its way to raise it, and while none is about to, each script that has ended
has done its work, and a boot on its way to be recorded keeps its mounts.  `Clearing`
is about boot-completed.sh running alone: it looks at the flag when nobody else can
raise it any more, so either the flag stays down or it undoes everything.  Where a recovery-on
could not write the flag, `unflagged` says so, and only that boot's success is excepted.  With an overlap the
look comes too early, which is the counterexample of `lifecycle_overlap`.

### Generator, assembler, preflight

All three end in an exchange of an output, and the theorems about it hold for any number
of failing calls, stops and, in `Generator`, of processes that exchange the same
path.

`Generator`: `Safe` says that a whole generation is somewhere nobody is about to
remove it.  `PublishedSurvives` alone would allow two processes that each hold a
backup and rely on the other's.  `Reports` and `Faultless` follow who has put its
output in place and reported it.  `Two` is what two processes know of each other
at each pair of their calls; with three a success can be undone without a failing call
(see above), so the property is about two.

The plan is a layer of its own (`PInv`): the snapshot says what the device has
(`Captured`), and each plan is one the device accepts from the moment it is built
(`Planned`).  What that rests on is `PlanRows`: the plan is the operations by their
rank, and it has one row for each operation, in order.  A rank is the number of
operations that come before; that each rank below the number of rows is taken once
(`Ranks`) is because stage, feature and key order operations with
different keys completely (`PrecedesOrders`), which is what `CanPlan` has checked.
The proof assumes of the catalogs (`CatalogAssumption`) that they are finite and that ids
and keys compare like numbers.  `Audited` carries the outcome of
the audit from the staging directory to the report.

`Assembler`: `Exchange` and `Undoing` give the place of each old and new output at each call of
the commit and of its handler.  `Contents` relates the package to the manifest
that was parsed, whatever has become of the inputs; `Unchanged` relates both to
the inputs as long as no input has changed.

`Preflight`: `Progress` keeps the verdict that of the documents that were read, and
`Evidence` keeps those documents members of the archive, so that what the rules compare is what
the archive says.  `Exchange` and `Failures` relate output and backup to `before` and count: a
handler runs because one call failed, so what it could not restore is a second failure.  The verification has `RInv`.  `Scanned` is
what the loop over the members knows of those it has passed: their names and paths differ,
`files` has their contents, `total` is the sum of their sizes.  A member that is refused
is one that no well-formed archive has (`RefusedMember`; a sum that passes the limit half
way passes it in the end, `BytesGrow`), and after the last one the manifest check is
the rest of the definition (`Accepts`): `RowsMatch` shows by counting that rows with
different paths which give for each file its digest are as many as the files and the
same set, and the converse.  `Vouched` says what has been compared with the two files,
as long as neither has been replaced.

### Only model-checked

* Liveness: `FailureSettles`, `StageFailureLatches`, `EveryCommandEnds`.  The prover
  has no fairness.
* `ProtectedSurvive`.  `AuditedBeforePublished` is half of it: what is published has passed the
  audit.  The other half is about the audit alone: documents whose protected elements have the same
  serializations, counted, have the same elements in the same places.  That is an
  argument by the size of trees, over a fold of edits and a recursion that sorts the
  children of each element; the prover cannot look into folds and sorts, and its induction is
  limited to sets of numbers (`SetInduction`).

## Not modelled, and the plan

Left out for good:

* `scripts/webui/status.sh` and the page: they read state files without a lock and
  print them; what they print can mix two moments, and changes nothing.
* `tools/device/collect-preflight.sh`: gathers command output on the device.  Its
  archive and sidecar are the inputs of `Preflight`, in any combination.
* `uninstall.sh`: runs rollback-all and detach and ignores both results; what
  these leave is in `PropertyController` and `MountTransaction`.
* `cli.py`, the repository audit and the media tools: argument parsing and
  validators that read files once and keep no state.
* File formats, hashing, base64, JSON and HTML rendering, the syntax of names and
  paths, the bytes of the ZIP.
* Two assemblies or two analyses on one output at once.  Unlike the generator,
  whose callers may run side by side, the assembler's handler would put an old
  ZIP back over a newer one; nothing in the repository runs two.

Every safety property that the passing runs check is proved, except `ProtectedSurvive`.
