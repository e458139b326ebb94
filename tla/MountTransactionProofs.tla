----------------------- MODULE MountTransactionProofs -----------------------
(***************************************************************************)
(* Proofs about MountTransaction, for every number of rows, set of plans,  *)
(* of mount ids, of faults, of events around the command and of windows.   *)
(* What holds only when nobody mounts between two calls of a command, or   *)
(* while the recovery flag can be trusted, says so in its ASSUME.          *)
(***************************************************************************)
EXTENDS MountTransaction, SequenceTheorems, TLAPS

\* The row loop of fl_apply_plan.
Looping == {"bind", "identify", "record", "disown", "disown-umount", "remount", "check"}

\* The row loop and what follows it on success.
Mounting == Looping \cup {"publish", "commit"}

\* A running command has not returned, and fl_detach_active runs for a detach.
RunningHasNoResult ==
    /\ pc # "idle" => rc = "none"
    /\ pc = "detach" => op = "detach"

\* How far the journal and the locals have got at each call.
JournalProgress ==
    /\ Len(journal.rows) <= NRows
    /\ pc = "preflight" => journal.rows = <<>>
    /\ pc \in Looping => row \in Rows /\ pre \in [Rows -> Ids \cup {BaseId}]
    /\ pc \in {"bind", "identify", "record", "disown", "disown-umount"} =>
          Len(journal.rows) = row - 1
    /\ pc \in {"remount", "check"} =>
          Len(journal.rows) = row /\ journal.rows[row].created = created
    /\ pc \in {"record", "disown", "disown-umount"} => created \in Ids
    /\ pc \in {"publish", "commit"} => Len(journal.rows) = NRows
    /\ pc = "rollback" => row <= Len(journal.rows)
    /\ pc \in {"umount", "restored"} => row \in 1..Len(journal.rows)

\* The plan cannot change under a transaction.
PlanHeld == pc \in Mounting => journal.plan = plan

\* What is known of the pointers while a transaction is being built.
PointersKnown ==
    /\ pc \in {"allocate", "preflight", "publish"} \cup Looping =>
          commit = NoCommit /\ activeJournal = NoTx
    /\ pc = "commit" => commit = NoCommit /\ activeJournal = journal.tx
    /\ pc \in {"unlink-commit", "unlink-orphan"} => activeJournal = NoTx

\* No layer of ours is on row r while the loop has not bound it.
Ahead(r) ==
    /\ pc \in Looping /\ r > row => ~HasOwned(r)
    /\ pc = "bind" /\ r = row => ~HasOwned(r)

\* Preflight saw the rows that nobody masks bare; the row the loop has bound is not.
RowsAhead ==
    /\ \A r \in Rows \ masked : Ahead(r)
    /\ pc \in Looping \ {"bind"} => HasOwned(row)

\* At most one layer of ours is on row r.
Single(r) ==
    \A i, j \in DOMAIN stack[r] : Owned(stack[r][i]) /\ Owned(stack[r][j]) => i = j

\* On the rows that nobody masks the unmodified file never covers a layer of ours.
Uncovered ==
    \A r \in Rows \ masked : \A i, j \in DOMAIN stack[r] :
        Owned(stack[r][i]) /\ stack[r][j].content = Baseline => j < i

\* Every row the loop has passed is in place.
RowsBehind ==
    pc \in Mounting =>
        \A r \in Rows : r < row \/ pc \in {"publish", "commit"} => InPlace(r)

IInv ==
    /\ TypeOK
    /\ RunningHasNoResult
    /\ JournalProgress
    /\ PlanHeld
    /\ PointersKnown
    /\ CommitDescribesJournal
    /\ NoStacking
    /\ Uncovered
    /\ RowsAhead
    /\ RowsBehind

-----------------------------------------------------------------------------
\* Mount stacks

\* Removing the top layer leaves the others where they are.
LEMMA FrontFacts ==
    ASSUME NEW S, NEW s \in Seq(S), s # <<>>
    PROVE  /\ Front(s) \in Seq(S)
           /\ Len(Front(s)) = Len(s) - 1
           /\ Len(s) \in Nat \ {0}
           /\ \A i \in 1..(Len(s) - 1) : Front(s)[i] = s[i]
<1>1. Len(s) \in Nat \ {0} /\ \A i \in 1..Len(s) : s[i] \in S
  BY EmptySeq, LenProperties
<1> DEFINE n == Len(s) - 1
<1>2. n \in Int /\ \A i \in 1..n : s[i] \in S
  BY <1>1
<1>3. /\ SubSeq(s, 1, n) \in Seq(S)
      /\ Len(SubSeq(s, 1, n)) = IF 1 <= n THEN n - 1 + 1 ELSE 0
      /\ \A i \in 1..(n - 1 + 1) : SubSeq(s, 1, n)[i] = s[1 + i - 1]
  <2> HIDE DEF n
  <2> QED BY <1>2, SubSeqProperties
<1>4. \A i \in 1..n : SubSeq(s, 1, n)[i] = s[i]
  BY <1>1, <1>3
<1>5. Front(s) = SubSeq(s, 1, n)
  BY DEF Front
<1>6. Len(SubSeq(s, 1, n)) = n
  <2>1. n \in Nat
    BY <1>1
  <2> HIDE DEF n
  <2>2. CASE 1 <= n
    BY <1>3, <2>1, <2>2
  <2>3. CASE n = 0
    BY <1>3, <2>3
  <2> QED BY <2>1, <2>2, <2>3
<1> QED
  BY <1>1, <1>3, <1>4, <1>5, <1>6

\* Push(r, layer) adds one layer on top of row r and touches nothing else.
LEMMA PushFacts ==
    ASSUME stack \in Stacks, NEW r \in Rows, NEW layer \in Layer, Push(r, layer)
    PROVE  /\ stack' \in Stacks
           /\ \A q \in Rows \ {r} : stack'[q] = stack[q]
           /\ Len(stack[r]) \in Nat
           /\ DOMAIN stack[r] = 1..Len(stack[r])
           /\ DOMAIN stack'[r] = 1..(Len(stack[r]) + 1)
           /\ \A i \in 1..Len(stack[r]) : stack'[r][i] = stack[r][i]
           /\ stack'[r][Len(stack[r]) + 1] = layer
BY LenProperties DEF Push, Stacks

\* Pop(r) removes the top layer of row r and touches nothing else.
LEMMA PopFacts ==
    ASSUME stack \in Stacks, NEW r \in Rows, Pop(r)
    PROVE  /\ stack' \in Stacks
           /\ \A q \in Rows \ {r} : stack'[q] = stack[q]
           /\ Len(stack[r]) \in Nat \ {0}
           /\ DOMAIN stack[r] = 1..Len(stack[r])
           /\ DOMAIN stack'[r] = 1..(Len(stack[r]) - 1)
           /\ \A i \in 1..(Len(stack[r]) - 1) : stack'[r][i] = stack[r][i]
<1>1. stack[r] # <<>> /\ stack'[r] = Front(stack[r]) /\ stack' = [stack EXCEPT ![r] = Front(@)]
  BY DEF Pop, Stacks
<1>2. /\ Front(stack[r]) \in Seq(Layer)
      /\ Len(Front(stack[r])) = Len(stack[r]) - 1
      /\ Len(stack[r]) \in Nat \ {0}
      /\ \A i \in 1..(Len(stack[r]) - 1) : Front(stack[r])[i] = stack[r][i]
  BY <1>1, FrontFacts DEF Stacks
<1>3. /\ DOMAIN stack[r] = 1..Len(stack[r])
      /\ DOMAIN Front(stack[r]) = 1..Len(Front(stack[r]))
  BY <1>2, LenProperties DEF Stacks
<1> QED
  BY <1>1, <1>2, <1>3 DEF Stacks

\* Row r has the same layers of ours, at the same places, after the step.
SameOwned(r) ==
    /\ \A i \in DOMAIN stack[r] :
          Owned(stack[r][i]) => i \in DOMAIN stack'[r] /\ stack'[r][i] = stack[r][i]
    /\ \A i \in DOMAIN stack'[r] :
          Owned(stack'[r][i]) => i \in DOMAIN stack[r] /\ stack[r][i] = stack'[r][i]

\* What other mounters do leaves our layers alone.
LEMMA ForeignSparesOwned ==
    ASSUME TypeOK, ForeignMount \/ ForeignUmount
    PROVE  stack' \in Stacks /\ \A r \in Rows : SameOwned(r)
<1>1. CASE ForeignMount
  <2>1. PICK r \in Rows, id \in Ids, content \in Others, ro \in BOOLEAN :
            Push(r, [id |-> id, content |-> content, ro |-> ro])
    BY <1>1 DEF ForeignMount
  <2> DEFINE layer == [id |-> id, content |-> content, ro |-> ro]
  <2>2. layer \in Layer /\ ~Owned(layer)
    BY ContentAssumption DEF Layer, Contents, Owned
  <2>3. /\ stack' \in Stacks
        /\ \A q \in Rows \ {r} : stack'[q] = stack[q]
        /\ Len(stack[r]) \in Nat
        /\ DOMAIN stack[r] = 1..Len(stack[r])
        /\ DOMAIN stack'[r] = 1..(Len(stack[r]) + 1)
        /\ \A i \in 1..Len(stack[r]) : stack'[r][i] = stack[r][i]
        /\ stack'[r][Len(stack[r]) + 1] = layer
    BY <2>1, <2>2, PushFacts DEF TypeOK, KernelOK
  <2>4. SameOwned(r)
    BY <2>2, <2>3 DEF SameOwned
  <2>5. \A q \in Rows \ {r} : SameOwned(q)
    BY <2>3 DEF SameOwned
  <2> QED BY <2>3, <2>4, <2>5
<1>2. CASE ForeignUmount
  <2>1. PICK r \in Rows : ~Owned(Visible(r)) /\ Pop(r)
    BY <1>2 DEF ForeignUmount
  <2>2. /\ stack' \in Stacks
        /\ \A q \in Rows \ {r} : stack'[q] = stack[q]
        /\ Len(stack[r]) \in Nat \ {0}
        /\ DOMAIN stack[r] = 1..Len(stack[r])
        /\ DOMAIN stack'[r] = 1..(Len(stack[r]) - 1)
        /\ \A i \in 1..(Len(stack[r]) - 1) : stack'[r][i] = stack[r][i]
    BY <2>1, PopFacts DEF TypeOK, KernelOK
  <2>3. ~Owned(stack[r][Len(stack[r])])
    BY <2>1 DEF Visible, Last, Pop
  <2>4. SameOwned(r)
    BY <2>2, <2>3 DEF SameOwned
  <2>5. \A q \in Rows \ {r} : SameOwned(q)
    BY <2>2 DEF SameOwned
  <2> QED BY <2>2, <2>4, <2>5
<1> QED BY <1>1, <1>2

-----------------------------------------------------------------------------
\* Which actions change what

\* The actions that change the kernel or the installed plan.
LEMMA KernelChange ==
    ASSUME [Next]_vars
    PROVE  UNCHANGED <<boot, stack, plan, masked>> \/ Bind \/ DisownUmount \/
           Remount \/ RollbackUmount \/ ForeignMount \/ ForeignUmount \/
           Reboot \/ Replan
<1>1. ASSUME ApplyPointersClear \/ ApplyAlreadyActive \/ ApplyInconsistent \/
             Allocate \/ Preflight \/ PreflightFails \/ Identify \/
             IdentifyFails \/ Record \/ Disown \/ DisownRefused \/ Check
      PROVE  UNCHANGED <<boot, stack, plan, masked>>
  BY <1>1 DEF ApplyPointersClear, ApplyAlreadyActive, ApplyInconsistent,
    Allocate, Preflight, PreflightFails, Identify, IdentifyFails, Record,
    Disown, DisownRefused, Check, kernel
<1>2. ASSUME CheckFails \/ Publish \/ Commit \/ RollbackCheck \/
             RollbackRowFails \/ RollbackVerify \/ ApplyFails \/
             ApplyUnpublished \/ DetachRolledBack \/ UnlinkActive \/
             UnlinkCommit \/ DetachNothing \/ DetachRefused
      PROVE  UNCHANGED <<boot, stack, plan, masked>>
  BY <1>2 DEF CheckFails, Publish, Commit, RollbackCheck, RollbackRowFails,
    RollbackVerify, ApplyFails, ApplyUnpublished, DetachRolledBack,
    UnlinkActive, UnlinkCommit, DetachNothing, DetachRefused, kernel
<1>3. ASSUME DetachStale \/ DetachOrphanCommit \/ DetachActive \/
             ApplyRefused \/ ApplyBegin \/ DetachBegin \/ BootComplete \/
             RecoveryOn \/ RecoveryOff \/ Kill
      PROVE  UNCHANGED <<boot, stack, plan, masked>>
  BY <1>3 DEF DetachStale, DetachOrphanCommit, DetachActive, ApplyRefused,
    ApplyBegin, DetachBegin, BootComplete, RecoveryOn, RecoveryOff, Kill,
    kernel
<1>4. CASE UNCHANGED vars
  BY <1>4 DEF vars
<1> QED BY <1>1, <1>2, <1>3, <1>4
  DEF Next, CommandStep, ApplyStep, RollbackStep, DetachStep, Command, Environment

\* The actions that change the files of state/runtime, recovery.flag aside.
LEMMA FilesChange ==
    ASSUME [Next]_vars
    PROVE  UNCHANGED <<commit, activeJournal, journal, txSequence, lastError>> \/
           Allocate \/ Preflight \/ PreflightFails \/ Record \/ Publish \/
           Commit \/ ApplyFails \/ UnlinkActive \/ UnlinkCommit \/
           BootComplete
<1>1. ASSUME ApplyPointersClear \/ ApplyAlreadyActive \/ ApplyInconsistent \/
             Bind \/ Identify \/ IdentifyFails \/ Disown \/ DisownRefused \/
             DisownUmount \/ Remount \/ Check \/ CheckFails
      PROVE  UNCHANGED <<commit, activeJournal, journal, txSequence, lastError>>
  BY <1>1 DEF ApplyPointersClear, ApplyAlreadyActive, ApplyInconsistent, Bind,
    Identify, IdentifyFails, Disown, DisownRefused, DisownUmount, Remount,
    Check, CheckFails, files, pointers
<1>2. ASSUME RollbackCheck \/ RollbackRowFails \/ RollbackUmount \/
             RollbackVerify \/ ApplyUnpublished \/ DetachRolledBack \/
             DetachNothing \/ DetachRefused \/ DetachStale \/ DetachOrphanCommit \/
             DetachActive \/ ApplyRefused \/ ApplyBegin
      PROVE  UNCHANGED <<commit, activeJournal, journal, txSequence, lastError>>
  BY <1>2 DEF RollbackCheck, RollbackRowFails, RollbackUmount, RollbackVerify,
    ApplyUnpublished, DetachRolledBack, DetachNothing, DetachRefused, DetachStale,
    DetachOrphanCommit, DetachActive, ApplyRefused, ApplyBegin, files,
    pointers
<1>3. ASSUME DetachBegin \/ RecoveryOn \/ RecoveryOff \/ ForeignMount \/
             ForeignUmount \/ Kill \/ Reboot \/ Replan
      PROVE  UNCHANGED <<commit, activeJournal, journal, txSequence, lastError>>
  BY <1>3 DEF DetachBegin, RecoveryOn, RecoveryOff, ForeignMount,
    ForeignUmount, Kill, Reboot, Replan, files, pointers
<1>4. CASE UNCHANGED vars
  BY <1>4 DEF vars
<1> QED BY <1>1, <1>2, <1>3, <1>4
  DEF Next, CommandStep, ApplyStep, RollbackStep, DetachStep, Command, Environment

-----------------------------------------------------------------------------
\* Types

\* A step keeps the kernel's part of TypeOK.
LEMMA KernelStep ==
    ASSUME IInv, KernelOK, [Next]_vars
    PROVE  KernelOK'
<1>1. ASSUME NEW r \in Rows, Pop(r)
      PROVE  stack' \in Stacks
  BY <1>1, PopFacts DEF KernelOK
<1>2. ASSUME pc \in Looping
      PROVE  row \in Rows
  BY <1>2 DEF IInv, JournalProgress
<1>3. CASE Bind
  <2>1. row \in Rows /\ journal.plan = plan /\ plan \in Plans
    BY <1>2, <1>3 DEF Bind, IInv, PlanHeld, Looping, Mounting, KernelOK
  <2>2. ASSUME NEW id \in Ids,
               Push(row, [id |-> id, content |-> journal.plan, ro |-> FALSE])
        PROVE  stack' \in Stacks
    <3>1. [id |-> id, content |-> journal.plan, ro |-> FALSE] \in Layer
      BY <2>1 DEF Layer, Contents
    <3> QED BY <2>1, <2>2, <3>1, PushFacts DEF KernelOK
  <2>3. stack' \in Stacks
    BY <1>3, <2>2 DEF Bind, KernelOK
  <2> QED BY <1>3, <2>3 DEF Bind, KernelOK
<1>4. CASE DisownUmount
  <2>1. row \in Rows
    BY <1>2, <1>4 DEF DisownUmount, Looping
  <2> QED BY <1>1, <1>4, <2>1 DEF DisownUmount, KernelOK
<1>5. CASE Remount
  <2>1. row \in Rows /\ HasOwned(row)
    BY <1>2, <1>5 DEF Remount, IInv, RowsAhead, Looping
  <2>2. stack[row] \in Seq(Layer) /\ stack[row] # <<>>
    BY <2>1, EmptySeq DEF HasOwned, KernelOK, Stacks
  <2> DEFINE n == Len(stack[row])
  <2>3. n \in 1..Len(stack[row]) /\ stack[row][n] \in Layer
    BY <2>2, EmptySeq, LenProperties
  <2>4. [stack[row][n] EXCEPT !.ro = TRUE] \in Layer
    BY <2>3 DEF Layer
  <2>5. [stack[row] EXCEPT ![n] = [stack[row][n] EXCEPT !.ro = TRUE]] \in Seq(Layer)
    <3> HIDE DEF n
    <3> QED BY <2>2, <2>3, <2>4, ExceptSeq
  <2>6. \/ UNCHANGED stack
        \/ stack' = [stack EXCEPT ![row] =
                        [stack[row] EXCEPT ![n] = [stack[row][n] EXCEPT !.ro = TRUE]]]
    BY <1>5, <2>1 DEF Remount
  <2>7. stack' \in Stacks
    BY <2>1, <2>5, <2>6 DEF KernelOK, Stacks
  <2> QED BY <1>5, <2>7 DEF Remount, KernelOK
<1>6. CASE RollbackUmount
  <2>1. row \in Rows
    BY <1>6, SizeAssumption DEF RollbackUmount, IInv, JournalProgress, Rows, TypeOK,
       FilesOK, JournalFile, CommandOK
  <2> QED BY <1>1, <1>6, <2>1 DEF RollbackUmount, KernelOK
<1>7. CASE ForeignMount \/ ForeignUmount
  <2>1. stack' \in Stacks
    BY <1>7, ForeignSparesOwned DEF IInv
  <2> QED BY <1>7, <2>1 DEF ForeignMount, ForeignUmount, KernelOK
<1>8. CASE Reboot
  <2>1. [r \in Rows |-> <<>>] \in Stacks
    BY EmptySeq DEF Stacks
  <2> QED BY <1>8, <2>1 DEF Reboot, KernelOK
<1>9. CASE Replan
  BY <1>9 DEF Replan, KernelOK
<1>10. CASE UNCHANGED <<boot, stack, plan, masked>>
  BY <1>10 DEF KernelOK
<1> QED
  BY <1>3, <1>4, <1>5, <1>6, <1>7, <1>8, <1>9, <1>10, KernelChange

\* A step keeps the files' part of TypeOK.
LEMMA FilesStep ==
    ASSUME IInv, KernelOK, FilesOK, [Next]_vars
    PROVE  FilesOK'
<1>1. NoCommit \in CommitFile /\ NoTx \in TxId
  BY DEF NoCommit, CommitFile, NoTx, TxId
<1>2. NextTx \in TxId
  BY DEF NextTx, TxId, KernelOK, FilesOK
<1>3. /\ journal.tx \in TxId
      /\ journal.rows \in Seq(JournalRow)
      /\ journal.plan \in Plans \cup {NoPlan}
      /\ \A p \in Plans : [journal EXCEPT !.plan = p] \in JournalFile
      /\ \A rows \in Seq(JournalRow) : [journal EXCEPT !.rows = rows] \in JournalFile
  BY DEF FilesOK, JournalFile
<1>4. CASE Allocate
  <2>1. [NoJournal EXCEPT !.tx = NextTx] \in JournalFile
    BY <1>2, EmptySeq DEF NoJournal, JournalFile
  <2> HIDE DEF NextTx
  <2> QED BY <1>2, <1>4, <2>1 DEF Allocate, pointers, FilesOK
<1>5. CASE Preflight
  BY <1>3, <1>5 DEF Preflight, pointers, FilesOK, KernelOK
<1>6. CASE PreflightFails
  BY <1>6 DEF PreflightFails, pointers, FilesOK
<1>7. CASE Record
  <2>1. row \in Rows /\ created \in Ids /\ pre[row] \in Ids \cup {BaseId}
    BY <1>7 DEF Record, IInv, JournalProgress, Looping
  <2>2. [pre |-> pre[row], created |-> created] \in JournalRow
    BY <2>1 DEF JournalRow
  <2>3. Append(journal.rows, [pre |-> pre[row], created |-> created]) \in Seq(JournalRow)
    BY <1>3, <2>2, AppendProperties
  <2> QED BY <1>3, <1>7, <2>3 DEF Record, pointers, FilesOK
<1>8. CASE Publish
  BY <1>3, <1>8 DEF Publish, FilesOK
<1>9. CASE Commit
  <2>1. [tx |-> journal.tx, boot |-> boot, plan |-> plan] \in CommitFile
    BY <1>3 DEF CommitFile, KernelOK
  <2> QED BY <1>9, <2>1 DEF Commit, FilesOK
<1>10. CASE ApplyFails
  <2>1. lastError' \in {"rolled-back", "recovery-required", "rollback-incomplete"}
    BY <1>10, Zenon DEF ApplyFails, FlagIfIncomplete, RaiseRecovery, FlagsOK
  <2> QED BY <1>10, <2>1 DEF ApplyFails, pointers, FilesOK
<1>11. CASE UnlinkActive
  BY <1>1, <1>11 DEF UnlinkActive, FilesOK
<1>12. CASE UnlinkCommit
  BY <1>1, <1>12 DEF UnlinkCommit, FilesOK
<1>13. CASE BootComplete
  BY <1>13 DEF BootComplete, pointers, FilesOK
<1>14. CASE UNCHANGED <<commit, activeJournal, journal, txSequence, lastError>>
  BY <1>14 DEF FilesOK
<1> QED
  BY <1>4, <1>5, <1>6, <1>7, <1>8, <1>9, <1>10, <1>11, <1>12, <1>13, <1>14,
     FilesChange

\* What an open of a target reaches.
LEMMA VisibleFacts ==
    ASSUME KernelOK, NEW r \in Rows
    PROVE  /\ Visible(r).id \in Ids \cup {BaseId}
           /\ stack[r] # <<>> => Visible(r) \in Layer /\ Visible(r) = stack[r][Len(stack[r])]
                                 /\ Len(stack[r]) \in DOMAIN stack[r]
           /\ stack[r] = <<>> => Visible(r).id = BaseId
<1>1. CASE stack[r] = <<>>
  BY <1>1 DEF Visible
<1>2. CASE stack[r] # <<>>
  <2>1. stack[r] \in Seq(Layer)
    BY DEF KernelOK, Stacks
  <2>2. Len(stack[r]) \in DOMAIN stack[r] /\ stack[r][Len(stack[r])] \in Layer
    BY <1>2, <2>1, EmptySeq, LenProperties
  <2>3. Visible(r) = stack[r][Len(stack[r])]
    BY <1>2 DEF Visible, Last
  <2> QED BY <1>2, <2>2, <2>3 DEF Layer
<1> QED BY <1>1, <1>2

\* A step keeps the command's part of TypeOK.
LEMMA CommandTypeStep ==
    ASSUME IInv, KernelOK, FilesOK, CommandOK, [Next]_vars
    PROVE  CommandOK'
<1>1. ASSUME NEW result \in {"none", "ok", "fail", "killed"}, Return(result)
      PROVE  /\ pc' \in PcValues
             /\ rc' \in {"none", "ok", "fail", "killed"}
             /\ row' \in 0..NRows
             /\ pre' \in PreIds
             /\ created' \in Ids \cup {BaseId, NoId}
             /\ undo' \in {"none", "row", "pointer", "detach"}
  BY <1>1, SizeAssumption DEF Return, PcValues, PreIds
<1>2. ASSUME NEW reason \in {"row", "pointer", "detach"}, Rollback(reason, journal.rows)
      PROVE  /\ pc' \in PcValues
             /\ row' \in 0..NRows
             /\ undo' \in {"none", "row", "pointer", "detach"}
  <2>1. Len(journal.rows) \in 0..NRows
    BY SizeAssumption, LenProperties DEF IInv, JournalProgress, FilesOK, JournalFile
  <2> QED BY <1>2, <2>1, SizeAssumption DEF Rollback, PcValues
<1>3. ASSUME pc \in Looping
      PROVE  row \in Rows
  BY <1>3 DEF IInv, JournalProgress
<1>4. ASSUME ApplyRefused \/ ApplyAlreadyActive \/ ApplyInconsistent \/ PreflightFails \/
             ApplyFails \/ DetachNothing \/ DetachRefused \/ DetachOrphanCommit \/ BootComplete \/ Kill \/
             Reboot
      PROVE  CommandOK'
  BY <1>1, <1>4 DEF ApplyRefused, ApplyAlreadyActive, ApplyInconsistent, PreflightFails,
     ApplyFails, DetachNothing, DetachRefused, DetachOrphanCommit, BootComplete, Kill, Reboot, CommandOK
<1>5. ASSUME ApplyBegin \/ ApplyPointersClear \/ Disown \/ RollbackCheck \/
             RollbackUmount \/ ApplyUnpublished \/ UnlinkActive \/ DetachBegin \/
             DetachStale \/ RecoveryOn \/ RecoveryOff \/ ForeignMount \/ ForeignUmount \/
             Replan \/ Record
      PROVE  CommandOK'
  BY <1>5 DEF ApplyBegin, ApplyPointersClear, Disown, RollbackCheck, RollbackUmount,
     ApplyUnpublished, UnlinkActive, DetachBegin, DetachStale, RecoveryOn, RecoveryOff,
     ForeignMount, ForeignUmount, Replan, Record, Begin, locals, CommandOK, PcValues
<1>6. ASSUME IdentifyFails \/ DisownRefused \/ DisownUmount \/ CheckFails
      PROVE  CommandOK'
  BY <1>2, <1>6 DEF IdentifyFails, DisownRefused, DisownUmount, CheckFails, CommandOK
<1>7. ASSUME Bind \/ Remount \/ Publish
      PROVE  CommandOK'
  BY <1>2, <1>7 DEF Bind, Remount, Publish, CommandOK, PcValues
<1>8. ASSUME Allocate \/ Commit \/ DetachRolledBack \/ UnlinkCommit \/ DetachActive
      PROVE  CommandOK'
  BY <1>1, <1>2, <1>8 DEF Allocate, Commit, DetachRolledBack, UnlinkCommit, DetachActive,
     locals, CommandOK, PcValues
<1>9. CASE Preflight
  <2>1. [r \in Rows |-> Visible(r).id] \in PreIds
    BY VisibleFacts DEF PreIds
  <2>2. 1 \in 0..NRows
    BY SizeAssumption
  <2> QED BY <1>9, <2>1, <2>2 DEF Preflight, CommandOK, PcValues
<1>10. CASE Identify
  <2>1. Visible(row).id \in Ids \cup {BaseId}
    BY <1>3, <1>10, VisibleFacts DEF Identify, Looping
  <2> QED BY <1>10, <2>1 DEF Identify, CommandOK, PcValues
<1>11. CASE Check
  <2>1. row \in 1..NRows
    BY <1>3, <1>11 DEF Check, Looping, Rows
  <2> QED BY <1>11, <2>1, SizeAssumption DEF Check, CommandOK, PcValues
<1>12. ASSUME RollbackRowFails \/ RollbackVerify
       PROVE  CommandOK'
  <2>1. row \in 1..NRows
    <3>1. Len(journal.rows) \in Nat /\ Len(journal.rows) <= NRows /\ row \in 0..NRows
      BY LenProperties DEF IInv, JournalProgress, FilesOK, JournalFile, CommandOK
    <3>2. row # 0
      <4>1. pc \in {"umount", "restored"} => row \in 1..Len(journal.rows)
        BY DEF IInv, JournalProgress
      <4>2. pc \in {"umount", "restored"} \/ row > 0
        BY <1>12 DEF RollbackRowFails, RollbackVerify
      <4> QED BY <3>1, <4>1, <4>2
    <3> QED BY <3>1, <3>2, SizeAssumption
  <2>2. row - 1 \in 0..NRows
    BY <2>1, SizeAssumption
  <2> QED BY <1>12, <2>2 DEF RollbackRowFails, RollbackVerify, CommandOK, PcValues
<1>13. CASE UNCHANGED vars
  BY <1>13 DEF vars, CommandOK
<1> QED
  BY <1>4, <1>5, <1>6, <1>7, <1>8, <1>9, <1>10, <1>11, <1>12, <1>13
  DEF Next, CommandStep, ApplyStep, RollbackStep, DetachStep, Command, Environment

\* The flags stay Boolean.
LEMMA FlagsStep ==
    ASSUME FlagsOK, [Next]_vars
    PROVE  FlagsOK'
<1>1. ASSUME NEW result, Return(result)
      PROVE  clean' \in BOOLEAN
  BY <1>1, Zenon DEF Return
<1>2. ASSUME NEW reason, NEW rows, Rollback(reason, rows)
      PROVE  clean' \in BOOLEAN
  BY <1>2, Zenon DEF Rollback
<1>3. ASSUME UNCHANGED locals
      PROVE  clean' \in BOOLEAN
  BY <1>3, Zenon DEF locals, FlagsOK
<1>4. ASSUME RaiseRecovery \/ FlagIfIncomplete \/ UNCHANGED files
      PROVE  recovery' \in BOOLEAN
  BY <1>4, Zenon DEF RaiseRecovery, FlagIfIncomplete, files, FlagsOK
<1>5. ASSUME ApplyPointersClear \/ ApplyAlreadyActive \/ ApplyInconsistent \/
             Allocate \/ Preflight \/ PreflightFails \/ Bind \/ Identify \/
             IdentifyFails
      PROVE  FlagsOK'
  BY <1>1, <1>2, <1>3, <1>4, <1>5, Zenon DEF FlagsOK, ApplyPointersClear,
     ApplyAlreadyActive, ApplyInconsistent, Allocate, Preflight,
     PreflightFails, Bind, Identify, IdentifyFails
<1>6. ASSUME Record \/ Disown \/ DisownRefused \/ DisownUmount \/ Remount \/
             Check \/ CheckFails \/ Publish \/ Commit
      PROVE  FlagsOK'
  BY <1>1, <1>2, <1>3, <1>4, <1>6, Zenon DEF FlagsOK, Record, Disown,
     DisownRefused, DisownUmount, Remount, Check, CheckFails, Publish, Commit
<1>7. ASSUME RollbackCheck \/ RollbackRowFails \/ RollbackUmount \/
             RollbackVerify \/ ApplyFails \/ ApplyUnpublished \/
             DetachRolledBack \/ UnlinkActive \/ UnlinkCommit
      PROVE  FlagsOK'
  BY <1>1, <1>2, <1>3, <1>4, <1>7, Zenon DEF FlagsOK, RollbackCheck,
     RollbackRowFails, RollbackUmount, RollbackVerify, ApplyFails,
     ApplyUnpublished, DetachRolledBack, UnlinkActive, UnlinkCommit
<1>8. ASSUME DetachNothing \/ DetachRefused \/ DetachStale \/ DetachOrphanCommit \/
             DetachActive \/ ApplyRefused \/ ApplyBegin \/ DetachBegin \/
             BootComplete \/ RecoveryOn
      PROVE  FlagsOK'
  BY <1>1, <1>2, <1>3, <1>4, <1>8, Zenon DEF FlagsOK, DetachNothing, DetachRefused,
     DetachStale, DetachOrphanCommit, DetachActive, ApplyRefused, ApplyBegin,
     DetachBegin, BootComplete, RecoveryOn, Begin
<1>9. ASSUME RecoveryOff \/ ForeignMount \/ ForeignUmount \/ Kill \/ Reboot \/
             Replan
      PROVE  FlagsOK'
  BY <1>1, <1>2, <1>3, <1>4, <1>9, Zenon DEF FlagsOK, RecoveryOff,
     ForeignMount, ForeignUmount, Kill, Reboot, Replan
<1>10. CASE UNCHANGED vars
  BY <1>10, Zenon DEF vars, FlagsOK
<1> QED
  BY <1>5, <1>6, <1>7, <1>8, <1>9, <1>10
  DEF Next, CommandStep, ApplyStep, RollbackStep, DetachStep, Command, Environment

\* A step keeps the whole of TypeOK.
LEMMA TypeStep ==
    ASSUME IInv, [Next]_vars
    PROVE  TypeOK'
<1>1. KernelOK /\ FilesOK /\ CommandOK /\ FlagsOK
  BY DEF IInv, TypeOK
<1>2. KernelOK'
  BY <1>1, KernelStep
<1>3. FilesOK'
  BY <1>1, FilesStep
<1>4. CommandOK'
  BY <1>1, CommandTypeStep
<1>5. FlagsOK'
  BY <1>1, FlagsStep
<1> QED BY <1>2, <1>3, <1>4, <1>5 DEF TypeOK

-----------------------------------------------------------------------------
\* The command's progress


\* A running command has not returned.
LEMMA ResultStep ==
    ASSUME RunningHasNoResult, [Next]_vars
    PROVE  RunningHasNoResult'
<1>1. ASSUME NEW result, Return(result)
      PROVE  RunningHasNoResult'
  BY <1>1 DEF Return, RunningHasNoResult
<1>2. ASSUME ApplyPointersClear \/ ApplyAlreadyActive \/ ApplyInconsistent \/
             Allocate \/ Preflight \/ PreflightFails \/ Bind \/ Identify \/
             IdentifyFails \/ Record \/ Disown
      PROVE  RunningHasNoResult'
  BY <1>1, <1>2 DEF RunningHasNoResult, ApplyPointersClear,
     ApplyAlreadyActive, ApplyInconsistent, Allocate, Preflight,
     PreflightFails, Bind, Identify, IdentifyFails, Record, Disown, Rollback
<1>3. ASSUME DisownRefused \/ DisownUmount \/ Remount \/ Check \/
             CheckFails \/ Publish \/ Commit \/ RollbackCheck \/
             RollbackRowFails \/ RollbackUmount \/ RollbackVerify
      PROVE  RunningHasNoResult'
  BY <1>1, <1>3 DEF RunningHasNoResult, DisownRefused, DisownUmount, Remount,
     Check, CheckFails, Publish, Commit, RollbackCheck, RollbackRowFails,
     RollbackUmount, RollbackVerify, Rollback
<1>4. ASSUME ApplyFails \/ ApplyUnpublished \/ DetachRolledBack \/
             UnlinkActive \/ UnlinkCommit \/ DetachNothing \/ DetachRefused \/ DetachStale \/
             DetachOrphanCommit \/ DetachActive \/ ApplyRefused \/ ApplyBegin
      PROVE  RunningHasNoResult'
  BY <1>1, <1>4 DEF RunningHasNoResult, ApplyFails, ApplyUnpublished,
     DetachRolledBack, UnlinkActive, UnlinkCommit, DetachNothing, DetachRefused, DetachStale,
     DetachOrphanCommit, DetachActive, ApplyRefused, ApplyBegin, Begin,
     Rollback, RollbackDone
<1>5. ASSUME DetachBegin \/ BootComplete \/ RecoveryOn \/ RecoveryOff \/
             ForeignMount \/ ForeignUmount \/ Kill \/ Reboot \/ Replan
      PROVE  RunningHasNoResult'
  BY <1>1, <1>5 DEF RunningHasNoResult, DetachBegin, BootComplete, RecoveryOn,
     RecoveryOff, ForeignMount, ForeignUmount, Kill, Reboot, Replan, Begin
<1>6. CASE UNCHANGED vars
  BY <1>6 DEF vars, RunningHasNoResult
<1> QED
  BY <1>2, <1>3, <1>4, <1>5, <1>6
  DEF Next, CommandStep, ApplyStep, RollbackStep, DetachStep, Command, Environment

\* The journal and the locals advance together.
LEMMA JournalProgressStep ==
    ASSUME IInv, TypeOK', [Next]_vars
    PROVE  JournalProgress'
<1> DEFINE L == Len(journal.rows)
<1>1. /\ L \in Nat /\ L <= NRows
      /\ journal.rows \in Seq(JournalRow)
      /\ journal \in JournalFile
      /\ row \in 0..NRows
  BY LenProperties DEF IInv, TypeOK, FilesOK, CommandOK, JournalFile, JournalProgress
<1>2. ASSUME pc' \notin Looping \cup {"preflight", "publish", "commit", "rollback", "umount",
                                      "restored"},
             UNCHANGED journal
      PROVE  JournalProgress'
  BY <1>1, <1>2 DEF JournalProgress, Looping
<1>3. ASSUME pc' = "rollback", row' \in Int, row' <= L, UNCHANGED journal
      PROVE  JournalProgress'
  BY <1>1, <1>3 DEF JournalProgress, Looping
<1>4. ASSUME ApplyRefused \/ ApplyBegin \/ ApplyPointersClear \/ ApplyAlreadyActive \/
             ApplyInconsistent \/ PreflightFails \/ ApplyFails \/ ApplyUnpublished \/
             DetachRolledBack \/ UnlinkActive
      PROVE  JournalProgress'
  <2>1. UNCHANGED journal
    BY <1>4 DEF ApplyRefused, ApplyBegin, ApplyPointersClear, ApplyAlreadyActive,
       ApplyInconsistent, PreflightFails, ApplyFails, ApplyUnpublished, DetachRolledBack,
       UnlinkActive, files
  <2>2. pc' \in {"idle", "pointers", "allocate", "unlink-active", "unlink-commit"}
    BY <1>4 DEF ApplyRefused, ApplyBegin, ApplyPointersClear, ApplyAlreadyActive,
       ApplyInconsistent, PreflightFails, ApplyFails, ApplyUnpublished, DetachRolledBack,
       UnlinkActive, Begin, Return
  <2> QED BY <1>2, <2>1, <2>2 DEF Looping
<1>5. ASSUME UnlinkCommit \/ DetachNothing \/ DetachRefused \/ DetachStale \/ DetachOrphanCommit \/
             DetachBegin \/ BootComplete \/ Kill \/ Reboot
      PROVE  JournalProgress'
  <2>1. UNCHANGED journal
    BY <1>5
    DEF UnlinkCommit, DetachNothing, DetachRefused, DetachStale, DetachOrphanCommit,
        DetachBegin,
       BootComplete, Kill, Reboot, files
  <2>2. pc' \in {"idle", "allocate", "detach", "unlink-active", "unlink-orphan"}
    BY <1>5
    DEF UnlinkCommit, DetachNothing, DetachRefused, DetachStale, DetachOrphanCommit,
        DetachBegin,
       BootComplete, Kill, Reboot, Begin, Return
  <2> QED BY <1>2, <2>1, <2>2 DEF Looping
<1>6. ASSUME Rollback("row", journal.rows) \/ Rollback("pointer", journal.rows) \/
             Rollback("detach", journal.rows),
             UNCHANGED journal
      PROVE  JournalProgress'
  BY <1>1, <1>2, <1>3, <1>6 DEF Rollback, Looping
<1>7. ASSUME IdentifyFails \/ DisownRefused \/ DisownUmount \/ CheckFails
      PROVE  JournalProgress'
  BY <1>6, <1>7 DEF IdentifyFails, DisownRefused, DisownUmount, CheckFails, files
<1>8. ASSUME ForeignMount \/ ForeignUmount \/ Replan \/ RecoveryOff \/ UNCHANGED vars
      PROVE  JournalProgress'
  <2>1. UNCHANGED <<journal, pc, row, pre, created>>
    BY <1>8 DEF ForeignMount, ForeignUmount, Replan, RecoveryOff, files, locals, vars
  <2> QED BY <2>1 DEF JournalProgress, IInv
<1>9. CASE RecoveryOn
  <2>1. CASE UNCHANGED <<journal, pc, row, pre, created>>
    BY <2>1 DEF JournalProgress, IInv
  <2>2. CASE UNCHANGED journal /\ pc' = "detach"
    BY <1>2, <2>2 DEF Looping
  <2> QED BY <1>9, <2>1, <2>2 DEF RecoveryOn, Begin, locals
<1>10. CASE Allocate
  <2>1. CASE pc' = "preflight" /\ journal' = [NoJournal EXCEPT !.tx = NextTx]
    <3>1. journal'.rows = <<>> /\ Len(journal'.rows) = 0
      BY <2>1, EmptySeq DEF NoJournal
    <3> QED BY <2>1, <3>1, SizeAssumption DEF JournalProgress, Looping
  <2>2. CASE UNCHANGED journal /\ pc' = "idle"
    BY <1>2, <2>2 DEF Looping
  <2> QED BY <1>10, <2>1, <2>2 DEF Allocate, Return
<1>11. CASE Preflight
  <2>1. journal.rows = <<>> /\ journal'.rows = <<>> /\ Len(journal'.rows) = 0
    BY <1>1, <1>11, EmptySeq DEF Preflight, IInv, JournalProgress, JournalFile
  <2>2. \A r \in Rows : Visible(r).id \in Ids \cup {BaseId}
    BY VisibleFacts DEF IInv, TypeOK
  <2>3. row' = 1 /\ 1 \in Rows /\ pre' \in [Rows -> Ids \cup {BaseId}] /\ pc' = "bind"
    BY <1>11, <2>2, SizeAssumption DEF Preflight, Rows
  <2> QED BY <2>1, <2>3, SizeAssumption DEF JournalProgress, Looping
<1>12. CASE Bind
  <2>1. CASE Rollback("row", journal.rows)
    BY <1>6, <1>12, <2>1 DEF Bind, files
  <2>2. CASE pc' = "identify" /\ UNCHANGED row
    <3>1. UNCHANGED <<journal, row, pre>> /\ pc = "bind"
      BY <1>12, <2>2 DEF Bind, files
    <3> QED BY <2>2, <3>1 DEF IInv, JournalProgress, Looping
  <2> QED BY <1>12, <2>1, <2>2 DEF Bind
<1>13. CASE Identify
  <2>1. row \in Rows /\ pre[row] \in Ids \cup {BaseId} /\ HasOwned(row)
    BY <1>13 DEF Identify, IInv, JournalProgress, RowsAhead, Looping
  <2>2. Visible(row).id \in Ids
    <3>1. stack[row] # <<>>
      BY <2>1, EmptySeq DEF HasOwned
    <3> QED BY <2>1, <3>1, VisibleFacts DEF IInv, TypeOK, Layer
  <2>3. UNCHANGED <<journal, row, pre>> /\ pc = "identify" /\ pc' = "record" /\ created' \in Ids
    BY <1>13, <2>2 DEF Identify, files
  <2> QED BY <2>3 DEF IInv, JournalProgress, Looping
<1>14. CASE Record
  <2>1. CASE UNCHANGED journal /\ pc' = "disown"
    <3>1. UNCHANGED <<row, pre, created>> /\ pc = "record"
      BY <1>14 DEF Record, locals
    <3> QED BY <2>1, <3>1 DEF IInv, JournalProgress, Looping
  <2>2. CASE pc' = "remount" /\ UNCHANGED locals
             /\ journal' = [journal EXCEPT !.rows =
                              Append(@, [pre |-> pre[row], created |-> created])]
    <3> DEFINE new == [pre |-> pre[row], created |-> created]
    <3>1. row \in Rows /\ L = row - 1 /\ pre \in [Rows -> Ids \cup {BaseId}] /\ created \in Ids
      BY <1>14 DEF Record, IInv, JournalProgress, Looping
    <3>2. new \in JournalRow
      BY <3>1 DEF JournalRow
    <3>3. journal'.rows = Append(journal.rows, new)
      BY <1>1, <2>2 DEF JournalFile
    <3>4. Len(journal'.rows) = L + 1 /\ journal'.rows[L + 1] = new
      <4> HIDE DEF new
      <4> QED BY <1>1, <3>2, <3>3, AppendProperties
    <3>5. row \in 1..NRows /\ L + 1 = row
      BY <1>1, <3>1 DEF Rows
    <3> QED BY <2>2, <3>1, <3>4, <3>5, SizeAssumption
            DEF JournalProgress, Looping, locals
  <2> QED BY <1>14, <2>1, <2>2 DEF Record
<1>15. CASE Disown
  BY <1>15 DEF Disown, files, locals, IInv, JournalProgress, Looping
<1>16. CASE Remount
  <2>1. CASE Rollback("row", journal.rows)
    BY <1>6, <1>16, <2>1 DEF Remount, files
  <2>2. CASE pc' = "check" /\ UNCHANGED row
    BY <1>16, <2>2 DEF Remount, files, IInv, JournalProgress, Looping
  <2> QED BY <1>16, <2>1, <2>2 DEF Remount
<1>17. CASE Check
  <2>1. row \in 1..NRows /\ L = row /\ pre \in [Rows -> Ids \cup {BaseId}]
    BY <1>17 DEF Check, IInv, JournalProgress, Looping, Rows
  <2>2. UNCHANGED <<journal, pre>>
    BY <1>17 DEF Check, files
  <2>3. CASE row < NRows /\ row' = row + 1 /\ pc' = "bind"
    BY <1>1, <2>1, <2>2, <2>3, SizeAssumption DEF JournalProgress, Looping, Rows
  <2>4. CASE row = NRows /\ pc' = "publish"
    BY <1>1, <2>1, <2>2, <2>4 DEF JournalProgress, Looping
  <2> QED BY <1>17, <2>3, <2>4 DEF Check
<1>18. CASE Publish
  <2>1. CASE Rollback("pointer", journal.rows)
    BY <1>6, <1>18, <2>1 DEF Publish
  <2>2. CASE pc' = "commit"
    BY <1>18, <2>2 DEF Publish, IInv, JournalProgress, Looping
  <2> QED BY <1>18, <2>1, <2>2 DEF Publish
<1>19. CASE Commit
  BY <1>2, <1>6, <1>19 DEF Commit, Return, Looping
<1>20. CASE DetachActive
  BY <1>2, <1>6, <1>20 DEF DetachActive, Return, files, Looping
<1>21. CASE RollbackCheck
  <2>1. row \in 1..L /\ pc' = "umount" /\ UNCHANGED <<journal, row>>
    BY <1>1, <1>21 DEF RollbackCheck, IInv, JournalProgress, files, locals
  <2> QED BY <1>1, <2>1 DEF JournalProgress, Looping
<1>22. CASE RollbackUmount
  BY <1>1, <1>22 DEF RollbackUmount, IInv, JournalProgress, files, locals, Looping
<1>23. ASSUME RollbackRowFails \/ RollbackVerify
       PROVE  JournalProgress'
  <2>1. pc' = "rollback" /\ row' = row - 1 /\ UNCHANGED journal
        /\ pc \in {"rollback", "umount", "restored"}
    BY <1>23 DEF RollbackRowFails, RollbackVerify, files
  <2>2. row <= L
    BY <1>1, <2>1 DEF IInv, JournalProgress
  <2> QED BY <1>1, <1>3, <2>1, <2>2
<1> QED
  BY <1>4, <1>5, <1>7, <1>8, <1>9, <1>10, <1>11, <1>12, <1>13, <1>14, <1>15, <1>16,
     <1>17, <1>18, <1>19, <1>20, <1>21, <1>22, <1>23
  DEF Next, CommandStep, ApplyStep, RollbackStep, DetachStep, Command, Environment

\* The row loop is entered only through preflight.
LEMMA MountingFrom ==
    ASSUME [Next]_vars
    PROVE  pc' \in Mounting => pc \in Mounting \/ Preflight
<1>1. ASSUME ApplyPointersClear \/ ApplyAlreadyActive \/ ApplyInconsistent \/
             Allocate \/ PreflightFails \/ Bind \/ Identify \/
             IdentifyFails \/ Record \/ Disown \/ DisownRefused
      PROVE  pc' \in Mounting => pc \in Mounting \/ Preflight
  BY <1>1 DEF Mounting, Looping, ApplyPointersClear, ApplyAlreadyActive,
     ApplyInconsistent, Allocate, PreflightFails, Bind, Identify,
     IdentifyFails, Record, Disown, DisownRefused, Rollback, Return, files,
     locals, pointers
<1>2. ASSUME DisownUmount \/ Remount \/ Check \/ CheckFails \/ Publish \/
             Commit \/ RollbackCheck \/ RollbackRowFails \/ RollbackUmount \/
             RollbackVerify \/ ApplyFails
      PROVE  pc' \in Mounting => pc \in Mounting \/ Preflight
  BY <1>2 DEF Mounting, Looping, DisownUmount, Remount, Check, CheckFails,
     Publish, Commit, RollbackCheck, RollbackRowFails, RollbackUmount,
     RollbackVerify, ApplyFails, Rollback, Return, RollbackDone, files,
     locals, pointers
<1>3. ASSUME ApplyUnpublished \/ DetachRolledBack \/ UnlinkActive \/
             UnlinkCommit \/ DetachNothing \/ DetachRefused \/ DetachStale \/
             DetachOrphanCommit \/ DetachActive \/ ApplyRefused \/
             ApplyBegin \/ DetachBegin
      PROVE  pc' \in Mounting => pc \in Mounting \/ Preflight
  BY <1>3 DEF Mounting, Looping, ApplyUnpublished, DetachRolledBack,
     UnlinkActive, UnlinkCommit, DetachNothing, DetachRefused, DetachStale,
     DetachOrphanCommit, DetachActive, ApplyRefused, ApplyBegin, DetachBegin,
     Begin, Rollback, Return, RollbackDone, files, locals, pointers
<1>4. ASSUME BootComplete \/ RecoveryOn \/ RecoveryOff \/ ForeignMount \/
             ForeignUmount \/ Kill \/ Reboot \/ Replan
      PROVE  pc' \in Mounting => pc \in Mounting \/ Preflight
  BY <1>4 DEF Mounting, Looping, BootComplete, RecoveryOn, RecoveryOff,
     ForeignMount, ForeignUmount, Kill, Reboot, Replan, Begin, Return, files,
     locals, pointers
<1>5. CASE UNCHANGED vars
  BY <1>5 DEF vars, Mounting, Looping
<1> QED
  BY <1>1, <1>2, <1>3, <1>4, <1>5
  DEF Next, CommandStep, ApplyStep, RollbackStep, DetachStep, Command, Environment

\* Pointers are removed before a transaction is allocated, and kept away until it publishes.
LEMMA PointersStep ==
    ASSUME PointersKnown, [Next]_vars
    PROVE  PointersKnown'
<1>1. ASSUME ApplyPointersClear \/ ApplyAlreadyActive \/ ApplyInconsistent \/
             Allocate \/ Preflight \/ PreflightFails
      PROVE  PointersKnown'
  BY <1>1 DEF PointersKnown, Looping, ApplyPointersClear, ApplyAlreadyActive,
     ApplyInconsistent, Allocate, Preflight, PreflightFails, Return, files,
     locals, pointers
<1>2. ASSUME Bind \/ Identify \/ IdentifyFails \/ Record \/ Disown \/
             DisownRefused
      PROVE  PointersKnown'
  BY <1>2 DEF PointersKnown, Looping, Bind, Identify, IdentifyFails, Record,
     Disown, DisownRefused, Rollback, files, locals, pointers
<1>3. ASSUME DisownUmount \/ Remount \/ Check \/ CheckFails \/ Publish \/
             Commit
      PROVE  PointersKnown'
  BY <1>3 DEF PointersKnown, Looping, DisownUmount, Remount, Check,
     CheckFails, Publish, Commit, Rollback, Return, files
<1>4. ASSUME RollbackCheck \/ RollbackRowFails \/ RollbackUmount \/
             RollbackVerify \/ ApplyFails \/ ApplyUnpublished
      PROVE  PointersKnown'
  BY <1>4 DEF PointersKnown, Looping, RollbackCheck, RollbackRowFails,
     RollbackUmount, RollbackVerify, ApplyFails, ApplyUnpublished, Return,
     RollbackDone, files, locals, pointers
<1>5. ASSUME DetachRolledBack \/ UnlinkActive \/ UnlinkCommit \/
             DetachNothing \/ DetachRefused \/ DetachStale \/ DetachOrphanCommit
      PROVE  PointersKnown'
  BY <1>5 DEF PointersKnown, Looping, DetachRolledBack, UnlinkActive,
     UnlinkCommit, DetachNothing, DetachRefused, DetachStale, DetachOrphanCommit, Return,
     RollbackDone, files, locals, pointers
<1>6. ASSUME DetachActive \/ ApplyRefused \/ ApplyBegin \/ DetachBegin \/
             BootComplete \/ RecoveryOn
      PROVE  PointersKnown'
  BY <1>6 DEF PointersKnown, Looping, DetachActive, ApplyRefused, ApplyBegin,
     DetachBegin, BootComplete, RecoveryOn, Begin, Rollback, Return, files,
     locals, pointers
<1>7. ASSUME RecoveryOff \/ ForeignMount \/ ForeignUmount \/ Kill \/ Reboot \/
             Replan
      PROVE  PointersKnown'
  BY <1>7 DEF PointersKnown, Looping, RecoveryOff, ForeignMount,
     ForeignUmount, Kill, Reboot, Replan, Return, files, locals, pointers
<1>8. CASE UNCHANGED vars
  BY <1>8 DEF vars, PointersKnown, Looping
<1> QED
  BY <1>1, <1>2, <1>3, <1>4, <1>5, <1>6, <1>7, <1>8
  DEF Next, CommandStep, ApplyStep, RollbackStep, DetachStep, Command, Environment

\* The plan a transaction was checked against is the installed one to its end.
LEMMA PlanStep ==
    ASSUME IInv, [Next]_vars
    PROVE  PlanHeld'
<1>1. CASE Preflight
  BY <1>1 DEF Preflight, kernel, PlanHeld, IInv, TypeOK, FilesOK, JournalFile
<1>2. ASSUME pc' \in Mounting, pc \in Mounting
      PROVE  PlanHeld'
  <2>1. UNCHANGED plan
    <3>1. CASE Bind \/ DisownUmount \/ Remount \/ RollbackUmount \/ ForeignMount \/
               ForeignUmount
      BY <3>1 DEF Bind, DisownUmount, Remount, RollbackUmount, ForeignMount, ForeignUmount
    <3>2. ~Reboot /\ ~Replan
      BY <1>2 DEF Reboot, Replan, Return, Mounting, Looping
    <3> QED BY <3>1, <3>2, KernelChange
  <2>2. journal'.plan = journal.plan
    <3>1. CASE Record
      BY <3>1 DEF Record, IInv, TypeOK, FilesOK, JournalFile
    <3>2. CASE PreflightFails \/ Publish \/ Commit \/ ApplyFails \/ UnlinkActive \/
               UnlinkCommit \/ BootComplete
      BY <3>2 DEF PreflightFails, Publish, Commit, ApplyFails, UnlinkActive, UnlinkCommit,
         BootComplete
    <3>3. ~Allocate
      BY <1>2 DEF Allocate, Mounting, Looping
    <3> QED BY <1>1, <1>2, <3>1, <3>2, <3>3, FilesChange DEF Preflight, Mounting, Looping
  <2> QED BY <1>2, <2>1, <2>2 DEF PlanHeld, IInv
<1> QED BY <1>1, <1>2, MountingFrom DEF PlanHeld

\* The commit and the journal are written for the same transaction.
LEMMA CommitStep ==
    ASSUME IInv, [Next]_vars
    PROVE  CommitDescribesJournal'
<1>1. ASSUME commit = NoCommit /\ activeJournal = NoTx,
             UNCHANGED <<commit, activeJournal>>
      PROVE  CommitDescribesJournal'
  BY <1>1 DEF CommitDescribesJournal, NoCommit, NoTx
<1>2. CASE Allocate \/ Preflight \/ Record
  <2>1. commit = NoCommit /\ activeJournal = NoTx
    BY <1>2 DEF Allocate, Preflight, Record, IInv, PointersKnown, Looping
  <2>2. UNCHANGED <<commit, activeJournal>>
    BY <1>2 DEF Allocate, Preflight, Record, pointers
  <2> QED BY <1>1, <2>1, <2>2
<1>3. CASE PreflightFails \/ ApplyFails \/ BootComplete
  BY <1>3 DEF PreflightFails, ApplyFails, BootComplete, pointers, IInv,
     CommitDescribesJournal, NoCommit, NoTx
<1>4. CASE Publish
  <2>1. commit = NoCommit /\ UNCHANGED commit
    BY <1>4 DEF Publish, IInv, PointersKnown
  <2> QED BY <2>1 DEF CommitDescribesJournal, NoCommit
<1>5. CASE Commit
  <2>1. /\ activeJournal = journal.tx
        /\ journal.plan = plan
        /\ Len(journal.rows) = NRows
        /\ commit = NoCommit
    BY <1>5 DEF Commit, IInv, PointersKnown, PlanHeld, Mounting, JournalProgress
  <2>2. CASE UNCHANGED commit
    BY <1>5, <2>1, <2>2 DEF Commit, CommitDescribesJournal, NoCommit
  <2>3. CASE commit' = [tx |-> journal.tx, boot |-> boot, plan |-> plan]
    BY <1>5, <2>1, <2>3 DEF Commit, CommitDescribesJournal
  <2> QED BY <1>5, <2>2, <2>3 DEF Commit
<1>6. CASE UnlinkActive
  BY <1>6 DEF UnlinkActive, CommitDescribesJournal, NoTx
<1>7. CASE UnlinkCommit
  BY <1>7 DEF UnlinkCommit, CommitDescribesJournal, NoCommit
<1>8. CASE UNCHANGED <<commit, activeJournal, journal, txSequence, lastError>>
  BY <1>8 DEF IInv, CommitDescribesJournal, NoCommit, NoTx
<1> QED
  BY <1>2, <1>3, <1>4, <1>5, <1>6, <1>7, <1>8, FilesChange

-----------------------------------------------------------------------------
\* Layers of ours on the targets

\* A target that shows its baseline has no layer of ours, unless it is masked.
LEMMA BaselineMeansBare ==
    ASSUME KernelOK, Uncovered, TargetsAtBaseline, NEW r \in Rows \ masked
    PROVE  ~HasOwned(r)
<1>1. ASSUME HasOwned(r)
      PROVE  FALSE
  <2>1. PICK i \in DOMAIN stack[r] : Owned(stack[r][i])
    BY <1>1 DEF HasOwned
  <2>2. stack[r] \in Seq(Layer) /\ stack[r] # <<>>
    BY <2>1, EmptySeq DEF KernelOK, Stacks
  <2>3. /\ Visible(r) = stack[r][Len(stack[r])] /\ Len(stack[r]) \in DOMAIN stack[r]
        /\ Visible(r).content = Baseline
    BY <2>2, VisibleFacts DEF TargetsAtBaseline
  <2>4. Len(stack[r]) < i /\ i \in 1..Len(stack[r]) /\ Len(stack[r]) \in Nat
    BY <2>1, <2>2, <2>3, LenProperties DEF Uncovered
  <2> QED BY <2>4
<1> QED BY <1>1

\* Rows stay masked until a reboot.
LEMMA MaskedGrows ==
    ASSUME [Next]_vars, ~Reboot
    PROVE  masked \subseteq masked'
<1>1. ForeignMount => masked \subseteq masked'
  BY DEF ForeignMount
<1>2. Bind \/ DisownUmount \/ Remount \/ RollbackUmount \/ ForeignUmount \/ Replan
        => masked' = masked
  BY DEF Bind, DisownUmount, Remount, RollbackUmount, ForeignUmount, Replan
<1> QED BY <1>1, <1>2, KernelChange

\* Removing a top layer adds no layer of ours and moves none.
LEMMA PopKeeps ==
    ASSUME KernelOK, NEW r \in Rows, Pop(r), NEW q \in Rows
    PROVE  /\ DOMAIN stack'[q] \subseteq DOMAIN stack[q]
           /\ \A i \in DOMAIN stack'[q] : stack'[q][i] = stack[q][i]
BY PopFacts DEF KernelOK

\* Making the top layer read-only moves no layer and changes no content.
LEMMA RemountKeeps ==
    ASSUME IInv, Remount, NEW q \in Rows
    PROVE  /\ DOMAIN stack'[q] = DOMAIN stack[q]
           /\ \A i \in DOMAIN stack[q] : Owned(stack'[q][i]) <=> Owned(stack[q][i])
           /\ \A i \in DOMAIN stack[q] : stack'[q][i].id = stack[q][i].id
           /\ \A i \in DOMAIN stack[q] : stack'[q][i].content = stack[q][i].content
           /\ q # row => stack'[q] = stack[q]
<1>1. stack \in Stacks /\ row \in Rows
  BY DEF Remount, IInv, TypeOK, KernelOK, JournalProgress, Looping
<1>2. CASE UNCHANGED stack
  BY <1>2
<1> DEFINE n == Len(stack[row])
<1>3. CASE stack' = [stack EXCEPT ![row] =
                        [stack[row] EXCEPT ![n] = [stack[row][n] EXCEPT !.ro = TRUE]]]
  <2>1. stack'[row] = [stack[row] EXCEPT ![n] = [stack[row][n] EXCEPT !.ro = TRUE]]
        /\ \A p \in Rows \ {row} : stack'[p] = stack[p]
    <3> HIDE DEF n
    <3> QED BY <1>1, <1>3 DEF Stacks
  <2>2. stack[row] \in Seq(Layer)
    BY <1>1 DEF Stacks
  <2>3. \A i \in DOMAIN stack[row] : stack[row][i] \in Layer
    BY <2>2
  <2>4. DOMAIN stack'[row] = DOMAIN stack[row]
    <3> HIDE DEF n
    <3> QED BY <2>1
  <2>5. ASSUME NEW i \in DOMAIN stack[row]
        PROVE  /\ Owned(stack'[row][i]) <=> Owned(stack[row][i])
               /\ stack'[row][i].id = stack[row][i].id
               /\ stack'[row][i].content = stack[row][i].content
    <3> HIDE DEF n
    <3>1. CASE i = n
      BY <2>1, <2>3, <3>1 DEF Owned, Layer
    <3>2. CASE i # n
      BY <2>1, <3>2 DEF Owned
    <3> QED BY <3>1, <3>2
  <2> QED BY <2>1, <2>4, <2>5
<1> QED BY <1>2, <1>3 DEF Remount

\* A step binds nothing of ours over a layer of ours on a row known to be bare.
LEMMA SingleStep ==
    ASSUME IInv, [Next]_vars, NEW r \in Rows, Single(r), Ahead(r)
    PROVE  Single(r)'
<1>1. stack \in Stacks /\ KernelOK
  BY DEF IInv, TypeOK, KernelOK
<1>2. ASSUME NEW q \in Rows, Pop(q)
      PROVE  Single(r)'
  BY <1>1, <1>2, PopKeeps DEF Single
<1>3. CASE Bind
  <2>1. row \in Rows /\ (r = row => ~HasOwned(r)) /\ journal.plan \in Plans
    BY <1>1, <1>3 DEF Bind, IInv, JournalProgress, Ahead, PlanHeld, Mounting, Looping,
       KernelOK
  <2>2. ASSUME NEW id \in Ids,
               Push(row, [id |-> id, content |-> journal.plan, ro |-> FALSE])
        PROVE  Single(r)'
    <3> DEFINE layer == [id |-> id, content |-> journal.plan, ro |-> FALSE]
    <3>1. layer \in Layer
      BY <2>1 DEF Layer, Contents
    <3>2. /\ \A q \in Rows \ {row} : stack'[q] = stack[q]
          /\ Len(stack[row]) \in Nat
          /\ DOMAIN stack[row] = 1..Len(stack[row])
          /\ DOMAIN stack'[row] = 1..(Len(stack[row]) + 1)
          /\ \A i \in 1..Len(stack[row]) : stack'[row][i] = stack[row][i]
      BY <1>1, <2>1, <2>2, <3>1, PushFacts
    <3>3. CASE r = row
      <4>1. \A i \in DOMAIN stack'[r] : Owned(stack'[r][i]) => i = Len(stack[r]) + 1
        BY <2>1, <3>2, <3>3 DEF HasOwned
      <4> QED BY <4>1 DEF Single, Owned
    <3>4. CASE r # row
      BY <3>2, <3>4 DEF Single
    <3> QED BY <3>3, <3>4
  <2>3. CASE UNCHANGED stack
    BY <2>3 DEF Single
  <2> QED BY <1>3, <2>2, <2>3 DEF Bind
<1>4. CASE DisownUmount
  BY <1>2, <1>4 DEF DisownUmount, IInv, JournalProgress, Looping
<1>5. CASE RollbackUmount
  <2>1. row \in Rows
    BY <1>5, SizeAssumption DEF RollbackUmount, IInv, JournalProgress, Rows, TypeOK,
       FilesOK, JournalFile, CommandOK
  <2> QED BY <1>2, <1>5, <2>1 DEF RollbackUmount
<1>6. CASE Remount
  BY <1>1, <1>6, RemountKeeps DEF Single
<1>7. CASE ForeignMount \/ ForeignUmount
  <2>1. SameOwned(r)
    BY <1>7, ForeignSparesOwned DEF IInv
  <2> QED BY <2>1 DEF SameOwned, Single, Owned
<1>8. CASE Reboot
  BY <1>8 DEF Reboot, Single
<1>9. CASE Replan \/ UNCHANGED <<boot, stack, plan, masked>>
  BY <1>9 DEF Replan, Single
<1> QED
  BY <1>3, <1>4, <1>5, <1>6, <1>7, <1>8, <1>9, KernelChange

\* Each target that nobody masks keeps at most one layer of ours.
LEMMA StackingStep ==
    ASSUME IInv, [Next]_vars
    PROVE  NoStacking'
<1>1. CASE Reboot
  BY <1>1 DEF Reboot, NoStacking
<1>2. ASSUME ~Reboot, NEW r \in Rows \ masked'
      PROVE  Single(r)'
  <2>1. r \in Rows \ masked
    BY <1>2, MaskedGrows
  <2>2. Single(r) /\ Ahead(r)
    BY <2>1 DEF IInv, NoStacking, RowsAhead, Single
  <2> QED BY <2>1, <2>2, SingleStep
<1> QED BY <1>1, <1>2 DEF NoStacking, Single

\* The unmodified file covers a layer of ours only where it is masked.
LEMMA UncoveredStep ==
    ASSUME IInv, [Next]_vars
    PROVE  Uncovered'
<1>1. stack \in Stacks /\ KernelOK /\ Uncovered
  BY DEF IInv, TypeOK, KernelOK
<1>2. CASE Reboot
  BY <1>2 DEF Reboot, Uncovered
<1>3. ~Reboot => masked \subseteq masked'
  BY MaskedGrows
<1>4. ASSUME NEW q \in Rows, Pop(q), ~Reboot
      PROVE  Uncovered'
  BY <1>1, <1>3, <1>4, PopKeeps DEF Uncovered
<1>5. CASE Bind
  <2>1. row \in Rows /\ journal.plan \in Plans /\ ~Reboot
    BY <1>1, <1>5 DEF Bind, IInv, JournalProgress, PlanHeld, Mounting, Looping, KernelOK,
       Reboot, Return, Rollback
  <2>2. ASSUME NEW id \in Ids,
               Push(row, [id |-> id, content |-> journal.plan, ro |-> FALSE])
        PROVE  Uncovered'
    <3> DEFINE layer == [id |-> id, content |-> journal.plan, ro |-> FALSE]
    <3>1. layer \in Layer /\ layer.content # Baseline
      BY <2>1, ContentAssumption DEF Layer, Contents
    <3>2. /\ \A q \in Rows \ {row} : stack'[q] = stack[q]
          /\ Len(stack[row]) \in Nat
          /\ DOMAIN stack[row] = 1..Len(stack[row])
          /\ DOMAIN stack'[row] = 1..(Len(stack[row]) + 1)
          /\ \A i \in 1..Len(stack[row]) : stack'[row][i] = stack[row][i]
          /\ stack'[row][Len(stack[row]) + 1] = layer
      BY <1>1, <2>1, <2>2, <3>1, PushFacts
    <3>3. ASSUME row \notin masked',
                 NEW i \in DOMAIN stack'[row], NEW j \in DOMAIN stack'[row],
                 Owned(stack'[row][i]), stack'[row][j].content = Baseline
          PROVE  j < i
      <4>1. j \in 1..Len(stack[row]) /\ i \in 1..(Len(stack[row]) + 1)
        BY <3>1, <3>2, <3>3
      <4>2. CASE i = Len(stack[row]) + 1
        BY <3>2, <4>1, <4>2
      <4>3. CASE i \in 1..Len(stack[row])
        <5>1. /\ row \in Rows \ masked
              /\ i \in DOMAIN stack[row] /\ j \in DOMAIN stack[row]
              /\ Owned(stack[row][i]) /\ stack[row][j].content = Baseline
          BY <1>3, <2>1, <3>2, <3>3, <4>1, <4>3
        <5> QED BY <1>1, <5>1 DEF Uncovered
      <4> QED BY <3>2, <4>1, <4>2, <4>3
    <3>4. ASSUME NEW q \in Rows \ masked', q # row
          PROVE  q \in Rows \ masked /\ stack'[q] = stack[q]
      BY <1>3, <2>1, <3>2, <3>4
    <3> QED BY <1>1, <3>3, <3>4 DEF Uncovered, Owned
  <2>3. CASE UNCHANGED stack
    BY <1>1, <1>3, <2>1, <2>3 DEF Uncovered
  <2> QED BY <1>5, <2>2, <2>3 DEF Bind
<1>6. CASE DisownUmount /\ ~Reboot
  BY <1>4, <1>6 DEF DisownUmount, IInv, JournalProgress, Looping
<1>7. CASE RollbackUmount /\ ~Reboot
  <2>1. row \in Rows
    BY <1>7, SizeAssumption DEF RollbackUmount, IInv, JournalProgress, Rows, TypeOK,
       FilesOK, JournalFile, CommandOK
  <2> QED BY <1>4, <1>7, <2>1 DEF RollbackUmount
<1>8. CASE Remount /\ ~Reboot
  <2>1. ASSUME NEW r \in Rows
        PROVE  /\ DOMAIN stack'[r] = DOMAIN stack[r]
               /\ \A i \in DOMAIN stack[r] : /\ Owned(stack'[r][i]) <=> Owned(stack[r][i])
                                            /\ stack'[r][i].content = stack[r][i].content
    BY <1>8, RemountKeeps
  <2> QED BY <1>1, <1>3, <1>8, <2>1 DEF Uncovered, Owned
<1>9. CASE ForeignMount /\ ~Reboot
  <2>1. PICK r \in Rows, id \in Ids, content \in Others, ro \in BOOLEAN :
            /\ Push(r, [id |-> id, content |-> content, ro |-> ro])
            /\ masked' = IF content = Baseline /\ HasOwned(r) THEN masked \cup {r} ELSE masked
    BY <1>9 DEF ForeignMount
  <2> DEFINE layer == [id |-> id, content |-> content, ro |-> ro]
  <2>2. layer \in Layer /\ ~Owned(layer)
    BY ContentAssumption DEF Layer, Contents, Owned
  <2>3. /\ \A q \in Rows \ {r} : stack'[q] = stack[q]
        /\ Len(stack[r]) \in Nat
        /\ DOMAIN stack[r] = 1..Len(stack[r])
        /\ DOMAIN stack'[r] = 1..(Len(stack[r]) + 1)
        /\ \A i \in 1..Len(stack[r]) : stack'[r][i] = stack[r][i]
        /\ stack'[r][Len(stack[r]) + 1] = layer
    BY <1>1, <2>1, <2>2, PushFacts
  <2>4. ASSUME r \notin masked',
               NEW i \in DOMAIN stack'[r], NEW j \in DOMAIN stack'[r],
               Owned(stack'[r][i]), stack'[r][j].content = Baseline
        PROVE  j < i
    <3>1. i \in 1..Len(stack[r]) /\ j \in 1..(Len(stack[r]) + 1) /\ Owned(stack[r][i])
      BY <2>2, <2>3, <2>4
    <3>2. HasOwned(r)
      BY <2>3, <3>1 DEF HasOwned
    <3>3. content # Baseline /\ r \notin masked
      BY <2>1, <2>4, <3>2
    <3>4. j \in 1..Len(stack[r]) /\ stack[r][j].content = Baseline
      BY <2>3, <2>4, <3>1, <3>3
    <3> QED BY <1>1, <2>3, <3>1, <3>3, <3>4 DEF Uncovered
  <2>5. ASSUME NEW q \in Rows \ masked', q # r
        PROVE  q \in Rows \ masked /\ stack'[q] = stack[q]
    BY <1>3, <1>9, <2>3, <2>5
  <2> QED BY <1>1, <2>4, <2>5 DEF Uncovered, Owned
<1>10. CASE ForeignUmount /\ ~Reboot
  BY <1>4, <1>10 DEF ForeignUmount
<1>11. CASE Replan \/ UNCHANGED <<boot, stack, plan, masked>>
  BY <1>1, <1>11 DEF Replan, Uncovered
<1> QED
  BY <1>2, <1>5, <1>6, <1>7, <1>8, <1>9, <1>10, <1>11, KernelChange

\* Where the row loop is after a step that does not preflight, bind, check or leave it.
LEMMA LoopFrom ==
    ASSUME [Next]_vars
    PROVE  pc' \in Looping =>
              \/ Preflight \/ Bind \/ Check
              \/ pc \in Looping \ {"bind"} /\ pc' # "bind" /\ row' = row
              \/ pc = "bind" /\ pc' = "bind" /\ row' = row
<1>1. ASSUME ApplyPointersClear \/ ApplyAlreadyActive \/ ApplyInconsistent \/
             Allocate \/ PreflightFails \/ Identify \/ IdentifyFails \/ Record
      PROVE  pc' \in Looping =>
              \/ Preflight \/ Bind \/ Check
              \/ pc \in Looping \ {"bind"} /\ pc' # "bind" /\ row' = row
              \/ pc = "bind" /\ pc' = "bind" /\ row' = row
  BY <1>1 DEF Looping, ApplyPointersClear, ApplyAlreadyActive,
     ApplyInconsistent, Allocate, PreflightFails, Identify, IdentifyFails,
     Record, Rollback, Return, files, locals, pointers
<1>2. ASSUME Disown \/ DisownRefused \/ DisownUmount \/ Remount \/
             CheckFails \/ Publish \/ Commit \/ RollbackCheck
      PROVE  pc' \in Looping =>
              \/ Preflight \/ Bind \/ Check
              \/ pc \in Looping \ {"bind"} /\ pc' # "bind" /\ row' = row
              \/ pc = "bind" /\ pc' = "bind" /\ row' = row
  BY <1>2 DEF Looping, Disown, DisownRefused, DisownUmount, Remount,
     CheckFails, Publish, Commit, RollbackCheck, Rollback, Return, files,
     locals, pointers
<1>3. ASSUME RollbackRowFails \/ RollbackUmount \/ RollbackVerify \/
             ApplyFails \/ ApplyUnpublished \/ DetachRolledBack \/
             UnlinkActive \/ UnlinkCommit
      PROVE  pc' \in Looping =>
              \/ Preflight \/ Bind \/ Check
              \/ pc \in Looping \ {"bind"} /\ pc' # "bind" /\ row' = row
              \/ pc = "bind" /\ pc' = "bind" /\ row' = row
  BY <1>3 DEF Looping, RollbackRowFails, RollbackUmount, RollbackVerify,
     ApplyFails, ApplyUnpublished, DetachRolledBack, UnlinkActive,
     UnlinkCommit, Return, RollbackDone, files, locals, pointers
<1>4. ASSUME DetachNothing \/ DetachRefused \/ DetachStale \/ DetachOrphanCommit \/
             DetachActive \/ ApplyRefused \/ ApplyBegin \/ DetachBegin \/
             BootComplete
      PROVE  pc' \in Looping =>
              \/ Preflight \/ Bind \/ Check
              \/ pc \in Looping \ {"bind"} /\ pc' # "bind" /\ row' = row
              \/ pc = "bind" /\ pc' = "bind" /\ row' = row
  BY <1>4 DEF Looping, DetachNothing, DetachRefused, DetachStale, DetachOrphanCommit,
     DetachActive, ApplyRefused, ApplyBegin, DetachBegin, BootComplete, Begin,
     Rollback, Return, files, locals, pointers
<1>5. ASSUME RecoveryOn \/ RecoveryOff \/ ForeignMount \/ ForeignUmount \/
             Kill \/ Reboot \/ Replan
      PROVE  pc' \in Looping =>
              \/ Preflight \/ Bind \/ Check
              \/ pc \in Looping \ {"bind"} /\ pc' # "bind" /\ row' = row
              \/ pc = "bind" /\ pc' = "bind" /\ row' = row
  BY <1>5 DEF Looping, RecoveryOn, RecoveryOff, ForeignMount, ForeignUmount,
     Kill, Reboot, Replan, Begin, Return, files, locals, pointers
<1>6. CASE UNCHANGED vars
  BY <1>6 DEF vars, Looping
<1> QED
  BY <1>1, <1>2, <1>3, <1>4, <1>5, <1>6
  DEF Next, CommandStep, ApplyStep, RollbackStep, DetachStep, Command, Environment

\* A step that stays in the loop and does not bind changes no layer of ours.
LEMMA LoopKeeps ==
    ASSUME IInv, [Next]_vars, pc' \in Looping, ~Preflight, ~Bind, ~Check, NEW r \in Rows
    PROVE  HasOwned(r)' <=> HasOwned(r)
<1>1. ~DisownUmount /\ ~RollbackUmount /\ ~Reboot
  BY DEF DisownUmount, RollbackUmount, Reboot, Return, Rollback, Looping
<1>2. CASE Remount
  BY <1>2, RemountKeeps DEF HasOwned
<1>3. CASE ForeignMount \/ ForeignUmount
  <2>1. SameOwned(r)
    BY <1>3, ForeignSparesOwned DEF IInv
  <2> QED BY <2>1 DEF SameOwned, HasOwned, Owned
<1>4. CASE Replan \/ UNCHANGED <<boot, stack, plan, masked>>
  BY <1>4 DEF Replan, HasOwned
<1> QED BY <1>1, <1>2, <1>3, <1>4, KernelChange

\* A step that stays in the loop, or enters it over a bare row, leaves row r bare
\* until it is bound.
LEMMA AheadRow ==
    ASSUME IInv, [Next]_vars, NEW r \in Rows, Ahead(r), Preflight => ~HasOwned(r)
    PROVE  Ahead(r)'
<1>1. /\ stack \in Stacks /\ KernelOK /\ (pc \in Looping => row \in 1..NRows)
      /\ r \in 1..NRows
  BY DEF IInv, TypeOK, KernelOK, JournalProgress, Rows
<1>2. CASE Preflight
  <2>1. UNCHANGED stack
    BY <1>2 DEF Preflight, kernel
  <2> QED BY <1>2, <2>1 DEF Ahead, HasOwned
<1>3. CASE Bind
  <2>1. row \in Rows /\ journal.plan \in Plans
    BY <1>1, <1>3 DEF Bind, IInv, JournalProgress, PlanHeld, Mounting, Looping, KernelOK
  <2>2. ASSUME NEW id \in Ids,
               Push(row, [id |-> id, content |-> journal.plan, ro |-> FALSE]),
               pc' = "identify", UNCHANGED row
        PROVE  Ahead(r)'
    <3>1. [id |-> id, content |-> journal.plan, ro |-> FALSE] \in Layer
      BY <2>1 DEF Layer, Contents
    <3>2. \A q \in Rows \ {row} : stack'[q] = stack[q]
      BY <1>1, <2>1, <2>2, <3>1, PushFacts
    <3>3. r > row => ~HasOwned(r)'
      BY <1>1, <1>3, <2>1, <3>2 DEF HasOwned, Ahead, Bind, Looping
    <3> QED BY <2>2, <3>3 DEF Ahead
  <2>3. CASE pc' \notin Looping
    BY <2>3 DEF Ahead, Looping
  <2> QED BY <1>3, <2>2, <2>3 DEF Bind, Rollback, Looping
<1>4. CASE Check
  <2>1. CASE pc' = "publish"
    BY <2>1 DEF Ahead, Looping
  <2>2. CASE row < NRows /\ row' = row + 1 /\ pc' = "bind"
    <3>1. UNCHANGED stack /\ row \in 1..NRows /\ (r > row => ~HasOwned(r))
      BY <1>1, <1>4 DEF Check, kernel, Ahead, Looping
    <3> QED BY <1>1, <2>2, <3>1 DEF Ahead, HasOwned
  <2> QED BY <1>4, <2>1, <2>2 DEF Check
<1>5. ASSUME pc' \in Looping, ~Preflight, ~Bind, ~Check
      PROVE  Ahead(r)'
  <2>1. /\ row' = row
        /\ \/ pc \in Looping \ {"bind"} /\ pc' # "bind"
           \/ pc = "bind" /\ pc' = "bind"
    BY <1>5, LoopFrom
  <2>2. HasOwned(r)' => HasOwned(r)
    BY <1>5, LoopKeeps
  <2> QED BY <1>5, <2>1, <2>2 DEF Ahead, Looping
<1>6. CASE pc' \notin Looping
  BY <1>6 DEF Ahead, Looping
<1> QED BY <1>2, <1>3, <1>4, <1>5, <1>6

\* Nothing of ours is on the unmasked rows that the loop has not bound yet.
LEMMA AheadStep ==
    ASSUME IInv, [Next]_vars
    PROVE  RowsAhead'
<1>1. stack \in Stacks /\ KernelOK /\ Uncovered /\ (pc \in Looping => row \in Rows)
  BY DEF IInv, TypeOK, KernelOK, JournalProgress
<1>2. ASSUME ~Reboot, NEW r \in Rows \ masked'
      PROVE  Ahead(r)'
  <2>1. r \in Rows \ masked
    BY <1>2, MaskedGrows
  <2>2. Ahead(r)
    BY <2>1 DEF IInv, RowsAhead
  <2>3. Preflight => ~HasOwned(r)
    BY <1>1, <2>1, BaselineMeansBare DEF Preflight
  <2> QED BY <2>1, <2>2, <2>3, AheadRow
<1>3. CASE Reboot
  BY <1>3 DEF Reboot, Return, RowsAhead, Ahead, Looping
<1>4. ASSUME pc' \in Looping \ {"bind"}
      PROVE  HasOwned(row)'
  <2>1. CASE Bind
    <3>1. row \in Rows /\ journal.plan \in Plans
      BY <1>1, <2>1 DEF Bind, IInv, PlanHeld, Mounting, Looping, KernelOK
    <3>2. PICK id \in Ids :
              /\ Push(row, [id |-> id, content |-> journal.plan, ro |-> FALSE])
              /\ UNCHANGED row
      BY <1>4, <2>1 DEF Bind, Rollback, Looping
    <3> DEFINE layer == [id |-> id, content |-> journal.plan, ro |-> FALSE]
    <3>3. layer \in Layer /\ Owned(layer)
      BY <3>1 DEF Layer, Contents, Owned
    <3>4. /\ Len(stack[row]) \in Nat
          /\ DOMAIN stack'[row] = 1..(Len(stack[row]) + 1)
          /\ stack'[row][Len(stack[row]) + 1] = layer
      BY <1>1, <3>1, <3>2, <3>3, PushFacts
    <3>5. Len(stack[row]) + 1 \in DOMAIN stack'[row]
      BY <3>4
    <3> QED BY <3>2, <3>3, <3>4, <3>5 DEF HasOwned
  <2>2. CASE ~Bind
    <3>1. ~Preflight /\ ~Check
      BY <1>4 DEF Preflight, Check, Looping
    <3>2. pc \in Looping \ {"bind"} /\ row' = row /\ row \in Rows
      BY <1>1, <1>4, <2>2, <3>1, LoopFrom
    <3>3. HasOwned(row)
      BY <3>2 DEF IInv, RowsAhead
    <3>4. \A r \in Rows : r = row => HasOwned(r)'
      BY <1>4, <2>2, <3>1, <3>2, <3>3, LoopKeeps
    <3> QED BY <3>2, <3>4 DEF HasOwned
  <2> QED BY <2>1, <2>2
<1> QED BY <1>2, <1>3, <1>4 DEF RowsAhead

\* How a step stays in the row loop or what follows it.
LEMMA MountingKeepsRow ==
    ASSUME [Next]_vars
    PROVE  pc' \in Mounting =>
              \/ Preflight \/ Check
              \/ /\ pc \in Mounting /\ row' = row
                 /\ pc' \in {"publish", "commit"} => pc \in {"publish", "commit"}
<1>1. ASSUME ApplyPointersClear \/ ApplyAlreadyActive \/ ApplyInconsistent \/
             Allocate \/ PreflightFails \/ Bind \/ Identify \/ IdentifyFails
      PROVE  pc' \in Mounting =>
              \/ Preflight \/ Check
              \/ /\ pc \in Mounting /\ row' = row
                 /\ pc' \in {"publish", "commit"} => pc \in {"publish", "commit"}
  BY <1>1 DEF Mounting, Looping, ApplyPointersClear, ApplyAlreadyActive,
     ApplyInconsistent, Allocate, PreflightFails, Bind, Identify,
     IdentifyFails, Rollback, Return, files, locals, pointers
<1>2. ASSUME Record \/ Disown \/ DisownRefused \/ DisownUmount \/ Remount \/
             CheckFails \/ Publish \/ Commit
      PROVE  pc' \in Mounting =>
              \/ Preflight \/ Check
              \/ /\ pc \in Mounting /\ row' = row
                 /\ pc' \in {"publish", "commit"} => pc \in {"publish", "commit"}
  BY <1>2 DEF Mounting, Looping, Record, Disown, DisownRefused, DisownUmount,
     Remount, CheckFails, Publish, Commit, Rollback, Return, files, locals,
     pointers
<1>3. ASSUME RollbackCheck \/ RollbackRowFails \/ RollbackUmount \/
             RollbackVerify \/ ApplyFails \/ ApplyUnpublished \/
             DetachRolledBack \/ UnlinkActive
      PROVE  pc' \in Mounting =>
              \/ Preflight \/ Check
              \/ /\ pc \in Mounting /\ row' = row
                 /\ pc' \in {"publish", "commit"} => pc \in {"publish", "commit"}
  BY <1>3 DEF Mounting, Looping, RollbackCheck, RollbackRowFails,
     RollbackUmount, RollbackVerify, ApplyFails, ApplyUnpublished,
     DetachRolledBack, UnlinkActive, Return, RollbackDone, files, locals,
     pointers
<1>4. ASSUME UnlinkCommit \/ DetachNothing \/ DetachRefused \/ DetachStale \/
             DetachOrphanCommit \/ DetachActive \/ ApplyRefused \/
             ApplyBegin \/ DetachBegin
      PROVE  pc' \in Mounting =>
              \/ Preflight \/ Check
              \/ /\ pc \in Mounting /\ row' = row
                 /\ pc' \in {"publish", "commit"} => pc \in {"publish", "commit"}
  BY <1>4 DEF Mounting, Looping, UnlinkCommit, DetachNothing, DetachRefused, DetachStale,
     DetachOrphanCommit, DetachActive, ApplyRefused, ApplyBegin, DetachBegin,
     Begin, Rollback, Return, files, locals, pointers
<1>5. ASSUME BootComplete \/ RecoveryOn \/ RecoveryOff \/ ForeignMount \/
             ForeignUmount \/ Kill \/ Reboot \/ Replan
      PROVE  pc' \in Mounting =>
              \/ Preflight \/ Check
              \/ /\ pc \in Mounting /\ row' = row
                 /\ pc' \in {"publish", "commit"} => pc \in {"publish", "commit"}
  BY <1>5 DEF Mounting, Looping, BootComplete, RecoveryOn, RecoveryOff,
     ForeignMount, ForeignUmount, Kill, Reboot, Replan, Begin, Return, files,
     locals, pointers
<1>6. CASE UNCHANGED vars
  BY <1>6 DEF vars, Mounting, Looping
<1> QED
  BY <1>1, <1>2, <1>3, <1>4, <1>5, <1>6
  DEF Next, CommandStep, ApplyStep, RollbackStep, DetachStep, Command, Environment

\* A journalled layer stays in place while nothing touches it or its record.
LEMMA InPlaceKept ==
    ASSUME TypeOK, NEW r \in Rows, InPlace(r), SameOwned(r),
           journal'.plan = journal.plan,
           journal'.rows[r].created = journal.rows[r].created
    PROVE  InPlace(r)'
<1>1. PICK i \in DOMAIN stack[r] :
          stack[r][i] = [id |-> journal.rows[r].created, content |-> journal.plan, ro |-> TRUE]
  BY DEF InPlace
<1>2. stack[r][i] \in Layer
  <2>1. stack[r] \in Seq(Layer)
    BY DEF TypeOK, KernelOK, Stacks
  <2> QED BY <2>1
<1>3. stack[r][i].content \in Plans \cup Others /\ stack[r][i].content = journal.plan
  BY <1>1, <1>2 DEF Layer, Contents
<1>4. journal.plan \in Plans \cup {NoPlan}
  BY DEF TypeOK, FilesOK, JournalFile
<1>5. Owned(stack[r][i])
  BY <1>3, <1>4, ContentAssumption DEF Owned
<1>6. i \in DOMAIN stack'[r] /\ stack'[r][i] = stack[r][i]
  BY <1>5 DEF SameOwned
<1> QED BY <1>1, <1>6 DEF InPlace

\* What the verified visible layer is, is in place.
LEMMA VisibleInPlace ==
    ASSUME TypeOK, NEW r \in Rows,
           Visible(r) = [id |-> journal.rows[r].created, content |-> journal.plan, ro |-> TRUE],
           journal.rows[r].created \in Ids
    PROVE  InPlace(r)
<1>1. Visible(r).id # BaseId
  BY IdAssumption
<1>2. stack[r] # <<>>
  BY <1>1, VisibleFacts DEF TypeOK
<1>3. Visible(r) = stack[r][Len(stack[r])] /\ Len(stack[r]) \in DOMAIN stack[r]
  BY <1>2, VisibleFacts DEF TypeOK
<1> QED BY <1>3 DEF InPlace

\* The rows the loop has passed stay in place.
LEMMA BehindStep ==
    ASSUME IInv, [Next]_vars
    PROVE  RowsBehind'
<1>1. TypeOK /\ stack \in Stacks /\ RowsBehind
      /\ (pc \in Looping => row \in 1..NRows)
      /\ journal \in JournalFile
  BY DEF IInv, TypeOK, KernelOK, FilesOK, JournalProgress, Rows
<1>2. CASE Preflight
  BY <1>2 DEF Preflight, RowsBehind, Rows
<1>3. CASE Check
  <2>1. /\ row \in Rows /\ row \in 1..NRows
        /\ \A r \in Rows : r < row => InPlace(r)
        /\ Len(journal.rows) = row
        /\ journal.rows[row].created = created
        /\ Visible(row) = [id |-> created, content |-> journal.plan, ro |-> TRUE]
    BY <1>1, <1>3 DEF Check, RowsBehind, Mounting, Looping, Rows, IInv, JournalProgress
  <2>2. journal.rows[row] \in JournalRow
    BY <1>1, <2>1, ElementOfSeq DEF JournalFile
  <2>3. InPlace(row)
    BY <1>1, <2>1, <2>2, VisibleInPlace DEF JournalRow
  <2>4. \A r \in Rows : r <= row => InPlace(r)
    BY <2>1, <2>3 DEF Rows
  <2>5. UNCHANGED <<stack, journal>>
    BY <1>3 DEF Check, kernel, files
  <2>6. \A r \in Rows : r <= row => InPlace(r)'
    BY <2>4, <2>5 DEF InPlace
  <2>7. CASE row < NRows /\ row' = row + 1 /\ pc' = "bind"
    BY <2>1, <2>6, <2>7, SizeAssumption DEF RowsBehind, Rows
  <2>8. CASE row = NRows /\ pc' = "publish"
    BY <2>1, <2>6, <2>8, SizeAssumption DEF RowsBehind, Rows
  <2> QED BY <1>3, <2>7, <2>8 DEF Check
<1>4. ASSUME ~Preflight, ~Check, pc' \in Mounting
      PROVE  RowsBehind'
  <2>1. /\ pc \in Mounting /\ row' = row
        /\ pc' \in {"publish", "commit"} => pc \in {"publish", "commit"}
    BY <1>4, MountingKeepsRow
  <2>2. ASSUME NEW r \in Rows, r < row \/ pc \in {"publish", "commit"}
        PROVE  SameOwned(r)
    <3>1. CASE Bind
      <4>1. row \in Rows /\ journal.plan \in Plans /\ r # row
        BY <1>1, <2>2, <3>1 DEF Bind, IInv, JournalProgress, PlanHeld, Mounting, Looping,
           TypeOK, KernelOK, Rows
      <4>2. stack'[r] = stack[r]
        <5>1. CASE UNCHANGED stack
          BY <5>1
        <5>2. ASSUME NEW id \in Ids,
                     Push(row, [id |-> id, content |-> journal.plan, ro |-> FALSE])
              PROVE  stack'[r] = stack[r]
          BY <1>1, <4>1, <5>2 DEF Push, Stacks
        <5> QED BY <3>1, <5>1, <5>2 DEF Bind
      <4> QED BY <4>2 DEF SameOwned
    <3>2. ~DisownUmount /\ ~RollbackUmount /\ ~Reboot
      BY <1>4 DEF DisownUmount, RollbackUmount, Reboot, Return, Rollback, Mounting, Looping
    <3>3. CASE Remount
      <4>1. r # row
        BY <1>1, <2>2, <3>3 DEF Remount, Looping
      <4> QED BY <3>3, <4>1, RemountKeeps DEF SameOwned
    <3>4. CASE ForeignMount \/ ForeignUmount
      BY <1>1, <3>4, ForeignSparesOwned
    <3>5. CASE Replan \/ UNCHANGED <<boot, stack, plan, masked>>
      BY <3>5 DEF Replan, SameOwned
    <3> QED BY <3>1, <3>2, <3>3, <3>4, <3>5, KernelChange
  <2>3. ASSUME NEW r \in Rows, r < row \/ pc \in {"publish", "commit"}
        PROVE  journal'.plan = journal.plan /\ journal'.rows[r] = journal.rows[r]
    <3>1. CASE Record
      <4>1. CASE UNCHANGED journal
        BY <4>1
      <4>2. CASE journal' = [journal EXCEPT !.rows =
                              Append(@, [pre |-> pre[row], created |-> created])]
        <5>1. /\ r < row /\ row \in 1..NRows /\ Len(journal.rows) = row - 1
              /\ pre[row] \in Ids \cup {BaseId} /\ created \in Ids
          BY <1>1, <2>3, <3>1 DEF Record, IInv, JournalProgress, Looping
        <5>2. r \in 1..Len(journal.rows)
          BY <5>1 DEF Rows
        <5>3. [pre |-> pre[row], created |-> created] \in JournalRow
          BY <5>1 DEF JournalRow
        <5>4. journal.rows \in Seq(JournalRow)
          BY <1>1 DEF JournalFile
        <5>5. Append(journal.rows, [pre |-> pre[row], created |-> created])[r] = journal.rows[r]
          BY <5>2, <5>3, <5>4, AppendProperties
        <5> QED BY <1>1, <4>2, <5>5 DEF JournalFile
      <4> QED BY <3>1, <4>1, <4>2 DEF Record
    <3>2. CASE PreflightFails \/ Publish \/ Commit \/ ApplyFails \/ UnlinkActive \/
               UnlinkCommit \/ BootComplete
      BY <3>2 DEF PreflightFails, Publish, Commit, ApplyFails, UnlinkActive, UnlinkCommit,
         BootComplete
    <3>3. ~Allocate
      BY <1>4 DEF Allocate, Return, Mounting, Looping
    <3> QED BY <1>4, <3>1, <3>2, <3>3, FilesChange
  <2> QED BY <1>1, <2>1, <2>2, <2>3, InPlaceKept DEF RowsBehind
<1> QED BY <1>2, <1>3, <1>4 DEF RowsBehind

-----------------------------------------------------------------------------
\* An apply that succeeded

\* The two ways in which a running apply returns success.
LEMMA AppliedFrom ==
    ASSUME RunningHasNoResult, [Next]_vars, op = "apply", pc # "idle", rc' = "ok"
    PROVE  ApplyAlreadyActive \/ Commit
<1>1. rc = "none"
  BY DEF RunningHasNoResult
<1>2. ~(ApplyPointersClear \/ ApplyInconsistent \/ Allocate \/ Preflight \/
        PreflightFails \/ Bind \/ Identify \/ IdentifyFails \/ Record \/ Disown \/
        DisownRefused \/ DisownUmount \/ Remount \/ Check \/ CheckFails \/ Publish)
  BY <1>1 DEF ApplyPointersClear, ApplyInconsistent, Allocate, Preflight, PreflightFails,
     Bind, Identify, IdentifyFails, Record, Disown, DisownRefused, DisownUmount, Remount,
     Check, CheckFails, Publish, Return
<1>3. ~(RollbackCheck \/ RollbackRowFails \/ RollbackUmount \/ RollbackVerify \/
        ApplyFails \/ ApplyUnpublished \/ UnlinkActive \/ UnlinkCommit)
  BY <1>1 DEF RollbackCheck, RollbackRowFails, RollbackUmount, RollbackVerify, ApplyFails,
     ApplyUnpublished, UnlinkActive, UnlinkCommit, Return
<1>4. ~DetachRolledBack
  BY <1>1 DEF DetachRolledBack, Return
<1>5. ~DetachStep
  BY DEF DetachStep, DetachRefused, DetachNothing, DetachStale, DetachActive,
     DetachOrphanCommit, RunningHasNoResult
<1>6. ~Command
  BY DEF Command, ApplyRefused, ApplyBegin, DetachBegin, BootComplete, Begin
<1>7. ~Environment /\ ~UNCHANGED vars
  BY <1>1 DEF Environment, RecoveryOn, RecoveryOff, ForeignMount, ForeignUmount, Kill,
     Reboot, Replan, Begin, Return, vars
<1> QED BY <1>2, <1>3, <1>4, <1>5, <1>6, <1>7
        DEF Next, CommandStep, ApplyStep, RollbackStep

\* Success reported by apply means every row of the installed plan in place.
LEMMA AppliedStep ==
    ASSUME IInv, [Next]_vars, op = "apply", pc # "idle", rc' = "ok"
    PROVE  journal.plan = plan /\ \A r \in Rows : r \in DOMAIN journal.rows /\ InPlace(r)
<1>1. TypeOK /\ KernelOK /\ journal \in JournalFile
  BY DEF IInv, TypeOK, FilesOK
<1>2. CASE ApplyAlreadyActive
  <2>1. /\ commit # NoCommit /\ commit.plan = plan
        /\ activeJournal # NoTx
        /\ \A k \in DOMAIN journal.rows :
              Visible(k) = [id |-> journal.rows[k].created, content |-> journal.plan,
                            ro |-> TRUE]
    BY <1>2 DEF ApplyAlreadyActive, VerifyActive, CommitLoads
  <2>2. Len(journal.rows) = NRows /\ journal.plan = plan
    BY <2>1 DEF IInv, CommitDescribesJournal
  <2>3. journal.rows \in Seq(JournalRow)
    BY <1>1 DEF JournalFile
  <2>4. DOMAIN journal.rows = Rows
    BY <2>2, <2>3, LenProperties DEF Rows
  <2>5. ASSUME NEW r \in Rows
        PROVE  InPlace(r)
    <3>1. journal.rows[r] \in JournalRow
      BY <2>3, <2>4
    <3> QED BY <1>1, <2>1, <2>4, <3>1, VisibleInPlace DEF JournalRow
  <2> QED BY <2>2, <2>4, <2>5
<1>3. CASE Commit
  <2>1. pc = "commit"
    BY <1>3 DEF Commit
  <2>2. Len(journal.rows) = NRows /\ journal.plan = plan /\ \A r \in Rows : InPlace(r)
    BY <2>1 DEF IInv, JournalProgress, PlanHeld, RowsBehind, Mounting
  <2>3. DOMAIN journal.rows = Rows
    BY <1>1, <2>2, LenProperties DEF Rows, JournalFile
  <2> QED BY <2>2, <2>3
<1> QED BY <1>2, <1>3, AppliedFrom DEF IInv

-----------------------------------------------------------------------------
\* The invariant

\* Before anything is mounted or recorded.
LEMMA InitHolds ==
    Init => IInv
<1> SUFFICES ASSUME Init
             PROVE  IInv
  OBVIOUS
<1>1. KernelOK
  <2>1. [r \in Rows |-> <<>>] \in Stacks
    BY EmptySeq DEF Stacks
  <2> QED BY <2>1 DEF Init, KernelOK
<1>2. FilesOK
  <2>1. NoJournal \in JournalFile
    BY EmptySeq DEF NoJournal, JournalFile, NoTx, TxId
  <2> QED BY <2>1 DEF Init, FilesOK, NoCommit, NoTx, CommitFile, TxId
<1>3. CommandOK
  BY SizeAssumption DEF Init, CommandOK, PcValues, PreIds
<1>4. FlagsOK
  BY Zenon DEF Init, FlagsOK
<1>5. Len(journal.rows) = 0
  BY EmptySeq DEF Init, NoJournal
<1>6. RunningHasNoResult /\ PlanHeld /\ PointersKnown /\ RowsAhead /\ RowsBehind
  BY DEF Init, RunningHasNoResult, PlanHeld, PointersKnown, RowsAhead, Ahead, RowsBehind,
     Mounting, Looping
<1>7. JournalProgress
  BY <1>5, SizeAssumption DEF Init, JournalProgress, Looping
<1>8. CommitDescribesJournal /\ NoStacking /\ Uncovered
  BY DEF Init, CommitDescribesJournal, NoStacking, Uncovered
<1> QED BY <1>1, <1>2, <1>3, <1>4, <1>6, <1>7, <1>8 DEF IInv, TypeOK

\* Every step of the engine or around it.
LEMMA NextHolds ==
    IInv /\ [Next]_vars => IInv'
<1> SUFFICES ASSUME IInv, [Next]_vars
             PROVE  IInv'
  OBVIOUS
<1>1. TypeOK'
  BY TypeStep
<1>2. RunningHasNoResult' /\ PointersKnown'
  BY ResultStep, PointersStep DEF IInv
<1>3. JournalProgress'
  BY <1>1, JournalProgressStep
<1>4. PlanHeld' /\ CommitDescribesJournal'
  BY PlanStep, CommitStep
<1>5. NoStacking' /\ Uncovered' /\ RowsAhead' /\ RowsBehind'
  BY StackingStep, UncoveredStep, AheadStep, BehindStep
<1> QED BY <1>1, <1>2, <1>3, <1>4, <1>5 DEF IInv

\* The inductive invariant holds in every behaviour of the engine.
THEOREM Invariance == Spec => []IInv
BY InitHolds, NextHolds, PTL DEF Spec

\* Type correctness: in particular every journal, commit and stack the engine
\* builds is one that fl_load_commit and fl_load_active_journal can read back.
THEOREM TypeCorrect == Spec => []TypeOK
<1>1. IInv => TypeOK
  BY DEF IInv
<1> QED BY <1>1, Invariance, PTL

\* Whatever is killed, rolled back or rebooted, a target carries two layers of ours
\* only after another mounter has laid the unmodified file over the first: apply
\* binds only where preflight found the baseline's content.  Nothing is assumed
\* of what other mounters put on a target.
THEOREM NeverStacked == Spec => []NoStacking
<1>1. IInv => NoStacking
  BY DEF IInv
<1> QED BY <1>1, Invariance, PTL

\* An apply that returns success has every row of the installed plan mounted,
\* read-only and with the planned content, whether it mounted or verified them.
THEOREM AppliedInPlace == Spec => AppliedMeansInPlace
<1>1. IInv /\ [Next]_vars =>
          [op = "apply" /\ pc # "idle" /\ rc' = "ok" =>
              /\ journal.plan = plan
              /\ \A r \in Rows : r \in DOMAIN journal.rows /\ InPlace(r)]_vars
  BY AppliedStep
<1> QED BY <1>1, Invariance, PTL DEF Spec, AppliedMeansInPlace

\* A commit marker and an active-journal pointer that are both present name the
\* same transaction and the same plan, and its journal has a row per target.
THEOREM CommitMatchesJournal == Spec => []CommitDescribesJournal
<1>1. IInv => CommitDescribesJournal
  BY DEF IInv
<1> QED BY <1>1, Invariance, PTL

-----------------------------------------------------------------------------
\* Whose layer a call acts on

\* A layer of ours with that id is on row r.
Holds(r, id) == \E i \in DOMAIN stack[r] : Owned(stack[r][i]) /\ stack[r][i].id = id

\* The layer the journal names for row r is there.
Recorded(r) == r \in DOMAIN journal.rows /\ Holds(r, journal.rows[r].created)

\* No two layers of a target have one id: ids come back only when they are free.
UniqueIds ==
    \A r \in Rows : \A i, j \in DOMAIN stack[r] :
        stack[r][i].id = stack[r][j].id => i = j

\* The id taken for the new layer's is the new layer's.
BoundIsOurs ==
    /\ pc = "identify" => Owned(Visible(row))
    /\ pc \in {"record", "disown", "disown-umount", "remount", "check"} =>
          Holds(row, created)

\* The layer that the next call unmounts or remounts is ours.
OnTop ==
    /\ pc = "disown-umount" \/ (pc = "umount" /\ op = "apply") => Owned(Visible(row))
    /\ pc \in {"record", "remount"} /\ "remount" \notin Windows => Owned(Visible(row))

\* An apply's rollback finds every layer it journalled, down to the row it is at.
RowsUndone ==
    op = "apply" =>
        /\ pc \in {"rollback", "umount"} => \A r \in 1..row : Recorded(r)
        /\ pc = "restored" => \A r \in 1..(row - 1) : Recorded(r)

Known == UniqueIds /\ BoundIsOurs /\ OnTop /\ RowsUndone

\* Other mounters stay out between a bind and the read of the new id, and
\* between a check and the umount it guards.
Closed == "identify" \notin Windows /\ "umount" \notin Windows

\* Row r has the same layers of ours, under the same ids, after the step.
SameHeld(r) ==
    /\ HasOwned(r)' <=> HasOwned(r)
    /\ \A id : Holds(r, id)' <=> Holds(r, id)

\* A step of others that leaves the command where it is.
Bystander ==
    \/ RecoveryOn /\ pc # "idle"
    \/ RecoveryOff \/ ForeignMount \/ ForeignUmount \/ Replan
    \/ UNCHANGED vars

\* What it leaves alone.
LEMMA BystanderFacts ==
    ASSUME Bystander
    PROVE  /\ pc' = pc /\ op' = op /\ rc' = rc /\ row' = row /\ created' = created
           /\ clean' = clean /\ undo' = undo /\ boot' = boot
           /\ UNCHANGED <<commit, activeJournal, journal>>
           /\ ForeignMount \/ ForeignUmount \/ UNCHANGED stack
BY DEF Bystander, RecoveryOn, RecoveryOff, ForeignMount, ForeignUmount, Replan, Begin, vars,
   kernel, files, pointers, locals

\* The calls that lead to a call of the row loop after the bind.
LEMMA LoopCalls ==
    ASSUME [Next]_vars, pc' \in Looping \ {"bind"}
    PROVE  Bystander \/ Bind \/ Identify \/ Record \/ Disown \/ Remount
<1>1. ~ApplyStep \/ Bind \/ Identify \/ Record \/ Disown \/ Remount
  <2>1. ~(ApplyPointersClear \/ ApplyAlreadyActive \/ ApplyInconsistent \/ Allocate \/
          Preflight \/ PreflightFails \/ IdentifyFails)
    BY DEF Looping, ApplyPointersClear, ApplyAlreadyActive, ApplyInconsistent, Allocate,
       Preflight, PreflightFails, IdentifyFails, Rollback, Return
  <2>2. ~(DisownRefused \/ DisownUmount \/ Check \/ CheckFails \/ Publish \/ Commit)
    BY DEF Looping, DisownRefused, DisownUmount, Check, CheckFails, Publish, Commit,
       Rollback, Return
  <2> QED BY <2>1, <2>2 DEF ApplyStep
<1>2. ~RollbackStep
  BY DEF Looping, RollbackStep, RollbackCheck, RollbackRowFails, RollbackUmount, RollbackVerify,
     ApplyFails, ApplyUnpublished, DetachRolledBack, UnlinkActive, UnlinkCommit, Return
<1>3. ~DetachStep /\ ~Command
  BY DEF Looping, DetachStep, DetachRefused, DetachNothing, DetachStale, DetachOrphanCommit,
     DetachActive, Command, ApplyRefused, ApplyBegin, DetachBegin, BootComplete, Begin,
     Rollback, Return
<1>4. Environment => Bystander
  BY DEF Looping, Environment, Bystander, RecoveryOn, Kill, Reboot, Begin, Return
<1> QED BY <1>1, <1>2, <1>3, <1>4 DEF Next, CommandStep, Bystander

\* A call that fails and starts the rollback of the rows journalled so far, or
\* fails to.
Entering ==
    /\ pc \in {"bind", "identify", "disown", "disown-umount", "remount", "check", "publish",
               "commit", "detach"}
    /\ \/ pc' = "rollback" /\ row' = Len(journal.rows) /\ clean' = TRUE
       \/ pc' = "unreversed" /\ row' = 0 /\ clean' = FALSE /\ "reverse" \in Faults
    /\ op' = op
    /\ undo' = "detach" <=> pc = "detach"
    /\ UNCHANGED journal
    /\ UNCHANGED stack \/ DisownUmount
    /\ pc \in {"identify", "disown", "disown-umount"} => RaiseRecovery \/ DisownUmount

\* The calls that lead to a call of the rollback.
LEMMA RollbackCalls ==
    ASSUME [Next]_vars, pc' \in {"rollback", "unreversed", "umount", "restored"}
    PROVE  \/ Bystander \/ Entering
           \/ RollbackCheck \/ RollbackRowFails \/ RollbackUmount \/ RollbackVerify
<1>1. Bind \/ IdentifyFails \/ DisownRefused => Entering
  BY DEF Entering, Bind, IdentifyFails, DisownRefused, Rollback, kernel, files
<1>2. DisownUmount \/ Remount => Entering
  BY DEF Entering, DisownUmount, Remount, Rollback, files
<1>3. CheckFails \/ Publish \/ Commit \/ DetachActive => Entering
  BY DEF Entering, CheckFails, Publish, Commit, DetachActive, Rollback, Return, kernel, files
<1>4. ~(ApplyPointersClear \/ ApplyAlreadyActive \/ ApplyInconsistent \/ Allocate \/
        Preflight \/ PreflightFails \/ Identify \/ Record \/ Disown \/ Check)
  BY DEF ApplyPointersClear, ApplyAlreadyActive, ApplyInconsistent, Allocate, Preflight,
     PreflightFails, Identify, Record, Disown, Check, Return
<1>5. ~(ApplyFails \/ ApplyUnpublished \/ DetachRolledBack \/ UnlinkActive \/ UnlinkCommit)
  BY DEF ApplyFails, ApplyUnpublished, DetachRolledBack, UnlinkActive, UnlinkCommit, Return
<1>6. ~(DetachRefused \/ DetachNothing \/ DetachStale \/ DetachOrphanCommit) /\ ~Command
  BY DEF DetachRefused, DetachNothing, DetachStale, DetachOrphanCommit,
     Command, ApplyRefused, ApplyBegin, DetachBegin, BootComplete, Begin, Return
<1>7. Environment => Bystander
  BY DEF Environment, Bystander, RecoveryOn, Kill, Reboot, Begin, Return
<1> QED
  BY <1>1, <1>2, <1>3, <1>4, <1>5, <1>6, <1>7
  DEF Next, CommandStep, ApplyStep, RollbackStep, DetachStep, Bystander

-----------------------------------------------------------------------------
\* What a step does to our layers

\* Only the calls of the command, and a reboot, change which layers of ours there are.
LEMMA HeldKept ==
    ASSUME IInv, [Next]_vars, NEW r \in Rows,
           ~Bind, ~DisownUmount, ~RollbackUmount, ~Reboot
    PROVE  SameHeld(r)
<1>1. CASE Remount
  <2>1. /\ DOMAIN stack'[r] = DOMAIN stack[r]
        /\ \A i \in DOMAIN stack[r] : /\ Owned(stack'[r][i]) <=> Owned(stack[r][i])
                                     /\ stack'[r][i].id = stack[r][i].id
    BY <1>1, RemountKeeps
  <2> QED BY <2>1 DEF SameHeld, HasOwned, Holds, Owned
<1>2. CASE ForeignMount \/ ForeignUmount
  <2>1. SameOwned(r)
    BY <1>2, ForeignSparesOwned DEF IInv
  <2> QED BY <2>1 DEF SameOwned, SameHeld, HasOwned, Holds, Owned
<1>3. CASE Replan \/ UNCHANGED <<boot, stack, plan, masked>>
  <2>1. UNCHANGED stack
    BY <1>3 DEF Replan
  <2> QED BY <2>1 DEF SameHeld, HasOwned, Holds
<1> QED BY <1>1, <1>2, <1>3, KernelChange

\* A bind or an umount of one row leaves the others as they are.
LEMMA OtherRows ==
    ASSUME KernelOK, NEW r \in Rows, Pop(r) \/ (\E layer : Push(r, layer)), NEW q \in Rows, q # r
    PROVE  stack'[q] = stack[q]
BY DEF KernelOK, Stacks, Pop, Push

\* A row that is as it was has the layers of ours that it had.
LEMMA RowKept ==
    ASSUME NEW r, stack'[r] = stack[r]
    PROVE  SameHeld(r)
BY DEF SameHeld, HasOwned, Holds

\* What is on top of a row that shows a layer of ours.
LEMMA TopFacts ==
    ASSUME KernelOK, NEW r \in Rows, Owned(Visible(r))
    PROVE  /\ stack[r] # <<>>
           /\ Len(stack[r]) \in DOMAIN stack[r]
           /\ Visible(r) = stack[r][Len(stack[r])]
<1>1. Baseline \notin Plans
  BY ContentAssumption
<1>2. stack[r] # <<>>
  BY <1>1 DEF Owned, Visible
<1> QED BY <1>2, VisibleFacts

\* A visible layer of ours is one the row holds.
LEMMA TopHeld ==
    ASSUME KernelOK, NEW r \in Rows, Owned(Visible(r))
    PROVE  Holds(r, Visible(r).id)
BY TopFacts DEF Holds

\* The visible layer is ours if it has the id of a layer of ours on the row.
LEMMA HeldOnTop ==
    ASSUME KernelOK, UniqueIds, NEW r \in Rows, Holds(r, Visible(r).id)
    PROVE  Owned(Visible(r))
<1>1. PICK i \in DOMAIN stack[r] : Owned(stack[r][i]) /\ stack[r][i].id = Visible(r).id
  BY DEF Holds
<1>2. stack[r] # <<>>
  BY <1>1, EmptySeq
<1>3. Visible(r) = stack[r][Len(stack[r])] /\ Len(stack[r]) \in DOMAIN stack[r]
  BY <1>2, VisibleFacts
<1> QED BY <1>1, <1>3 DEF UniqueIds

\* An umount of a visible layer of ours leaves none on the row.
LEMMA PopTop ==
    ASSUME KernelOK, NEW r \in Rows, Single(r), Owned(Visible(r)), Pop(r)
    PROVE  ~HasOwned(r)'
<1>1. Len(stack[r]) \in DOMAIN stack[r] /\ Owned(stack[r][Len(stack[r])])
  BY TopFacts
<1>2. /\ Len(stack[r]) \in Nat \ {0}
      /\ DOMAIN stack[r] = 1..Len(stack[r])
      /\ DOMAIN stack'[r] = 1..(Len(stack[r]) - 1)
      /\ \A i \in 1..(Len(stack[r]) - 1) : stack'[r][i] = stack[r][i]
  BY PopFacts DEF KernelOK
<1>3. ASSUME NEW i \in DOMAIN stack'[r], Owned(stack'[r][i])
      PROVE  FALSE
  <2>1. i \in DOMAIN stack[r] /\ Owned(stack[r][i]) /\ i # Len(stack[r])
    BY <1>2, <1>3
  <2> QED BY <1>1, <2>1 DEF Single
<1> QED BY <1>3 DEF HasOwned

\* Other mounters do not touch a row that shows a layer of ours while they are kept out.
LEMMA ShieldedRow ==
    ASSUME KernelOK, row \in Rows, Owned(Visible(row)), Shielded(row),
           ForeignMount \/ ForeignUmount
    PROVE  stack'[row] = stack[row]
<1>1. CASE ForeignMount
  <2>1. PICK r \in Rows : ~Shielded(r) /\ \E layer : Push(r, layer)
    BY <1>1 DEF ForeignMount
  <2> QED BY <2>1, OtherRows
<1>2. CASE ForeignUmount
  BY <1>2, OtherRows DEF ForeignUmount
<1> QED BY <1>1, <1>2

\* Ids stay unique: every new layer gets an id that no mounted one has.
LEMMA UniqueStep ==
    ASSUME IInv, UniqueIds, [Next]_vars
    PROVE  UniqueIds'
<1>1. KernelOK /\ stack \in Stacks
  BY DEF IInv, TypeOK, KernelOK
<1>2. ASSUME NEW r \in Rows, Pop(r)
      PROVE  UniqueIds'
  BY <1>1, <1>2, PopKeeps DEF UniqueIds
<1>3. ASSUME NEW r \in Rows, NEW layer \in Layer, layer.id \notin IdsInUse, Push(r, layer)
      PROVE  UniqueIds'
  <2>1. /\ \A q \in Rows \ {r} : stack'[q] = stack[q]
        /\ Len(stack[r]) \in Nat
        /\ DOMAIN stack[r] = 1..Len(stack[r])
        /\ DOMAIN stack'[r] = 1..(Len(stack[r]) + 1)
        /\ \A i \in 1..Len(stack[r]) : stack'[r][i] = stack[r][i]
        /\ stack'[r][Len(stack[r]) + 1] = layer
    BY <1>1, <1>3, PushFacts
  <2>2. \A i \in 1..Len(stack[r]) : stack[r][i].id # layer.id
    BY <1>3, <2>1 DEF IdsInUse
  <2>3. \A i, j \in DOMAIN stack'[r] : stack'[r][i].id = stack'[r][j].id => i = j
    BY <2>1, <2>2 DEF UniqueIds
  <2> QED BY <2>1, <2>3 DEF UniqueIds
<1>4. CASE Bind
  <2>1. row \in Rows /\ journal.plan \in Plans
    BY <1>1, <1>4 DEF Bind, IInv, JournalProgress, PlanHeld, Mounting, Looping, KernelOK
  <2>2. CASE UNCHANGED stack
    BY <2>2 DEF UniqueIds
  <2>3. ASSUME NEW id \in Ids \ IdsInUse,
               Push(row, [id |-> id, content |-> journal.plan, ro |-> FALSE])
        PROVE  UniqueIds'
    <3>1. [id |-> id, content |-> journal.plan, ro |-> FALSE] \in Layer
      BY <2>1 DEF Layer, Contents
    <3> QED BY <1>3, <2>1, <2>3, <3>1
  <2> QED BY <1>4, <2>2, <2>3 DEF Bind
<1>5. CASE ForeignMount
  <2>1. PICK r \in Rows, id \in Ids \ IdsInUse, content \in Others, ro \in BOOLEAN :
            Push(r, [id |-> id, content |-> content, ro |-> ro])
    BY <1>5 DEF ForeignMount
  <2>2. [id |-> id, content |-> content, ro |-> ro] \in Layer
    BY DEF Layer, Contents
  <2> QED BY <1>3, <2>1, <2>2
<1>6. CASE ForeignUmount
  BY <1>2, <1>6 DEF ForeignUmount
<1>7. CASE DisownUmount
  BY <1>2, <1>7 DEF DisownUmount, IInv, JournalProgress, Looping
<1>8. CASE RollbackUmount
  <2>1. row \in Rows
    BY <1>8, SizeAssumption DEF RollbackUmount, IInv, JournalProgress, Rows, TypeOK,
       FilesOK, JournalFile, CommandOK
  <2> QED BY <1>2, <1>8, <2>1 DEF RollbackUmount
<1>9. CASE Remount
  BY <1>9, RemountKeeps DEF UniqueIds
<1>10. CASE Reboot
  BY <1>10 DEF Reboot, UniqueIds
<1>11. CASE Replan \/ UNCHANGED <<boot, stack, plan, masked>>
  BY <1>11 DEF Replan, UniqueIds
<1> QED
  BY <1>4, <1>5, <1>6, <1>7, <1>8, <1>9, <1>10, <1>11, KernelChange

\* What a call that reads or changes the visible layer works on.
LEMMA LoopTypes ==
    ASSUME IInv
    PROVE  /\ TypeOK /\ KernelOK
           /\ journal \in JournalFile
           /\ row \in 0..NRows
           /\ pc \in Looping => row \in Rows
           /\ pc \in {"umount", "restored"} => row \in Rows
           /\ pc = "rollback" => row \in 0..Len(journal.rows)
           /\ pc = "rollback" /\ row > 0 => row \in Rows
BY SizeAssumption
DEF IInv, TypeOK, FilesOK, CommandOK, JournalProgress, JournalFile, Rows, Looping

\* The new layer's id is known as soon as it is read, and stays that layer's.
LEMMA BoundStep ==
    ASSUME Closed, IInv, Known, [Next]_vars
    PROVE  BoundIsOurs'
<1>1. KernelOK /\ (pc \in Looping => row \in Rows)
  BY LoopTypes
<1>2. CASE Bind
  <2>1. CASE pc' \in {"rollback", "unreversed"}
    BY <2>1 DEF BoundIsOurs
  <2>2. ASSUME NEW id \in Ids,
               Push(row, [id |-> id, content |-> journal.plan, ro |-> FALSE]),
               pc' = "identify", row' = row
        PROVE  BoundIsOurs'
    <3> DEFINE layer == [id |-> id, content |-> journal.plan, ro |-> FALSE]
    <3>1. row \in Rows /\ journal.plan \in Plans
      BY <1>1, <1>2 DEF Bind, IInv, PlanHeld, Mounting, Looping, KernelOK
    <3>2. stack[row] \in Seq(Layer) /\ stack'[row] = Append(stack[row], layer)
      BY <1>1, <2>2, <3>1 DEF Push, KernelOK, Stacks
    <3>3. stack'[row] # <<>> /\ stack'[row][Len(stack'[row])] = layer
      <4>1. layer \in Layer
        BY <3>1 DEF Layer, Contents
      <4> HIDE DEF layer
      <4> QED BY <3>2, <4>1
    <3>4. Visible(row)' = layer
      BY <2>2, <3>3 DEF Visible, Last
    <3> QED BY <2>2, <3>1, <3>4 DEF BoundIsOurs, Owned
  <2> QED BY <1>2, <2>1, <2>2 DEF Bind, Rollback
<1>3. CASE Identify
  <2>1. /\ pc = "identify" /\ pc' = "record" /\ row' = row /\ created' = Visible(row).id
        /\ stack' = stack
    BY <1>3 DEF Identify, kernel
  <2>2. Holds(row, created')
    BY <1>1, <2>1, TopHeld DEF Known, BoundIsOurs, Looping
  <2> QED BY <2>1, <2>2 DEF BoundIsOurs, Holds
<1>4. CASE Record \/ Disown \/ Remount
  <2>1. pc \in {"record", "disown", "remount"} /\ row \in Rows /\ pc' # "identify"
    BY <1>1, <1>4 DEF Record, Disown, Remount, Rollback, Looping
  <2>6. ~Bind /\ ~DisownUmount /\ ~RollbackUmount /\ ~Reboot
    <3>1. pc' # "idle"
      BY <1>4 DEF Record, Disown, Remount, Rollback
    <3> QED BY <2>1, <3>1 DEF Bind, DisownUmount, RollbackUmount, Reboot, Return
  <2>2. pc' \in {"rollback", "unreversed"} \/ (row' = row /\ created' = created)
    BY <1>4 DEF Record, Disown, Remount, Rollback, locals
  <2>3. SameHeld(row) /\ Holds(row, created)
    BY <2>1, <2>6, HeldKept DEF Known, BoundIsOurs
  <2>4. CASE pc' \in {"rollback", "unreversed"}
    BY <2>4 DEF BoundIsOurs
  <2>5. CASE row' = row /\ created' = created
    <3>1. Holds(row, created)'
      BY <2>3, <2>5 DEF SameHeld, Holds
    <3> QED BY <2>1, <3>1 DEF BoundIsOurs
  <2> QED BY <2>2, <2>4, <2>5
<1>5. CASE Bystander /\ pc \in Looping \ {"bind"}
  <2>1. /\ pc' = pc /\ row' = row /\ created' = created
        /\ ForeignMount \/ ForeignUmount \/ UNCHANGED stack
    BY <1>5, BystanderFacts
  <2>2. CASE pc = "identify"
    <3>1. Owned(Visible(row)) /\ row \in Rows /\ Shielded(row)
      BY <1>1, <2>2 DEF Known, BoundIsOurs, Looping, Shielded, Closed
    <3>2. stack'[row] = stack[row]
      BY <1>1, <2>1, <3>1, ShieldedRow
    <3> QED BY <2>1, <2>2, <3>1, <3>2 DEF BoundIsOurs, Visible, Owned
  <2>3. CASE pc # "identify"
    <3>1. Holds(row, created) /\ row \in Rows
      BY <1>1, <1>5, <2>3 DEF Known, BoundIsOurs, Looping
    <3>2. SameHeld(row)
      BY <1>5, <2>1, <3>1, HeldKept DEF Bind, DisownUmount, RollbackUmount, Reboot, Return,
         Rollback, Looping
    <3>3. Holds(row, created)'
      BY <2>1, <3>1, <3>2 DEF SameHeld, Holds
    <3> QED BY <2>1, <2>3, <3>3 DEF BoundIsOurs
  <2> QED BY <2>2, <2>3
<1>6. CASE pc' \notin Looping \ {"bind"}
  BY <1>6 DEF BoundIsOurs, Looping
<1>7. Bystander /\ pc' \in Looping \ {"bind"} => pc \in Looping \ {"bind"}
  BY BystanderFacts
<1> QED BY <1>2, <1>3, <1>4, <1>5, <1>6, <1>7, LoopCalls

\* A layer checked to be the one to unmount or remount stays on top until it is.
LEMMA OnTopStep ==
    ASSUME Closed, IInv, Known, [Next]_vars
    PROVE  OnTop'
<1> DEFINE watched == \/ pc = "disown-umount"
                      \/ pc = "umount" /\ op = "apply"
                      \/ pc \in {"record", "remount"} /\ "remount" \notin Windows
<1>1. KernelOK /\ UniqueIds /\ (pc \in Looping => row \in Rows)
      /\ (pc = "umount" => row \in Rows) /\ (pc = "rollback" /\ row > 0 => row \in Rows)
  BY LoopTypes DEF Known
<1>2. OnTop' <=> (watched' => Owned(Visible(row))')
  BY DEF OnTop
<1>3. ASSUME UNCHANGED stack, row' = row, Owned(Visible(row))
      PROVE  OnTop'
  BY <1>3 DEF OnTop, Visible, Owned
<1>4. CASE Identify
  <2>1. UNCHANGED stack /\ row' = row /\ Owned(Visible(row))
    BY <1>4 DEF Identify, kernel, Known, BoundIsOurs
  <2> QED BY <1>3, <2>1
<1>5. CASE Disown
  <2>1. UNCHANGED stack /\ row' = row /\ row \in Rows /\ Visible(row).id = created
        /\ Holds(row, created)
    BY <1>1, <1>5 DEF Disown, kernel, locals, Known, BoundIsOurs, Looping
  <2> QED BY <1>1, <1>3, <2>1, HeldOnTop
<1>6. CASE RollbackCheck
  <2>1. /\ pc = "rollback" /\ pc' = "umount" /\ op' = op /\ row > 0 /\ row' = row /\ UNCHANGED stack
        /\ Visible(row).id = journal.rows[row].created
    BY <1>6 DEF RollbackCheck, kernel, locals
  <2>2. CASE op = "apply"
    <3>1. row \in 1..row
      BY <1>1, <2>1 DEF Rows
    <3>2. Holds(row, Visible(row).id)
      BY <2>1, <2>2, <3>1 DEF Known, RowsUndone, Recorded
    <3> QED BY <1>1, <1>3, <2>1, <3>2, HeldOnTop
  <2>3. CASE op # "apply"
    BY <1>2, <2>1, <2>3
  <2> QED BY <2>2, <2>3
<1>7. CASE Record /\ pc' = "remount"
  <2>1. UNCHANGED stack /\ row' = row /\ pc = "record"
    BY <1>7 DEF Record, kernel, locals
  <2>2. CASE "remount" \notin Windows
    BY <1>3, <2>1, <2>2 DEF Known, OnTop
  <2>3. CASE "remount" \in Windows
    BY <1>2, <1>7, <2>3
  <2> QED BY <2>2, <2>3
<1>8. CASE Bystander /\ watched
  <2>1. /\ pc' = pc /\ row' = row /\ op' = op
        /\ ForeignMount \/ ForeignUmount \/ UNCHANGED stack
    BY <1>8, BystanderFacts
  <2>2. Owned(Visible(row)) /\ row \in Rows /\ Shielded(row)
    BY <1>1, <1>8 DEF Known, OnTop, Looping, Shielded, Closed
  <2>3. stack'[row] = stack[row]
    BY <1>1, <2>1, <2>2, ShieldedRow
  <2> QED BY <2>1, <2>2, <2>3 DEF OnTop, Visible, Owned
<1>9. watched' =>
          \/ Identify \/ Disown \/ RollbackCheck \/ (Record /\ pc' = "remount")
          \/ Bystander /\ watched
  <2>1. CASE pc' \in Looping \ {"bind"}
    <3>1. Bind \/ Remount => ~watched'
      BY DEF Bind, Remount, Rollback
    <3>2. Record => pc' = "remount" \/ ~watched'
      BY DEF Record
    <3>3. Bystander /\ watched' => watched
      BY BystanderFacts
    <3> QED BY <2>1, <3>1, <3>2, <3>3, LoopCalls
  <2>2. CASE pc' = "umount"
    <3>1. ~Entering /\ ~RollbackRowFails /\ ~RollbackUmount /\ ~RollbackVerify
      BY <2>2 DEF Entering, RollbackRowFails, RollbackUmount, RollbackVerify
    <3>2. Bystander /\ watched' => watched
      BY BystanderFacts
    <3> QED BY <2>2, <3>1, <3>2, RollbackCalls
  <2>3. CASE pc' \notin Looping /\ pc' # "umount"
    BY <2>3 DEF Looping
  <2>4. pc' = "bind" => ~watched'
    OBVIOUS
  <2> QED BY <2>1, <2>2, <2>3, <2>4
<1> QED BY <1>2, <1>4, <1>5, <1>6, <1>7, <1>8, <1>9

\* Others leave our layers where they are.
LEMMA BystanderHeld ==
    ASSUME IInv, Bystander, NEW r \in Rows
    PROVE  SameHeld(r)
<1>1. CASE ForeignMount \/ ForeignUmount
  <2>1. SameOwned(r)
    BY <1>1, ForeignSparesOwned DEF IInv
  <2> QED BY <2>1 DEF SameOwned, SameHeld, HasOwned, Holds, Owned
<1>2. CASE UNCHANGED stack
  BY <1>2, RowKept
<1> QED BY <1>1, <1>2, BystanderFacts

\* A record of a layer is as good after a step that leaves the row's layers alone.
LEMMA RecordedKept ==
    ASSUME NEW r, SameHeld(r), UNCHANGED journal, Recorded(r)
    PROVE  Recorded(r)'
BY DEF SameHeld, Recorded, Holds

\* Whatever the loop has journalled is there when a row fails.
LEMMA JournalledHeld ==
    ASSUME IInv, BoundIsOurs, pc \in Mounting, NEW r \in 1..Len(journal.rows)
    PROVE  r \in Rows /\ Recorded(r)
<1>1. /\ journal.rows \in Seq(JournalRow) /\ Len(journal.rows) \in Nat
      /\ DOMAIN journal.rows = 1..Len(journal.rows) /\ Len(journal.rows) <= NRows
  BY LoopTypes, LenProperties DEF JournalFile, IInv, JournalProgress
<1>2. r \in Rows /\ r \in DOMAIN journal.rows
  BY <1>1, SizeAssumption DEF Rows
<1>3. journal.plan \in Plans
  BY LoopTypes DEF IInv, PlanHeld, KernelOK
<1>4. ASSUME InPlace(r)
      PROVE  Recorded(r)
  BY <1>2, <1>3, <1>4 DEF InPlace, Recorded, Holds, Owned
<1>5. CASE pc \in {"publish", "commit"}
  BY <1>2, <1>4, <1>5 DEF IInv, RowsBehind
<1>6. CASE pc \in Looping
  <2>1. row \in 1..NRows
    BY <1>6, LoopTypes DEF Rows
  <2>2. CASE r < row
    BY <1>2, <1>4, <2>2 DEF IInv, RowsBehind
  <2>3. CASE r >= row
    <3>1. /\ pc \in {"remount", "check"} /\ r = row
          /\ journal.rows[row].created = created
      BY <1>1, <1>6, <2>1, <2>3 DEF IInv, JournalProgress, Looping
    <3> QED BY <1>2, <3>1 DEF BoundIsOurs, Recorded
  <2> QED BY <1>2, <2>1, <2>2, <2>3 DEF Rows
<1> QED BY <1>2, <1>5, <1>6 DEF Mounting

\* A rollback that apply starts finds the rows it has journalled.
LEMMA EnteringRecorded ==
    ASSUME IInv, BoundIsOurs, Entering, pc # "detach", NEW r \in 1..Len(journal.rows)
    PROVE  Recorded(r)'
<1>1. pc \in Mounting /\ UNCHANGED journal
  BY DEF Entering, Mounting, Looping
<1>2. r \in Rows /\ Recorded(r)
  BY <1>1, JournalledHeld
<1>3. CASE UNCHANGED stack
  BY <1>1, <1>2, <1>3, RowKept, RecordedKept
<1>4. CASE DisownUmount
  <2>1. row \in Rows /\ Pop(row) /\ Len(journal.rows) = row - 1
    BY <1>4, LoopTypes DEF DisownUmount, IInv, JournalProgress, Looping
  <2>2. r # row
    BY <2>1 DEF Rows
  <2> QED BY <1>1, <1>2, <2>1, <2>2, LoopTypes, OtherRows, RowKept, RecordedKept
<1> QED BY <1>3, <1>4 DEF Entering

\* The rollback of an apply loses none of the layers it has still to undo.
LEMMA UndoneStep ==
    ASSUME IInv, Known, [Next]_vars
    PROVE  RowsUndone'
<1>1. /\ KernelOK /\ row \in 0..NRows
      /\ pc \in {"umount", "restored"} => row \in Rows
      /\ pc = "rollback" => row \in 0..Len(journal.rows)
      /\ Len(journal.rows) \in Nat /\ Len(journal.rows) <= NRows
  BY LoopTypes, LenProperties DEF JournalFile, IInv, JournalProgress
<1>2. RowsUndone
  BY DEF Known
<1>3. CASE Bystander
  <2>1. /\ pc' = pc /\ op' = op /\ row' = row /\ UNCHANGED journal
    BY <1>3, BystanderFacts
  <2>2. ASSUME NEW r \in 1..NRows, Recorded(r)
        PROVE  Recorded(r)'
    BY <1>3, <2>1, <2>2, BystanderHeld, RecordedKept DEF Rows
  <2>3. 1..row \subseteq 1..NRows /\ 1..(row - 1) \subseteq 1..NRows
    BY <1>1, SizeAssumption
  <2> QED BY <1>2, <2>1, <2>2, <2>3 DEF RowsUndone
<1>4. CASE Entering /\ op = "apply"
  <2>1. pc # "detach" /\ (pc' = "rollback" => row' = Len(journal.rows)) /\ op' = op
        /\ pc' \in {"rollback", "unreversed"}
    BY <1>4 DEF Entering, IInv, RunningHasNoResult
  <2> QED BY <1>4, <2>1, EnteringRecorded DEF RowsUndone, Known
<1>5. CASE Entering /\ op # "apply"
  BY <1>5 DEF Entering, RowsUndone
<1>6. CASE RollbackCheck \/ RollbackRowFails \/ RollbackVerify
  <2>1. /\ UNCHANGED <<stack, journal>> /\ op' = op
        /\ \/ pc = "rollback" /\ pc' = "umount" /\ row' = row
           \/ pc \in {"rollback", "umount"} /\ pc' = "rollback" /\ row' = row - 1
           \/ pc = "restored" /\ pc' = "rollback" /\ row' = row - 1
    BY <1>6 DEF RollbackCheck, RollbackRowFails, RollbackVerify, kernel, files, locals
  <2>2. ASSUME NEW r, Recorded(r)
        PROVE  Recorded(r)'
    BY <2>1, <2>2, RowKept, RecordedKept
  <2>3. 1..(row - 1) \subseteq 1..row
    BY <1>1
  <2> QED BY <1>2, <2>1, <2>2, <2>3 DEF RowsUndone
<1>7. CASE RollbackUmount
  <2>1. /\ pc = "umount" /\ pc' = "restored" /\ Pop(row) /\ row' = row /\ op' = op
        /\ UNCHANGED journal
    BY <1>7 DEF RollbackUmount, files, locals
  <2>2. ASSUME NEW r \in 1..(row - 1), Recorded(r)
        PROVE  Recorded(r)'
    <3>1. r \in Rows /\ r # row /\ row \in Rows
      BY <1>1, <2>1, SizeAssumption DEF Rows
    <3> QED BY <1>1, <2>1, <2>2, <3>1, OtherRows, RowKept, RecordedKept
  <2>3. 1..(row - 1) \subseteq 1..row
    BY <1>1
  <2> QED BY <1>2, <2>1, <2>2, <2>3 DEF RowsUndone
<1>8. CASE pc' \notin {"rollback", "umount", "restored"}
  BY <1>8 DEF RowsUndone
<1> QED BY <1>3, <1>4, <1>5, <1>6, <1>7, <1>8, RollbackCalls

\* With other mounters kept out of those two windows, Known holds in every state.
LEMMA AlwaysKnown ==
    ASSUME Closed
    PROVE  Spec => []Known
<1>1. Init => Known
  BY DEF Init, Known, UniqueIds, BoundIsOurs, OnTop, RowsUndone
<1>2. IInv /\ Known /\ [Next]_vars => Known'
  BY UniqueStep, BoundStep, OnTopStep, UndoneStep DEF Known
<1> QED BY <1>1, <1>2, Invariance, PTL DEF Spec

\* A call that unmounts a layer of ours keeps those of others.
LEMMA PopOurs ==
    ASSUME KernelOK, NEW r \in Rows, Owned(Visible(r)), Pop(r)
    PROVE  ForeignKept
<1>1. /\ Len(stack[r]) \in Nat \ {0}
      /\ DOMAIN stack[r] = 1..Len(stack[r])
      /\ DOMAIN stack'[r] = 1..(Len(stack[r]) - 1)
      /\ \A i \in 1..(Len(stack[r]) - 1) : stack'[r][i] = stack[r][i]
  BY PopFacts DEF KernelOK
<1>2. Owned(stack[r][Len(stack[r])])
  BY TopFacts
<1>3. \A i \in DOMAIN stack[r] :
          ~Owned(stack[r][i]) => i \in DOMAIN stack'[r] /\ stack'[r][i] = stack[r][i]
  BY <1>1, <1>2
<1> QED BY <1>3, OtherRows DEF ForeignKept

\* The calls of an apply that change what is mounted.
LEMMA ApplySparesStep ==
    ASSUME Windows = {}, IInv, Known, [Next]_vars,
           op = "apply", pc' # pc, boot' = boot
    PROVE  ForeignKept
<1>1. KernelOK /\ (pc \in Looping => row \in Rows) /\ (pc = "umount" => row \in Rows)
  BY LoopTypes
<1>2. CASE Bind
  <2>1. row \in Rows
    BY <1>1, <1>2 DEF Bind, Looping
  <2>2. CASE UNCHANGED stack
    BY <2>2 DEF ForeignKept
  <2>3. ASSUME NEW layer, Push(row, layer)
        PROVE  ForeignKept
    <3>1. stack[row] \in Seq(Layer) /\ stack'[row] = Append(stack[row], layer)
      BY <1>1, <2>1, <2>3 DEF Push, KernelOK, Stacks
    <3>2. \A i \in DOMAIN stack[row] : i \in DOMAIN stack'[row] /\ stack'[row][i] = stack[row][i]
      BY <3>1
    <3> QED BY <1>1, <2>1, <2>3, <3>2, OtherRows DEF ForeignKept
  <2> QED BY <1>2, <2>2, <2>3 DEF Bind
<1>3. CASE DisownUmount
  <2>1. Owned(Visible(row)) /\ Pop(row) /\ row \in Rows
    BY <1>1, <1>3 DEF DisownUmount, Known, OnTop, Looping
  <2> QED BY <1>1, <2>1, PopOurs
<1>4. CASE RollbackUmount
  <2>1. Owned(Visible(row)) /\ Pop(row) /\ row \in Rows
    BY <1>1, <1>4 DEF RollbackUmount, Known, OnTop
  <2> QED BY <1>1, <2>1, PopOurs
<1>5. CASE Remount
  <2>1. row \in Rows /\ Owned(Visible(row))
    BY <1>1, <1>5 DEF Remount, Known, OnTop, Looping
  <2>2. Len(stack[row]) \in DOMAIN stack[row] /\ Owned(stack[row][Len(stack[row])])
    BY <1>1, <2>1, TopFacts
  <2>3. CASE UNCHANGED stack
    BY <2>3 DEF ForeignKept
  <2>4. CASE stack' = [stack EXCEPT ![row] = [@ EXCEPT ![Len(@)].ro = TRUE]]
    <3>1. /\ DOMAIN stack'[row] = DOMAIN stack[row]
          /\ \A i \in DOMAIN stack[row] : i # Len(stack[row]) => stack'[row][i] = stack[row][i]
          /\ \A q \in Rows \ {row} : stack'[q] = stack[q]
      BY <1>1, <2>1, <2>4 DEF KernelOK, Stacks
    <3> QED BY <2>2, <3>1 DEF ForeignKept
  <2> QED BY <1>5, <2>3, <2>4 DEF Remount
<1>6. ~ForeignMount /\ ~ForeignUmount /\ ~Reboot /\ ~Replan
  BY LoopTypes DEF ForeignMount, ForeignUmount, Reboot, Replan, KernelOK
<1>7. CASE UNCHANGED <<boot, stack, plan, masked>>
  BY <1>7 DEF ForeignKept
<1> QED BY <1>2, <1>3, <1>4, <1>5, <1>6, <1>7, KernelChange

\* No call of apply, its rollback included, unmounts or remounts a layer of
\* another mounter, as long as none is mounted between a check and its use.
THEOREM ApplySpares ==
    ASSUME Windows = {}
    PROVE  Spec => ApplySparesForeign
<1>1. Closed
  BY DEF Closed
<1>2. IInv /\ Known /\ [Next]_vars =>
          [op = "apply" /\ pc' # pc /\ boot' = boot => ForeignKept]_vars
  BY ApplySparesStep
<1> QED BY <1>1, <1>2, AlwaysKnown, Invariance, PTL DEF Spec, ApplySparesForeign

-----------------------------------------------------------------------------
\* What a failure leaves mounted

\* recovery.flag can be written, and nobody lowers it.
Latched == "flag" \notin Faults /\ "recovery-off" \notin Env

\* No command is killed, and every rollback so far has written its reversed journal:
\* "rev" says whether a claim supposes so.
Orderly(rev) == rev /\ "kill" \notin Env

\* Row r was what it showed when preflight saw it.
Sure(rev, r) == r \notin masked \/ Orderly(rev)

\* With the flag down, an orderly runtime never loses sight of a layer, so its
\* targets are bare at preflight, masked or not.
Lone(rev) == Orderly(rev) /\ ~recovery => \A r \in Rows : Single(r) /\ Ahead(r)

\* A clean rollback has nothing of ours left but what the journal names at the
\* rows it has not reached.  A detach can promise this only of an orderly runtime.
Undoing(rev) ==
    (op = "apply" \/ Orderly(rev)) /\ clean /\ ~recovery =>
        /\ pc \in {"rollback", "umount"} =>
              \A r \in Rows : Sure(rev, r) /\ HasOwned(r) => r <= row /\ Recorded(r)
        /\ pc = "restored" =>
              \A r \in Rows : Sure(rev, r) /\ HasOwned(r) => r < row /\ Recorded(r)
        /\ pc = "umount" /\ Sure(rev, row) /\ HasOwned(row) => Owned(Visible(row))

\* A rollback that could not begin is not clean.
Unreversed == pc = "unreversed" => ~clean

\* Only a detach rolls back as one.
ReasonKnown ==
    pc \in {"rollback", "unreversed", "umount", "restored"} /\ undo = "detach" => op = "detach"

\* Where nothing is in progress, and where nothing of ours is mounted.
Resting == {"idle", "pointers", "detach"}
Bare == {"unlink-active", "unlink-commit", "unlink-orphan", "allocate", "preflight"}

\* What is mounted while nothing is in progress, unless recovery mode is on.
Accounted(rev) ==
    Orderly(rev) /\ ~recovery =>
        /\ pc \in Resting => \A r \in Rows : HasOwned(r) =>
              activeJournal # NoTx /\ activeJournal = journal.tx /\ Recorded(r)
        /\ pc \in Bare => \A r \in Rows : ~HasOwned(r)

\* With a commit of an earlier boot nothing of ours is mounted in this one.
StaleMeansBare == commit # NoCommit /\ commit.boot # boot => \A r \in Rows : ~HasOwned(r)

\* A transaction under way has an id.
TxNamed == pc \in {"preflight"} \cup Mounting => journal.tx # NoTx

Tracked(rev) ==
    /\ Lone(rev) /\ Undoing(rev) /\ Accounted(rev)
    /\ Unreversed /\ ReasonKnown /\ StaleMeansBare /\ TxNamed

\* The flag stays up.
LEMMA FlagStays ==
    ASSUME Latched, recovery, [Next]_vars
    PROVE  recovery'
<1>1. CASE ApplyStep
  <2>1. ApplyPointersClear \/ ApplyAlreadyActive \/ Allocate \/ Preflight \/ PreflightFails \/
        Bind \/ Identify \/ Record \/ Disown => UNCHANGED recovery
    BY DEF ApplyPointersClear, ApplyAlreadyActive, Allocate, Preflight, PreflightFails, Bind,
       Identify, Record, Disown, files
  <2>2. DisownUmount \/ Remount \/ Check \/ CheckFails \/ Publish \/ Commit => UNCHANGED recovery
    BY DEF DisownUmount, Remount, Check, CheckFails, Publish, Commit, files
  <2>3. ApplyInconsistent \/ IdentifyFails \/ DisownRefused => recovery' = TRUE
    BY DEF ApplyInconsistent, IdentifyFails, DisownRefused, RaiseRecovery, Latched
  <2> QED BY <1>1, <2>1, <2>2, <2>3 DEF ApplyStep
<1>2. CASE RollbackStep
  BY <1>2 DEF RollbackStep, RollbackCheck, RollbackRowFails, RollbackUmount, RollbackVerify,
     ApplyFails, ApplyUnpublished, DetachRolledBack, UnlinkActive, UnlinkCommit,
     FlagIfIncomplete, RaiseRecovery, Latched, files
<1>3. CASE DetachStep \/ Command
  BY <1>3 DEF DetachStep, DetachRefused, DetachNothing, DetachStale, DetachOrphanCommit,
     DetachActive, Command, ApplyRefused, ApplyBegin, DetachBegin, BootComplete,
     RaiseRecovery, Latched, files
<1>4. CASE Environment
  BY <1>4 DEF Environment, RecoveryOn, RecoveryOff, ForeignMount, ForeignUmount, Kill, Reboot,
     Replan, Latched, files
<1>5. CASE UNCHANGED vars
  BY <1>5 DEF vars
<1> QED BY <1>1, <1>2, <1>3, <1>4, <1>5 DEF Next, CommandStep

\* Nothing of ours is above the rows that a failing apply has journalled, unless
\* it has raised the flag.
LEMMA EnteringBare ==
    ASSUME Latched, IInv, Known, Entering, pc # "detach", ~recovery',
           NEW r \in Rows, HasOwned(r)', Single(r), Ahead(r)
    PROVE  r <= Len(journal.rows)
<1>1. KernelOK /\ (pc \in Looping => row \in 1..NRows) /\ r \in 1..NRows
  BY LoopTypes DEF Rows
<1>2. CASE DisownUmount
  <2>1. row \in Rows /\ Pop(row) /\ Owned(Visible(row)) /\ Len(journal.rows) = row - 1
    BY <1>1, <1>2 DEF DisownUmount, Known, OnTop, Looping, Rows, IInv, JournalProgress
  <2>3. r # row
    <3>1. ASSUME r = row
          PROVE  FALSE
      <4>1. Owned(Visible(r)) /\ Pop(r)
        BY <2>1, <3>1
      <4> QED BY <1>1, <4>1, PopTop
    <3> QED BY <3>1
  <2>4. HasOwned(r)
    BY <1>1, <2>1, <2>3, OtherRows, RowKept DEF SameHeld
  <2>5. ~(r > row)
    BY <1>2, <2>4 DEF DisownUmount, Ahead, Looping
  <2> QED BY <1>1, <2>1, <2>3, <2>5 DEF Rows
<1>3. CASE ~DisownUmount
  <2>1. HasOwned(r) /\ pc \in {"bind", "remount", "check", "publish", "commit"}
    BY <1>3, RowKept DEF Entering, RaiseRecovery, Latched, SameHeld
  <2>2. CASE pc = "bind"
    BY <1>1, <2>1, <2>2 DEF IInv, Ahead, JournalProgress, Looping, Rows
  <2>3. CASE pc \in {"remount", "check"}
    BY <1>1, <2>1, <2>3 DEF IInv, Ahead, JournalProgress, Looping, Rows
  <2>4. CASE pc \in {"publish", "commit"}
    BY <1>1, <2>4 DEF IInv, JournalProgress
  <2> QED BY <2>1, <2>2, <2>3, <2>4
<1> QED BY <1>2, <1>3

\* Each call of a rollback undoes the row it is at, or gives up being clean.
LEMMA UndoingStep ==
    ASSUME Closed, Latched, IInv, Known, NEW rev \in BOOLEAN, Tracked(rev), [Next]_vars
    PROVE  Undoing(rev)'
<1> DEFINE reach(r) == IF pc = "restored" THEN r < row ELSE r <= row
<1> DEFINE rolling == pc \in {"rollback", "umount", "restored"}
<1> SUFFICES ASSUME (op = "apply")' \/ Orderly(rev), clean', ~recovery', rolling'
             PROVE  /\ \A r \in Rows :
                          Sure(rev, r)' /\ HasOwned(r)' => reach(r)' /\ Recorded(r)'
                    /\ pc' = "umount" /\ Sure(rev, row)' /\ HasOwned(row)' =>
                          Owned(Visible(row))'
  BY DEF Undoing, Orderly
<1>1. /\ KernelOK /\ ~recovery /\ UniqueIds
      /\ pc \in {"umount", "restored"} => row \in Rows
      /\ pc = "rollback" /\ row > 0 => row \in Rows
      /\ row \in Nat
  BY LoopTypes, FlagStays, SizeAssumption DEF Known
<1>0. ASSUME NEW r, Sure(rev, r)'
      PROVE  Sure(rev, r)
  <2>1. ~Reboot
    BY DEF Reboot, Return
  <2> QED BY <1>0, <2>1, MaskedGrows DEF Sure, Orderly
<1>11. ASSUME NEW r \in Rows, Sure(rev, r)
       PROVE  Single(r) /\ Ahead(r)
  BY <1>1, <1>11 DEF Sure, IInv, NoStacking, RowsAhead, Single, Tracked, Lone
<1>2. ASSUME rolling, clean, op' = op
      PROVE  /\ \A r \in Rows : Sure(rev, r) /\ HasOwned(r) => reach(r) /\ Recorded(r)
             /\ pc = "umount" /\ Sure(rev, row) /\ HasOwned(row) => Owned(Visible(row))
  BY <1>1, <1>2 DEF Tracked, Undoing
<1>3. ASSUME UNCHANGED <<stack, journal>>, NEW r
      PROVE  /\ HasOwned(r)' => HasOwned(r)
             /\ Recorded(r) => Recorded(r)'
  BY <1>3, RowKept, RecordedKept DEF SameHeld
<1>4. CASE Bystander
  <2>1. /\ pc' = pc /\ op' = op /\ row' = row /\ clean' = clean /\ UNCHANGED journal
        /\ ForeignMount \/ ForeignUmount \/ UNCHANGED stack
    BY <1>4, BystanderFacts
  <2>2. ASSUME NEW r \in Rows, Sure(rev, r)', HasOwned(r)'
        PROVE  reach(r)' /\ Recorded(r)'
    <3>1. SameHeld(r) /\ Sure(rev, r)
      BY <1>0, <1>4, <2>2, BystanderHeld
    <3>2. HasOwned(r)
      BY <2>2, <3>1 DEF SameHeld
    <3> QED BY <1>2, <2>1, <3>1, <3>2, RecordedKept
  <2>3. ASSUME pc' = "umount", Sure(rev, row)', HasOwned(row)'
        PROVE  Owned(Visible(row))'
    <3>1. pc = "umount" /\ row \in Rows /\ SameHeld(row)
      BY <1>1, <1>4, <2>1, <2>3, BystanderHeld
    <3>2. HasOwned(row)
      BY <2>1, <2>3, <3>1 DEF SameHeld, HasOwned
    <3>5. Sure(rev, row)
      BY <1>0, <2>1, <2>3 DEF Sure
    <3>3. Owned(Visible(row)) /\ Shielded(row)
      BY <1>2, <2>1, <3>1, <3>2, <3>5 DEF Shielded, Closed
    <3>4. stack'[row] = stack[row]
      BY <1>1, <2>1, <3>1, <3>3, ShieldedRow
    <3> QED BY <2>1, <3>3, <3>4 DEF Visible, Owned
  <2> QED BY <2>2, <2>3
<1>5. CASE Entering
  <2>1. pc' = "rollback" /\ row' = Len(journal.rows) /\ op' = op /\ UNCHANGED journal
    BY <1>5 DEF Entering
  <2>2. CASE pc = "detach"
    <3>1. op = "detach" /\ UNCHANGED stack
      BY <1>5, <2>2 DEF Entering, IInv, RunningHasNoResult, DisownUmount
    <3>2. \A r \in Rows : HasOwned(r) => Recorded(r)
      BY <1>1, <2>1, <2>2, <3>1 DEF Tracked, Accounted, Resting
    <3>3. DOMAIN journal.rows = 1..Len(journal.rows)
      BY LoopTypes, LenProperties DEF JournalFile
    <3>4. \A r \in Rows : Recorded(r) => r <= Len(journal.rows)
      BY <3>3 DEF Recorded, Rows
    <3> QED BY <1>3, <2>1, <3>1, <3>2, <3>4
  <2>3. CASE pc # "detach"
    <3>1. ASSUME NEW r \in Rows, Sure(rev, r)', HasOwned(r)'
          PROVE  r <= Len(journal.rows) /\ Recorded(r)'
      <4>3. Single(r) /\ Ahead(r)
        BY <1>0, <1>11, <3>1
      <4>1. r <= Len(journal.rows)
        BY <1>5, <2>3, <3>1, <4>3, EnteringBare
      <4>2. r \in 1..Len(journal.rows)
        BY <4>1, LoopTypes, LenProperties DEF Rows, JournalFile
      <4> QED BY <1>5, <2>3, <4>1, <4>2, EnteringRecorded DEF Known
    <3> QED BY <2>1, <3>1
  <2> QED BY <2>2, <2>3
<1>6. CASE RollbackCheck
  <2>1. /\ pc = "rollback" /\ pc' = "umount" /\ op' = op /\ row > 0 /\ row' = row
        /\ clean' = clean /\ UNCHANGED <<stack, journal>>
        /\ Visible(row).id = journal.rows[row].created
    BY <1>6 DEF RollbackCheck, kernel, files, locals
  <2>2. \A r \in Rows : Sure(rev, r) /\ HasOwned(r) => r <= row /\ Recorded(r)
    BY <1>2, <2>1
  <2>3. Sure(rev, row) /\ HasOwned(row) => Owned(Visible(row))
    BY <1>1, <2>1, <2>2, HeldOnTop DEF Recorded
  <2>5. Sure(rev, row)' => Sure(rev, row)
    BY <1>0, <2>1 DEF Sure
  <2>4. Sure(rev, row)' /\ HasOwned(row)' => Owned(Visible(row))'
    BY <2>1, <2>3, <2>5 DEF HasOwned, Visible, Owned
  <2> QED BY <1>0, <1>3, <2>1, <2>2, <2>4
<1>7. ~RollbackRowFails
  BY DEF RollbackRowFails
<1>8. CASE RollbackUmount
  <2>1. /\ pc = "umount" /\ pc' = "restored" /\ Pop(row) /\ row' = row /\ op' = op
        /\ clean' = clean /\ UNCHANGED journal /\ row \in Rows
    BY <1>1, <1>8 DEF RollbackUmount, files, locals
  <2>2. /\ \A r \in Rows : Sure(rev, r) /\ HasOwned(r) => r <= row /\ Recorded(r)
        /\ Sure(rev, row) /\ HasOwned(row) => Owned(Visible(row))
    BY <1>2, <2>1
  <2>3. \A q \in Rows : q = row /\ Sure(rev, q) => ~HasOwned(q)'
    <3>1. ASSUME NEW q \in Rows, q = row, Sure(rev, q), HasOwned(q)
          PROVE  ~HasOwned(q)'
      <4>1. Single(q) /\ Owned(Visible(q)) /\ Pop(q)
        BY <1>11, <2>1, <2>2, <3>1
      <4> QED BY <1>1, <4>1, PopTop
    <3>2. ASSUME NEW q \in Rows, q = row, ~HasOwned(q)
          PROVE  ~HasOwned(q)'
      BY <1>1, <2>1, <3>2, PopKeeps DEF HasOwned
    <3> QED BY <3>1, <3>2
  <2>4. ASSUME NEW r \in Rows, Sure(rev, r)', HasOwned(r)'
        PROVE  r < row /\ Recorded(r)'
    <3>1. r # row /\ Sure(rev, r)
      BY <1>0, <2>3, <2>4
    <3>2. SameHeld(r)
      BY <1>1, <2>1, <3>1, OtherRows, RowKept
    <3>3. HasOwned(r)
      BY <2>4, <3>2 DEF SameHeld
    <3> QED BY <1>1, <2>1, <2>2, <3>1, <3>2, <3>3, RecordedKept DEF Rows
  <2> QED BY <2>1, <2>4
<1>9. CASE RollbackVerify
  <2>1. /\ pc = "restored" /\ pc' = "rollback" /\ row' = row - 1 /\ op' = op
        /\ clean /\ UNCHANGED <<stack, journal>>
    BY <1>9 DEF RollbackVerify, kernel, files
  <2>2. \A r \in Rows : Sure(rev, r) /\ HasOwned(r) => r < row /\ Recorded(r)
    BY <1>2, <2>1
  <2>3. \A r \in Rows : r < row => r <= row - 1
    BY <1>1 DEF Rows
  <2> QED BY <1>0, <1>3, <2>1, <2>2, <2>3
<1> QED BY <1>4, <1>5, <1>6, <1>7, <1>8, <1>9, RollbackCalls

\* A rollback keeps the reason it was started for.
LEMMA ReasonStep ==
    ASSUME IInv, ReasonKnown, [Next]_vars
    PROVE  ReasonKnown'
<1>1. CASE Bystander
  BY <1>1, BystanderFacts DEF ReasonKnown
<1>2. CASE Entering
  BY <1>2 DEF Entering, ReasonKnown, IInv, RunningHasNoResult
<1>3. CASE RollbackCheck \/ RollbackRowFails \/ RollbackUmount \/ RollbackVerify
  BY <1>3
  DEF RollbackCheck, RollbackRowFails, RollbackUmount, RollbackVerify, ReasonKnown, locals
<1>4. CASE pc' \notin {"rollback", "unreversed", "umount", "restored"}
  BY <1>4 DEF ReasonKnown
<1> QED BY <1>1, <1>2, <1>3, <1>4, RollbackCalls

\* A rollback that could not begin only ends.
LEMMA UnreversedStep ==
    ASSUME IInv, Unreversed, [Next]_vars
    PROVE  Unreversed'
<1>1. CASE Bystander
  BY <1>1, BystanderFacts DEF Unreversed
<1>2. CASE Entering
  BY <1>2 DEF Entering, Unreversed
<1>3. CASE RollbackCheck \/ RollbackRowFails \/ RollbackUmount \/ RollbackVerify
  BY <1>3 DEF RollbackCheck, RollbackRowFails, RollbackUmount, RollbackVerify, Unreversed
<1>4. CASE pc' # "unreversed"
  BY <1>4 DEF Unreversed
<1> QED BY <1>1, <1>2, <1>3, <1>4, RollbackCalls

\* In an orderly runtime no row has two layers of ours, nor one ahead of the loop.
LEMMA LoneStep ==
    ASSUME Latched, IInv, NEW rev \in BOOLEAN, Tracked(rev), [Next]_vars
    PROVE  Lone(rev)'
<1> SUFFICES ASSUME Orderly(rev), ~recovery', NEW r \in Rows
             PROVE  Single(r)' /\ Ahead(r)'
  BY DEF Lone, Orderly
<1>1. ~recovery
  BY FlagStays
<1>2. Single(r) /\ Ahead(r)
  BY <1>1 DEF Tracked, Lone
<1>3. Preflight => ~HasOwned(r)
  BY <1>1 DEF Preflight, Tracked, Accounted, Bare
<1> QED BY <1>2, <1>3, SingleStep, AheadRow

\* Layers are bound when there is no commit, and a commit is of its boot.
LEMMA StaleStep ==
    ASSUME IInv, StaleMeansBare, [Next]_vars
    PROVE  StaleMeansBare'
<1>1. /\ KernelOK /\ PointersKnown
        /\ (pc \in Looping => row \in Rows) /\ (pc = "umount" => row \in Rows)
  BY LoopTypes DEF IInv
<1>2. CASE Commit
  <2>1. boot' = boot /\ UNCHANGED stack /\ (commit'.boot = boot \/ commit' = commit)
    BY <1>2 DEF Commit, kernel
  <2> QED BY <2>1 DEF StaleMeansBare, HasOwned
<1>3. CASE UnlinkCommit
  BY <1>3 DEF UnlinkCommit, StaleMeansBare
<1>4. CASE Reboot
  BY <1>4 DEF Reboot, StaleMeansBare, HasOwned
<1>5. CASE Bind
  BY <1>1, <1>5 DEF Bind, PointersKnown, Looping, StaleMeansBare, files
<1>6. ASSUME ~Commit, ~UnlinkCommit, ~Reboot, ~Bind
      PROVE  StaleMeansBare'
  <2>1. boot' = boot
    BY <1>6, KernelChange DEF Bind, DisownUmount, Remount, RollbackUmount, ForeignMount,
       ForeignUmount, Replan
  <2>2. commit' = commit
    BY <1>6, FilesChange DEF Allocate, Preflight, PreflightFails, Record, Publish, ApplyFails,
       UnlinkActive, BootComplete, pointers
  <2>3. ASSUME NEW r \in Rows, HasOwned(r)'
        PROVE  HasOwned(r)
    <3>1. CASE DisownUmount \/ RollbackUmount
      <4>1. row \in Rows /\ Pop(row)
        BY <1>1, <3>1 DEF DisownUmount, RollbackUmount, Looping
      <4> QED BY <1>1, <2>3, <4>1, PopKeeps DEF HasOwned
    <3>2. CASE ~(DisownUmount \/ RollbackUmount)
      BY <1>6, <2>3, <3>2, HeldKept DEF SameHeld
    <3> QED BY <3>1, <3>2
  <2> QED BY <2>1, <2>2, <2>3 DEF StaleMeansBare
<1> QED BY <1>2, <1>3, <1>4, <1>5, <1>6

\* The calls that lead to preflight.
LEMMA PreflightCalls ==
    ASSUME [Next]_vars, pc' = "preflight"
    PROVE  Bystander \/ Allocate
<1>1. ApplyStep => Allocate
  BY DEF ApplyStep, ApplyPointersClear, ApplyAlreadyActive, ApplyInconsistent, Preflight,
     PreflightFails, Bind, Identify, IdentifyFails, Record, Disown, DisownRefused, DisownUmount,
     Remount, Check, CheckFails, Publish, Commit, Rollback, Return
<1>2. ~RollbackStep
  BY DEF RollbackStep, RollbackCheck, RollbackRowFails, RollbackUmount, RollbackVerify,
     ApplyFails, ApplyUnpublished, DetachRolledBack, UnlinkActive, UnlinkCommit, Return
<1>3. ~DetachStep /\ ~Command
  BY DEF DetachStep, DetachRefused, DetachNothing, DetachStale, DetachOrphanCommit,
     DetachActive, Command, ApplyRefused, ApplyBegin, DetachBegin, BootComplete, Begin,
     Rollback, Return
<1>4. Environment => Bystander
  BY DEF Environment, Bystander, RecoveryOn, Kill, Reboot, Begin, Return
<1> QED BY <1>1, <1>2, <1>3, <1>4 DEF Next, CommandStep, Bystander

\* A transaction has the number of its boot.
LEMMA TxStep ==
    ASSUME IInv, TxNamed, [Next]_vars
    PROVE  TxNamed'
<1>1. CASE pc' = "preflight" /\ Allocate
  <2>1. journal' = [NoJournal EXCEPT !.tx = NextTx]
    BY <1>1 DEF Allocate, Return
  <2>2. journal'.tx = NextTx
    BY <2>1 DEF NoJournal
  <2>3. NextTx.boot # 0
    BY LoopTypes DEF NextTx, KernelOK
  <2>4. NoTx.boot = 0
    BY DEF NoTx
  <2> QED BY <2>2, <2>3, <2>4 DEF TxNamed
<1>2. CASE Bystander
  BY <1>2, BystanderFacts DEF TxNamed
<1>3. CASE pc' \in Mounting
  <2>1. pc \in {"preflight"} \cup Mounting
    BY <1>3, MountingFrom DEF Preflight
  <2>2. ~Allocate
    BY <2>1 DEF Allocate, Mounting, Looping
  <2>3. journal'.tx = journal.tx
    <3>1. journal \in JournalFile
      BY LoopTypes
    <3>2. CASE Preflight \/ Record
      BY <3>1, <3>2 DEF Preflight, Record, JournalFile
    <3>3. CASE UNCHANGED journal
      BY <3>3
    <3> QED BY <2>2, <3>2, <3>3, FilesChange DEF PreflightFails, Publish, Commit, ApplyFails,
            UnlinkActive, UnlinkCommit, BootComplete
  <2> QED BY <2>1, <2>3 DEF TxNamed
<1>4. CASE pc' \notin {"preflight"} \cup Mounting
  BY <1>4 DEF TxNamed
<1> QED BY <1>1, <1>2, <1>3, <1>4, PreflightCalls

\* How nothing comes to be in progress, if no command is killed.
LEMMA RestCalls ==
    ASSUME [Next]_vars, NEW rev \in BOOLEAN, Orderly(rev), pc' \in Resting
    PROVE  \/ Bystander \/ Reboot \/ Commit \/ ApplyFails \/ DetachRolledBack
           \/ pc \in Resting /\ UNCHANGED <<stack, journal, activeJournal>>
           \/ pc \in Bare /\ UNCHANGED stack
<1>1. ApplyAlreadyActive \/ ApplyInconsistent =>
        pc \in Resting /\ UNCHANGED <<stack, journal, activeJournal>>
  BY DEF ApplyAlreadyActive, ApplyInconsistent, Resting, kernel, files, pointers
<1>2. Allocate \/ PreflightFails \/ UnlinkCommit => pc \in Bare /\ UNCHANGED stack
  BY DEF Allocate, PreflightFails, UnlinkCommit, Bare, kernel
<1>3. ~(ApplyPointersClear \/ Preflight \/ Bind \/ Identify \/ IdentifyFails \/ Record \/ Disown)
  BY DEF Resting, ApplyPointersClear, Preflight, Bind, Identify, IdentifyFails, Record, Disown,
     Rollback
<1>4. ~(DisownRefused \/ DisownUmount \/ Remount \/ Check \/ CheckFails \/ Publish)
  BY DEF Resting, DisownRefused, DisownUmount, Remount, Check, CheckFails, Publish, Rollback
<1>5. ~(RollbackCheck \/ RollbackRowFails \/ RollbackUmount \/ RollbackVerify \/
        ApplyUnpublished \/ UnlinkActive)
  BY DEF Resting, RollbackCheck, RollbackRowFails, RollbackUmount, RollbackVerify,
     ApplyUnpublished, UnlinkActive
<1>6. DetachStep => pc \in Resting /\ UNCHANGED <<stack, journal, activeJournal>>
  BY DEF DetachStep, DetachRefused, DetachNothing, DetachStale, DetachOrphanCommit,
     DetachActive, Resting, Rollback, kernel, files, pointers
<1>7. Command => pc \in Resting /\ UNCHANGED <<stack, journal, activeJournal>>
  BY DEF Command, ApplyRefused, ApplyBegin, DetachBegin, BootComplete, Begin, Resting, kernel,
     files, pointers
<1>8. Environment => \/ Bystander \/ Reboot
                     \/ pc \in Resting /\ UNCHANGED <<stack, journal, activeJournal>>
  BY DEF Environment, Bystander, RecoveryOn, Kill, Orderly, Resting, kernel, pointers
<1> QED
  BY <1>1, <1>2, <1>3, <1>4, <1>5, <1>6, <1>7, <1>8
  DEF Next, CommandStep, ApplyStep, RollbackStep, Bystander

\* How a command comes to a call that finds nothing of ours mounted.
LEMMA BareCalls ==
    ASSUME [Next]_vars, pc' \in Bare
    PROVE  \/ Bystander \/ ApplyPointersClear \/ DetachStale
           \/ ApplyUnpublished \/ DetachRolledBack
           \/ pc \in Bare /\ UNCHANGED stack
<1>1. Allocate \/ UnlinkActive \/ UnlinkCommit => pc \in Bare /\ UNCHANGED stack
  BY DEF Allocate, UnlinkActive, UnlinkCommit, Bare, kernel
<1>2. ~(ApplyAlreadyActive \/ ApplyInconsistent \/ Preflight \/ PreflightFails \/ Bind \/
        Identify \/ IdentifyFails \/ Record \/ Disown)
  BY DEF Bare, ApplyAlreadyActive, ApplyInconsistent, Preflight, PreflightFails, Bind, Identify,
     IdentifyFails, Record, Disown, Rollback, Return
<1>3. ~(DisownRefused \/ DisownUmount \/ Remount \/ Check \/ CheckFails \/ Publish \/ Commit)
  BY DEF Bare, DisownRefused, DisownUmount, Remount, Check, CheckFails, Publish, Commit,
     Rollback, Return
<1>4. ~(RollbackCheck \/ RollbackRowFails \/ RollbackUmount \/ RollbackVerify \/ ApplyFails)
  BY DEF Bare, RollbackCheck, RollbackRowFails, RollbackUmount, RollbackVerify, ApplyFails,
         Return
<1>5. ~(DetachRefused \/ DetachNothing \/ DetachOrphanCommit \/ DetachActive) /\ ~Command
  BY DEF Bare, DetachRefused, DetachNothing, DetachOrphanCommit, DetachActive, Command,
     ApplyRefused, ApplyBegin, DetachBegin, BootComplete, Begin, Rollback, Return
<1>6. Environment => Bystander
  BY DEF Bare, Environment, Bystander, RecoveryOn, Kill, Reboot, Begin, Return
<1> QED
  BY <1>1, <1>2, <1>3, <1>4, <1>5, <1>6
  DEF Next, CommandStep, ApplyStep, RollbackStep, DetachStep, Bystander

\* A rollback that ends with the flag down has left nothing of ours.
LEMMA CleanMeansBare ==
    ASSUME Latched, IInv, NEW rev \in BOOLEAN, rev => pc # "unreversed",
           Undoing(rev), Unreversed, op = "apply" \/ Orderly(rev), clean \/ Orderly(rev),
           RollbackDone, FlagIfIncomplete, ~recovery', NEW r \in Rows, Sure(rev, r)
    PROVE  ~HasOwned(r) /\ clean
<1>2. pc = "rollback" /\ row = 0
  BY DEF RollbackDone, Unreversed, Orderly
<1>1. clean /\ UNCHANGED recovery
  BY <1>2 DEF FlagIfIncomplete, RaiseRecovery, Latched
<1>3. HasOwned(r) => r <= 0
  BY <1>1, <1>2 DEF Undoing
<1> QED BY <1>1, <1>3 DEF Rows

\* Every way to come to rest leaves nothing of ours unaccounted for.
LEMMA AccountedStep ==
    ASSUME Closed, Latched, IInv, Known, NEW rev \in BOOLEAN, Tracked(rev),
           rev => pc # "unreversed", [Next]_vars
    PROVE  Accounted(rev)'
<1> SUFFICES ASSUME Orderly(rev), ~recovery'
             PROVE  /\ pc' \in Resting => \A r \in Rows : HasOwned(r)' =>
                         activeJournal' # NoTx /\ activeJournal' = journal'.tx /\ Recorded(r)'
                    /\ pc' \in Bare => \A r \in Rows : ~HasOwned(r)'
  BY DEF Accounted, Orderly
<1>1. ~recovery
  BY FlagStays
<1>2. /\ pc \in Resting => \A r \in Rows : HasOwned(r) =>
            activeJournal # NoTx /\ activeJournal = journal.tx /\ Recorded(r)
      /\ pc \in Bare => \A r \in Rows : ~HasOwned(r)
  BY <1>1 DEF Tracked, Accounted
<1>3. ASSUME UNCHANGED stack
      PROVE  \A r \in Rows : SameHeld(r)
  BY <1>3, RowKept
<1>4. CASE Bystander
  <2>1. pc' = pc /\ UNCHANGED <<activeJournal, journal>>
    BY <1>4, BystanderFacts
  <2>2. ASSUME NEW r \in Rows
        PROVE  SameHeld(r)
    BY <1>4, BystanderHeld
  <2>3. \A r \in Rows : (HasOwned(r)' <=> HasOwned(r)) /\ (Recorded(r) => Recorded(r)')
    BY <2>1, <2>2, RecordedKept DEF SameHeld
  <2> QED BY <1>2, <2>1, <2>3
<1>5. CASE Reboot
  <2>1. \A r \in Rows : ~HasOwned(r)'
    BY <1>5 DEF Reboot, HasOwned
  <2> QED BY <2>1
<1>6. CASE Commit /\ pc' \in Resting
  <2>1. pc = "commit" /\ UNCHANGED <<stack, journal, activeJournal>>
    BY <1>6 DEF Commit, kernel
  <2>2. activeJournal = journal.tx /\ activeJournal # NoTx /\ Len(journal.rows) = NRows
    BY <2>1 DEF IInv, PointersKnown, JournalProgress, Tracked, TxNamed, Mounting
  <2>3. \A r \in Rows : Recorded(r)
    BY <2>1, <2>2, JournalledHeld DEF Mounting, Rows, Known
  <2>4. \A r \in Rows : Recorded(r)'
    BY <1>3, <2>1, <2>3, RecordedKept
  <2>5. pc' \notin Bare
    BY <1>6 DEF Resting, Bare
  <2> QED BY <2>1, <2>2, <2>4, <2>5
<1>7. CASE ApplyFails \/ ApplyUnpublished \/ DetachRolledBack
  <2>1. RollbackDone /\ FlagIfIncomplete /\ UNCHANGED stack
    BY <1>7 DEF ApplyFails, ApplyUnpublished, DetachRolledBack, kernel
  <2>2. \A r \in Rows : ~HasOwned(r)
    BY <2>1, CleanMeansBare DEF Tracked, Sure
  <2>3. \A r \in Rows : ~HasOwned(r)'
    BY <1>3, <2>1, <2>2 DEF SameHeld
  <2> QED BY <2>3
<1>8. CASE (ApplyPointersClear \/ DetachStale) /\ pc' \in Bare
  <2>1. /\ pc \in Resting /\ UNCHANGED stack
        /\ activeJournal = NoTx \/ (commit # NoCommit /\ commit.boot # boot)
    BY <1>8 DEF ApplyPointersClear, DetachStale, Discardable, CommitLoads, Resting, kernel
  <2>2. \A r \in Rows : ~HasOwned(r)
    BY <1>2, <2>1 DEF Tracked, StaleMeansBare
  <2>3. pc' \notin Resting
    BY <1>8 DEF Resting, Bare
  <2> QED BY <1>3, <2>1, <2>2, <2>3 DEF SameHeld
<1>9. CASE pc \in Resting /\ pc' \in Resting /\ UNCHANGED <<stack, journal, activeJournal>>
  <2>1. pc' \notin Bare
    BY <1>9 DEF Resting, Bare
  <2>2. \A r \in Rows : (HasOwned(r)' <=> HasOwned(r)) /\ (Recorded(r) => Recorded(r)')
    BY <1>3, <1>9, RecordedKept DEF SameHeld
  <2> QED BY <1>2, <1>9, <2>1, <2>2
<1>10. CASE pc \in Bare /\ UNCHANGED stack
  BY <1>2, <1>3, <1>10 DEF SameHeld
<1>11. CASE pc' \notin Resting \cup Bare
  BY <1>11
<1> QED
  BY <1>4, <1>5, <1>6, <1>7, <1>8, <1>9, <1>10, <1>11, RestCalls, BareCalls

\* Tracked holds at first.
LEMMA TrackedInit ==
    ASSUME NEW rev \in BOOLEAN, Init
    PROVE  Tracked(rev)
BY DEF Init, Tracked, Lone, Single, Ahead, Undoing, Unreversed, ReasonKnown, Accounted,
   StaleMeansBare, TxNamed, Resting, Bare, Mounting, Looping, HasOwned, NoCommit

\* Where an id is known to be ours and the flag is latched, every step keeps Tracked.
LEMMA TrackedStep ==
    ASSUME Closed, Latched, IInv, Known, NEW rev \in BOOLEAN, Tracked(rev),
           rev => pc # "unreversed", [Next]_vars
    PROVE  Tracked(rev)'
<1>1. Unreversed' /\ ReasonKnown' /\ StaleMeansBare' /\ TxNamed'
  BY UnreversedStep, ReasonStep, StaleStep, TxStep DEF Tracked
<1> QED BY <1>1, LoneStep, UndoingStep, AccountedStep DEF Tracked

\* As long as no command is killed, recovery.flag is neither unwritable nor
\* lowered and no rollback stops before its first row (transaction.sh:70), every
\* layer of ours that is mounted between commands belongs to the active journal,
\* or the device is in recovery mode: through failures of every other call, other
\* mounters, whatever they put on a target, reboots, replaced plans and
\* recovery-on.
THEOREM LayersAccounted ==
    ASSUME Closed, Latched, "kill" \notin Env
    PROVE  Spec => LayersAccountedFor
<1>1. Init => Tracked(TRUE)
  BY TrackedInit
<1>2. IInv /\ Known /\ Tracked(TRUE) /\ pc # "unreversed" /\ [Next]_vars => Tracked(TRUE)'
  BY TrackedStep
<1>3. Tracked(TRUE) => LayersKnown
  BY DEF Tracked, Accounted, Orderly, LayersKnown, Resting
<1> QED BY <1>1, <1>2, <1>3, AlwaysKnown, Invariance, PTL DEF Spec, LayersAccountedFor

\* The calls that end a rollback with a failure.
LEMMA RolledBackStep ==
    ASSUME Latched, IInv, Tracked(FALSE), [Next]_vars,
           op = "apply", RollbackDone, rc' = "fail", lastError' = "rolled-back",
           NEW r \in Rows \ masked
    PROVE  ~HasOwned(r)
<1>1. rc # "fail"
  BY DEF IInv, RunningHasNoResult, RollbackDone
<1>2. ApplyFails
  <2>1. ~ApplyStep
    BY DEF ApplyStep, ApplyPointersClear, ApplyAlreadyActive, ApplyInconsistent, Allocate,
       Preflight, PreflightFails, Bind, Identify, IdentifyFails, Record, Disown, DisownRefused,
       DisownUmount, Remount, Check, CheckFails, Publish, Commit, RollbackDone
  <2>2. RollbackStep => ApplyFails \/ DetachRolledBack
    BY <1>1 DEF RollbackStep, RollbackCheck, RollbackRowFails, RollbackUmount, RollbackVerify,
       ApplyUnpublished, UnlinkActive, UnlinkCommit, RollbackDone
  <2>3. ~DetachStep /\ ~Command
    BY DEF DetachStep, DetachRefused, DetachNothing, DetachStale, DetachOrphanCommit,
       DetachActive, Command, ApplyRefused, ApplyBegin, DetachBegin, BootComplete, Begin,
       RollbackDone
  <2>4. ~Environment /\ ~UNCHANGED vars
    BY <1>1 DEF Environment, RecoveryOn, RecoveryOff, ForeignMount, ForeignUmount, Kill, Reboot,
       Replan, Begin, Return, vars
  <2>5. ~DetachRolledBack
    BY DEF DetachRolledBack, Tracked, ReasonKnown, RollbackDone
  <2> QED BY <2>1, <2>2, <2>3, <2>4, <2>5 DEF Next, CommandStep
<1>3. recovery' \in BOOLEAN
  BY TypeStep DEF TypeOK, FlagsOK
<1>4. ~recovery' /\ clean
  <2>1. clean \in BOOLEAN
    BY DEF IInv, TypeOK, FlagsOK
  <2> QED BY <1>2, <1>3, <2>1 DEF ApplyFails
<1> QED BY <1>2, <1>4, CleanMeansBare DEF ApplyFails, Tracked, Sure

\* As long as recovery.flag is neither unwritable nor lowered, an apply that
\* reports "rolled back" has left no layer of ours on any target, whatever
\* failed and however earlier commands ended, unless another mounter had laid
\* the unmodified file over a layer that an earlier command left there.
THEOREM RolledBack ==
    ASSUME Closed, Latched
    PROVE  Spec => RolledBackIsBaseline
<1>1. Init => Tracked(FALSE)
  BY TrackedInit
<1>2. IInv /\ Known /\ Tracked(FALSE) /\ [Next]_vars => Tracked(FALSE)'
  BY TrackedStep
<1>3. IInv /\ Tracked(FALSE) /\ [Next]_vars =>
          [op = "apply" /\ RollbackDone /\ rc' = "fail" /\ lastError' = "rolled-back"
               => \A r \in Rows \ masked : ~HasOwned(r)]_vars
  BY RolledBackStep
<1> QED
  BY <1>1, <1>2, <1>3, AlwaysKnown, Invariance, PTL DEF Spec, RolledBackIsBaseline
=============================================================================
