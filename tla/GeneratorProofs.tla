--------------------------- MODULE GeneratorProofs ---------------------------
(***************************************************************************)
(* Proofs about Generator, for any documents and catalogs, any number of   *)
(* generations that exchange one output path, of failing calls and of      *)
(* kills: what becomes of the generations that were or are published, and  *)
(* that they were audited and the device accepts their property plans.     *)
(***************************************************************************)
EXTENDS Generator, Basics, FunctionTheorems

\* Before a process has touched the output, while it exchanges it, and after.
Before == {"new", "edit", "publish", "look", "move"}
Exchanging == {"install", "caught", "restore", "raise"}
After == {"drop", "cleanup", "discard", "ended"}

\* What the backup of a process is at each of its calls.
Backups ==
    \A p \in Procs :
        /\ pc[p] \in Before => backup[p] = Nothing
        /\ pc[p] \in Exchanging \cup {"drop"} => backup[p] # Torn
        /\ pc[p] = "restore" => backup[p] # Nothing

\* A whole generation that nobody is about to remove: two processes that both
\* remove their backups do not rely on each other's.
Safe ==
    Kept => \/ output \in Whole
            \/ \E p \in Procs : backup[p] \in Whole /\ pc[p] \notin {"drop", "discard"}

\* Without stops, only a generation that reported success is ever seen, and a
\* process that did is past the exchange.
Reports ==
    stops = 0 =>
        /\ \A p \in Procs : pc[p] # "dead" /\ (result[p] = "ok" => pc[p] \in After)
        /\ output \in Procs => result[output] = "ok"
        /\ \A p \in Procs : backup[p] \in Procs => result[backup[p]] = "ok"

\* If no call fails either, who leaves the path empty is about to fill it.
Faultless ==
    (stops = 0 /\ faults = 0 /\ Kept) =>
        output # Nothing \/ \E p \in Procs : pc[p] = "install"

\* What two processes know of each other.
Calm == AtMostTwo /\ faults <= 1 /\ stops = 0
Two ==
    Calm =>
        /\ \A p, q \in Procs : p # q =>
              /\ pc[p] \in Exchanging /\ backup[p] # Nothing /\ pc[q] \in Exchanging =>
                    backup[q] = Nothing
              /\ pc[p] \in {"install", "caught", "restore"} /\ backup[p] # Nothing /\ pc[q] \in Before =>
                    output = Nothing
              /\ pc[p] \in {"install", "caught", "restore"} /\ backup[p] # Nothing /\ output # Nothing =>
                    pc[q] \in After
              /\ pc[p] \in {"raise", "cleanup", "discard"} /\ backup[p] \in Whole => pc[q] \in After
        /\ \A p \in Procs :
              /\ pc[p] \in {"install", "caught", "restore"} /\ backup[p] # Nothing =>
                    output \in Procs \cup {Nothing}
              /\ pc[p] \in {"raise", "cleanup", "discard"} /\ backup[p] \in Whole =>
                    output \in Procs
              /\ pc[p] = "ended" => backup[p] \notin Whole
              /\ pc[p] = "caught" /\ backup[p] # Nothing /\ output = Nothing => faults > 0
              /\ pc[p] = "restore" => faults > 0
        /\ Reported # {} =>
              \/ output \in Procs
              \/ output = Nothing /\ \E p \in Procs :
                    pc[p] \in {"install", "caught", "restore"} /\ backup[p] \in Procs

IInv == TypeOK /\ Backups /\ Safe /\ Reports /\ Faultless /\ Two

-----------------------------------------------------------------------------
\* The three names are three, and no process has one of them.
LEMMA Distinct ==
    /\ Nothing # Torn /\ Nothing # Old /\ Torn # Old
    /\ Old \notin Procs /\ Nothing \notin Procs /\ Torn \notin Procs
  BY ThreeDistinct, GeneratorAssumption

\* The start.
LEMMA Initially == Init => IInv
  <1> SUFFICES ASSUME Init PROVE IInv
    OBVIOUS
  <1>1. TypeOK
    BY GeneratorAssumption DEF Init, TypeOK, Whole
  <1>2. Backups
    BY DEF Init, Backups, Exchanging
  <1>3. Safe
    BY DEF Init, Safe, Kept
  <1>4. Reports
    BY Distinct DEF Init, Reports
  <1>5. Faultless
    BY Distinct DEF Init, Faultless, Kept, Whole
  <1>6. Two
    BY DEF Init, Two, Reported
  <1> QED
    BY <1>1, <1>2, <1>3, <1>4, <1>5, <1>6 DEF IInv

\* The types.
LEMMA Types ==
    ASSUME IInv, NEW p \in Procs, Generation(p) \/ Kill(p) \/ Interrupt(p)
    PROVE  TypeOK'
  <1> DEFINE t == NextTarget(p)
             edited == IF t \notin DOMAIN Baseline THEN Rejected(<<>>)
                       ELSE EditDocument(Baseline[t],
                                         SelectSeq(ops[p], LAMBDA op : op.target = t))
  <1>1. (pc \in [Procs -> {"new", "edit", "publish", "look", "move", "install", "caught",
                           "restore", "raise", "drop", "cleanup", "discard", "ended", "dead"}])'
    <2>1. CASE Start(p) \/ Edit(p) \/ EditFails(p) \/ Audit(p) \/ Publish(p)
      <3>1. pc' = pc \/ \E next \in {"edit", "publish", "look", "cleanup", "ended"} :
                           pc' = [pc EXCEPT ![p] = next]
        BY <2>1 DEF Start, Edit, EditFails, Audit, Publish, GoTo, Raise
      <3> QED
        BY <3>1 DEF IInv, TypeOK
    <2>2. CASE Look(p) \/ Move(p) \/ Install(p) \/ Caught(p) \/ Restore(p) \/ Reraise(p)
      BY <2>2 DEF IInv, TypeOK, Look, Move, Install, Restore, Reraise, GoTo, Raise, Caught
    <2>3. CASE Drop(p) \/ Cleanup(p) \/ Discard(p) \/ Kill(p) \/ Interrupt(p)
      BY <2>3 DEF IInv, TypeOK, Drop, Cleanup, Discard, Kill, Interrupt, GoTo, Raise
    <2> QED
      BY <2>1, <2>2, <2>3 DEF Generation
  <1>2. (staging \in [Procs -> {"none", "partial", "whole"}])'
    BY DEF IInv, TypeOK, Generation, Start, Edit, EditFails, Audit, Publish, Look, Move,
           Install, Restore, Reraise, Drop, Cleanup, Discard, Kill, Interrupt, Caught
  <1>3. (output \in Whole \cup {Nothing})'
    BY DEF IInv, TypeOK, Backups, Exchanging, Whole, Generation, Start, Edit, EditFails, Audit,
           Publish, Look, Move, Install, Restore, Reraise, Drop, Cleanup, Discard, Kill,
           Interrupt, Caught
  <1>4. (backup \in [Procs -> Whole \cup {Nothing, Torn}])'
    BY DEF IInv, TypeOK, Generation, Start, Edit, EditFails, Audit, Publish, Look, Move,
           Install, Restore, Reraise, Drop, Cleanup, Discard, Kill, Interrupt, RemoveBackup,
           Caught
  <1>5. (result \in [Procs -> {"none", "ok", "error"}])'
    BY DEF IInv, TypeOK, Generation, Start, Edit, EditFails, Audit, Publish, Look, Move,
           Install, Restore, Reraise, Drop, Cleanup, Discard, Kill, Interrupt, Raise, Caught
  <1>6. (faults \in 0..MaxFaults /\ stops \in 0..1)'
    <2>1. UNCHANGED faults \/ (faults < MaxFaults /\ faults' = faults + 1)
      BY DEF Generation, Start, Edit, EditFails, Audit, Publish, Look, Move, Install, Restore,
             Reraise, Drop, Cleanup, Discard, Kill, Interrupt, Fails, RemoveBackup, Caught
    <2>2. UNCHANGED stops \/ (stops = 0 /\ stops' = stops + 1)
      BY DEF Generation, Start, Edit, EditFails, Audit, Publish, Look, Move, Install, Restore,
             Reraise, Drop, Cleanup, Discard, Kill, Interrupt, Caught
    <2> QED
      BY <2>1, <2>2, GeneratorAssumption DEF IInv, TypeOK
  <1>7. (/\ DOMAIN files = Procs /\ DOMAIN removed = Procs
         /\ \A q \in Procs : /\ DOMAIN files[q] \subseteq DOMAIN Baseline
                             /\ DOMAIN files[q] = DOMAIN removed[q])'
    <2>1. CASE UNCHANGED <<files, removed>>
      BY <2>1 DEF IInv, TypeOK
    <2>2. CASE /\ edited.ok
               /\ files' = [files EXCEPT ![p] = With(@, t, edited.doc)]
               /\ removed' = [removed EXCEPT ![p] = With(@, t, edited.removed)]
      <3>1. t \in DOMAIN Baseline
        BY <2>2 DEF Rejected
      <3> HIDE DEF t, edited
      <3> QED
        BY <2>2, <3>1 DEF IInv, TypeOK, With
    <2>3. CASE Edit(p)
      BY <2>1, <2>2, <2>3 DEF Edit
    <2>4. UNCHANGED <<files, removed>> \/ Edit(p)
      BY DEF Generation, Start, EditFails, Audit, Publish, Look, Move, Install, Restore,
             Reraise, Drop, Cleanup, Discard, Kill, Interrupt, Caught
    <2> QED
      BY <2>1, <2>3, <2>4
  <1>8. (\A q \in Procs : pc[q] \in {"look", "move", "install"} => staging[q] = "whole")'
    BY DEF IInv, TypeOK, Generation, Start, Edit, EditFails, Audit, Publish, Look, Move,
           Install, Restore, Reraise, Drop, Cleanup, Discard, Kill, Interrupt, GoTo, Raise,
           Caught
  <1> QED
    BY <1>1, <1>2, <1>3, <1>4, <1>5, <1>6, <1>7, <1>8 DEF TypeOK

\* A process has a backup only between its move and its end.
LEMMA BackupSteps ==
    ASSUME IInv, NEW p \in Procs, Generation(p) \/ Kill(p) \/ Interrupt(p)
    PROVE  Backups'
  <1>1. CASE Start(p)
    BY <1>1 DEF Start, TypeOK, Backups, Before, Exchanging, IInv, GoTo
  <1>2. CASE Edit(p)
    BY <1>2 DEF Edit, TypeOK, Backups, Before, Exchanging, IInv, GoTo, Raise
  <1>3. CASE EditFails(p)
    BY <1>3 DEF EditFails, TypeOK, Backups, Before, Exchanging, IInv, GoTo, Raise, Fails
  <1>4. CASE Audit(p)
    BY <1>4 DEF Audit, TypeOK, Backups, Before, Exchanging, IInv, GoTo, Raise
  <1>5. CASE Publish(p)
    BY <1>5 DEF Publish, TypeOK, Backups, Before, Exchanging, IInv, GoTo, Raise, Fails
  <1>6. CASE Look(p)
    BY <1>6, Distinct DEF Look, TypeOK, Backups, IInv, GoTo
  <1>7. CASE Move(p)
    BY <1>7, Distinct DEF Move, TypeOK, Backups, Before, Whole, IInv, GoTo, Raise, Fails
  <1>8. CASE Install(p)
    BY <1>8 DEF Install, TypeOK, Backups, Before, Exchanging, IInv, GoTo, Fails
  <1>9. CASE Restore(p)
    BY <1>9 DEF Restore, TypeOK, Backups, Before, Exchanging, IInv, GoTo, Raise, Fails
  <1>10. CASE Reraise(p)
    BY <1>10 DEF Reraise, Backups, Before, Exchanging, IInv, GoTo, Raise
  <1>11. CASE Drop(p)
    BY <1>11 DEF Drop, TypeOK, Backups, Before, Exchanging, IInv, GoTo, Fails, RemoveBackup
  <1>12. CASE Cleanup(p)
    BY <1>12 DEF Cleanup, Backups, Before, Exchanging, IInv, GoTo
  <1>13. CASE Discard(p)
    BY <1>13 DEF Discard, TypeOK, Backups, Before, Exchanging, IInv, GoTo, Fails, RemoveBackup
  <1>14. CASE Kill(p)
    BY <1>14 DEF Kill, TypeOK, Backups, Before, Exchanging, IInv, GoTo
  <1>15. CASE Interrupt(p)
    BY <1>15 DEF Interrupt, Backups, Before, Exchanging, IInv, GoTo
  <1>16. CASE Caught(p)
    BY <1>16 DEF Caught, TypeOK, Backups, Before, Exchanging, IInv, GoTo
  <1> QED
    BY <1>1, <1>2, <1>3, <1>4, <1>5, <1>6, <1>7, <1>8, <1>9, <1>10, <1>11, <1>12, <1>13, <1>14,
       <1>15, <1>16
    DEF Generation

\* A generation that is whole is at the output or in a backup not being removed.
LEMMA SafeSteps ==
    ASSUME IInv, NEW p \in Procs, Generation(p) \/ Kill(p) \/ Interrupt(p)
    PROVE  Safe'
  <1>1. CASE Start(p)
    BY <1>1 DEF Start, TypeOK, Safe, Kept, IInv, GoTo
  <1>2. CASE Edit(p)
    BY <1>2 DEF Edit, TypeOK, Safe, Kept, IInv, GoTo, Raise
  <1>3. CASE EditFails(p)
    BY <1>3 DEF EditFails, Safe, Kept, IInv, GoTo, Raise
  <1>4. CASE Audit(p)
    BY <1>4 DEF Audit, TypeOK, Safe, Kept, IInv, GoTo, Raise
  <1>5. CASE Publish(p)
    BY <1>5 DEF Publish, TypeOK, Safe, Kept, IInv, GoTo, Raise
  <1>6. CASE Look(p)
    BY <1>6 DEF Look, Backups, Safe, Kept, Before, IInv, GoTo
  <1>7. CASE Move(p)
    BY <1>7 DEF Move, TypeOK, Safe, Kept, IInv, GoTo, Raise
  <1>8. CASE Install(p)
    BY <1>8 DEF Install, TypeOK, Safe, Kept, Whole, IInv, GoTo
  <1>9. CASE Restore(p)
    BY <1>9 DEF Restore, TypeOK, Safe, Kept, IInv, GoTo, Raise
  <1>10. CASE Reraise(p)
    BY <1>10 DEF Reraise, Safe, Kept, IInv, GoTo, Raise
  <1>11. CASE Drop(p)
    BY <1>11 DEF Drop, TypeOK, Safe, Kept, IInv, GoTo, RemoveBackup
  <1>12. CASE Cleanup(p)
    BY <1>12 DEF Cleanup, TypeOK, Safe, Kept, IInv, GoTo
  <1>13. CASE Discard(p)
    BY <1>13 DEF Discard, TypeOK, Safe, Kept, IInv, GoTo, RemoveBackup
  <1>14. CASE Kill(p)
    BY <1>14 DEF Kill, TypeOK, Safe, Kept, IInv, GoTo
  <1>15. CASE Interrupt(p)
    BY <1>15 DEF Interrupt, Safe, Kept, IInv, GoTo
  <1>16. CASE Caught(p)
    BY <1>16 DEF Caught, TypeOK, Safe, Kept, IInv, GoTo
  <1> QED
    BY <1>1, <1>2, <1>3, <1>4, <1>5, <1>6, <1>7, <1>8, <1>9, <1>10, <1>11, <1>12, <1>13, <1>14,
       <1>15, <1>16
    DEF Generation

\* What is at the output or in a backup was there, or was reported.
LEMMA ReportSteps ==
    ASSUME IInv, NEW p \in Procs, Generation(p) \/ Kill(p) \/ Interrupt(p)
    PROVE  Reports'
  <1>1. CASE Start(p)
    BY <1>1 DEF Start, TypeOK, Reports, After, IInv, GoTo
  <1>2. CASE Edit(p)
    BY <1>2 DEF Edit, TypeOK, Reports, After, IInv, GoTo, Raise
  <1>3. CASE EditFails(p)
    BY <1>3 DEF EditFails, Reports, After, IInv, GoTo, Raise
  <1>4. CASE Audit(p)
    BY <1>4 DEF Audit, TypeOK, Reports, After, IInv, GoTo, Raise
  <1>5. CASE Publish(p)
    BY <1>5 DEF Publish, TypeOK, Reports, After, IInv, GoTo, Raise
  <1>6. CASE Look(p)
    BY <1>6 DEF Look, Backups, Reports, Before, After, IInv, GoTo
  <1>7. CASE Move(p)
    BY <1>7 DEF Move, TypeOK, Backups, Reports, Before, After, IInv, GoTo, Raise
  <1>8. CASE Install(p)
    BY <1>8 DEF Install, TypeOK, Reports, After, IInv, GoTo
  <1>9. CASE Restore(p)
    BY <1>9 DEF Restore, TypeOK, Reports, After, IInv, GoTo, Raise
  <1>10. CASE Reraise(p)
    BY <1>10 DEF Reraise, Reports, After, IInv, GoTo, Raise
  <1>11. CASE Drop(p)
    BY <1>11, GeneratorAssumption DEF Drop, TypeOK, Reports, After, IInv, GoTo, RemoveBackup
  <1>12. CASE Cleanup(p)
    BY <1>12 DEF Cleanup, Reports, After, IInv, GoTo
  <1>13. CASE Discard(p)
    BY <1>13, GeneratorAssumption DEF Discard, TypeOK, Reports, After, IInv, GoTo, RemoveBackup
  <1>14. CASE Kill(p)
    BY <1>14 DEF Kill, Reports, IInv
  <1>15. CASE Interrupt(p)
    BY <1>15 DEF Interrupt, Reports, IInv
  <1>16. CASE Caught(p)
    BY <1>16 DEF Caught, TypeOK, Reports, After, IInv, GoTo
  <1> QED
    BY <1>1, <1>2, <1>3, <1>4, <1>5, <1>6, <1>7, <1>8, <1>9, <1>10, <1>11, <1>12, <1>13, <1>14,
       <1>15, <1>16
    DEF Generation

\* Without a failing call, who finds the path empty at its replacement fills it.
LEMMA FaultlessSteps ==
    ASSUME IInv, NEW p \in Procs, Generation(p) \/ Kill(p) \/ Interrupt(p)
    PROVE  Faultless'
  <1>1. CASE Start(p)
    BY <1>1 DEF Start, TypeOK, Faultless, Kept, IInv, GoTo
  <1>2. CASE Edit(p)
    BY <1>2 DEF Edit, TypeOK, Faultless, Kept, IInv, GoTo, Raise
  <1>3. CASE EditFails(p)
    BY <1>3 DEF EditFails, TypeOK, Faultless, IInv, Fails
  <1>4. CASE Audit(p)
    BY <1>4 DEF Audit, TypeOK, Faultless, Kept, IInv, GoTo, Raise
  <1>5. CASE Publish(p)
    BY <1>5 DEF Publish, TypeOK, Faultless, Kept, IInv, GoTo, Fails
  <1>6. CASE Look(p)
    BY <1>6 DEF Look, Faultless, Kept, IInv, GoTo
  <1>7. CASE Move(p)
    BY <1>7 DEF Move, TypeOK, Faultless, Kept, IInv, GoTo, Raise, Fails
  <1>8. CASE Install(p)
    <2>1. CASE output' = p
      BY <2>1, Distinct DEF Faultless
    <2>2. CASE output # Nothing /\ UNCHANGED output
      BY <2>2 DEF Faultless
    <2>3. CASE Fails("install")
      BY <1>8, <2>3 DEF Install, TypeOK, Faultless, IInv, Fails
    <2> QED
      BY <1>8, <2>1, <2>2, <2>3 DEF Install
  <1>9. CASE Restore(p)
    <2>1. output' # Nothing \/ Fails("restore")
      BY <1>9 DEF Restore, TypeOK, Backups, IInv
    <2> QED
      BY <1>9, <2>1 DEF Restore, TypeOK, Faultless, IInv, Fails
  <1>10. CASE Reraise(p)
    BY <1>10 DEF Reraise, Faultless, Kept, IInv, GoTo, Raise
  <1>11. CASE Drop(p)
    BY <1>11 DEF Drop, TypeOK, Faultless, Kept, IInv, GoTo, Fails, RemoveBackup
  <1>12. CASE Cleanup(p)
    BY <1>12 DEF Cleanup, Faultless, Kept, IInv, GoTo
  <1>13. CASE Discard(p)
    BY <1>13 DEF Discard, TypeOK, Faultless, Kept, IInv, GoTo, Fails, RemoveBackup
  <1>14. CASE Kill(p)
    BY <1>14 DEF Kill, Faultless, IInv
  <1>15. CASE Interrupt(p)
    BY <1>15 DEF Interrupt, Faultless, IInv
  <1>16. CASE Caught(p)
    BY <1>16 DEF Caught, TypeOK, Faultless, Kept, IInv, GoTo
  <1> QED
    BY <1>1, <1>2, <1>3, <1>4, <1>5, <1>6, <1>7, <1>8, <1>9, <1>10, <1>11, <1>12, <1>13, <1>14,
       <1>15, <1>16
    DEF Generation

\* Of two generations, with one failing call, the second has what the first left.
LEMMA TwoSteps ==
    ASSUME IInv, NEW p \in Procs, Generation(p) \/ Kill(p) \/ Interrupt(p)
    PROVE  Two'
  <1>1. CASE Start(p)
    BY <1>1, Distinct
    DEF Start, TypeOK, Backups, Two, Calm, Reported, Before, Exchanging, After, Whole, IInv,
        GoTo
  <1>2. CASE Edit(p)
    BY <1>2, Distinct
    DEF Edit, TypeOK, Backups, Two, Calm, Reported, Before, After, Whole, IInv, GoTo, Raise
  <1>3. CASE EditFails(p)
    BY <1>3, Distinct
    DEF EditFails, TypeOK, Backups, Two, Calm, Reported, Before, After, Whole, IInv, GoTo,
        Raise, Fails
  <1>4. CASE Audit(p)
    BY <1>4, Distinct
    DEF Audit, TypeOK, Backups, Two, Calm, Reported, Before, After, Whole, IInv, GoTo, Raise
  <1>5. CASE Publish(p)
    BY <1>5, Distinct
    DEF Publish, TypeOK, Backups, Two, Calm, Reported, Before, After, Whole, IInv, GoTo, Raise,
        Fails
  <1>6. CASE Look(p)
    BY <1>6 DEF Look, TypeOK, Two, Calm, Reported, After, IInv, GoTo
  <1>7. CASE Move(p)
    BY <1>7, Distinct
    DEF Move, TypeOK, Backups, Two, Calm, Reported, Before, Exchanging, After, Whole, IInv,
        GoTo, Raise, Fails
  <1>8. CASE Install(p)
    BY <1>8, Distinct
    DEF Install, TypeOK, Two, Calm, AtMostTwo, Reported, Before, Exchanging, After, Whole, IInv,
        GoTo, Fails
  <1>9. CASE Restore(p)
    BY <1>9, GeneratorAssumption
    DEF Restore, TypeOK, Backups, Reports, Two, Calm, AtMostTwo, Reported, Exchanging, After,
        Whole, IInv, GoTo, Raise, Fails
  <1>10. CASE Reraise(p)
    BY <1>10 DEF Reraise, Two, Calm, Reported, Exchanging, After, IInv, GoTo, Raise
  <1>11. CASE Drop(p)
    BY <1>11, Distinct
    DEF Drop, TypeOK, Two, Calm, Reported, Before, Exchanging, After, Whole, IInv, GoTo, Fails,
        RemoveBackup
  <1>12. CASE Cleanup(p)
    BY <1>12, Distinct
    DEF Cleanup, Two, Calm, Reported, Before, Exchanging, After, Whole, IInv, GoTo
  <1>13. CASE Discard(p)
    BY <1>13, Distinct
    DEF Discard, TypeOK, Two, Calm, Reported, Before, Exchanging, After, Whole, IInv, GoTo,
        Fails, RemoveBackup
  <1>14. CASE Kill(p)
    BY <1>14 DEF Kill, Two, Calm, IInv
  <1>15. CASE Interrupt(p)
    BY <1>15 DEF Interrupt, Two, Calm, IInv
  <1>16. CASE Caught(p)
    BY <1>16, Distinct
    DEF Caught, TypeOK, Backups, Two, Calm, AtMostTwo, Reported, Before, Exchanging, After, Whole,
        IInv, GoTo
  <1> QED
    BY <1>1, <1>2, <1>3, <1>4, <1>5, <1>6, <1>7, <1>8, <1>9, <1>10, <1>11, <1>12, <1>13, <1>14,
       <1>15, <1>16
    DEF Generation

\* Every step keeps the inductive invariant.
LEMMA Step == IInv /\ [Next]_vars => IInv'
  <1> SUFFICES ASSUME IInv, [Next]_vars PROVE IInv'
    OBVIOUS
  <1>1. CASE Capture
    BY <1>1
    DEF Capture, IInv, TypeOK, Backups, Safe, Kept, Reports, Faultless, Reported, Two, Calm
  <1>2. ASSUME NEW p \in Procs, Generation(p) \/ Kill(p) \/ Interrupt(p) PROVE IInv'
    BY <1>2, Types, BackupSteps, SafeSteps, ReportSteps, FaultlessSteps, TwoSteps DEF IInv
  <1>3. CASE UNCHANGED vars
    BY <1>3 DEF vars, IInv, TypeOK, Backups, Safe, Kept, Reports, Faultless, Reported, Two, Calm
  <1> QED
    BY <1>1, <1>2, <1>3 DEF Next

-----------------------------------------------------------------------------
\* The inductive invariant holds in every state.
THEOREM Invariance == Spec => []IInv
  BY Initially, Step, PTL DEF Spec

\* The types, for any number of generations.
THEOREM TypeCorrect == Spec => []TypeOK
  <1>1. IInv => TypeOK
    BY DEF IInv
  <1> QED
    BY <1>1, Invariance, PTL

\* Once there is a whole generation, no step of any of the processes, no failing
\* call and no kill destroys the last one.
THEOREM PublishedStays == Spec => PublishedSurvives
  <1>1. IInv /\ [Next]_vars => [Kept => Kept']_vars
    <2> SUFFICES ASSUME IInv, Next, Kept PROVE Kept'
      OBVIOUS
    <2>1. CASE Capture
      BY <2>1 DEF Capture, Kept
    <2>2. ASSUME NEW p \in Procs, Generation(p) \/ Kill(p) \/ Interrupt(p) PROVE Kept'
      <3> DEFINE Held == \/ output \in Whole
                         \/ \E q \in Procs : backup[q] \in Whole /\ pc[q] \notin {"drop", "discard"}
      <3>1. Held
        BY DEF IInv, Safe
      <3>2. CASE Start(p) \/ Edit(p) \/ EditFails(p) \/ Audit(p) \/ Publish(p)
                   \/ Caught(p) \/ Reraise(p) \/ Cleanup(p) \/ Interrupt(p)
        BY <3>2 DEF Kept, Start, Edit, EditFails, Audit, Publish, Reraise, Cleanup, Interrupt,
                    Caught
      <3>3. CASE Look(p) \/ Move(p) \/ Install(p) \/ Restore(p)
        BY <3>3 DEF IInv, TypeOK, Backups, Before, Kept, Whole, Look, Move, Install, Restore
      <3>4. CASE Drop(p) \/ Discard(p) \/ Kill(p)
        BY <3>1, <3>4 DEF IInv, TypeOK, Kept, Drop, Discard, RemoveBackup, Kill
      <3> QED
        BY <2>2, <3>2, <3>3, <3>4 DEF Generation
    <2> QED
      BY <2>1, <2>2 DEF Next
  <1> QED
    BY <1>1, Invariance, PTL DEF Spec, PublishedSurvives

\* Without a stop the output is in the end what was there or a reported success,
\* and without a failing call the path is not left empty.
THEOREM OutputReported == Spec => []OutputIsReported
  <1>1. IInv => OutputIsReported
    BY DEF IInv, TypeOK, Reports, Faultless, OutputIsReported, Running, Reported, Whole
  <1> QED
    BY <1>1, Invariance, PTL

\* Two generations and one failing call: no success is undone and no backup is
\* left.
THEOREM TwoKeepOutput == Spec => []FailureKeepsOutput
  <1>1. IInv => FailureKeepsOutput
    BY Distinct
    DEF IInv, Backups, Reports, Two, Calm, FailureKeepsOutput, Running, Whole, Before
  <1> QED
    BY <1>1, Invariance, PTL
-----------------------------------------------------------------------------
(* The audit. *)

\* Every target of the operations has its document, and the audit finds nothing
\* between those and the baseline.
PassedAudit(p) == Targets(p) = DOMAIN files[p] /\ Findings(p) = {}

\* What is published has passed the audit.
PublishedAudited == \A p \in Procs : result[p] = "ok" => PassedAudit(p)

\* From the audit to the report, and after it, nothing touches what was audited.
Audited ==
    /\ DOMAIN ops = Procs
    /\ \A p \in Procs :
          /\ pc[p] \in {"new", "edit"} => result[p] = "none"
          /\ pc[p] \in {"publish", "look", "move", "install"} \/ result[p] = "ok" => PassedAudit(p)

\* Nothing is reported at the start.
LEMMA AuditInitially == Init => Audited
  BY DEF Init, Audited

\* The audit of a process depends on what is its own.
LEMMA SameAudit ==
    ASSUME NEW q \in Procs, PassedAudit(q),
           ops'[q] = ops[q], files'[q] = files[q], removed'[q] = removed[q]
    PROVE  PassedAudit(q)'
  <1>1. Targets(q)' = Targets(q)
    BY DEF Targets
  <1>2. Findings(q)' = Findings(q)
    BY DEF Findings
  <1> QED
    BY <1>1, <1>2 DEF PassedAudit

\* Every step keeps it: the audit comes after the last edit and before the publication.
LEMMA AuditStep == IInv /\ Audited /\ [Next]_vars => Audited'
  <1> SUFFICES ASSUME IInv, Audited, [Next]_vars PROVE Audited'
    OBVIOUS
  <1>1. DOMAIN files = Procs /\ DOMAIN removed = Procs /\ DOMAIN ops = Procs
    BY DEF IInv, TypeOK, Audited
  <1>2. CASE Capture \/ UNCHANGED vars
    <2>1. pc' = pc /\ result' = result /\ ops' = ops /\ files' = files /\ removed' = removed
      BY <1>2 DEF Capture, vars
    <2> QED
      BY <2>1, SameAudit DEF Audited
  <1>3. ASSUME NEW p \in Procs, Generation(p) \/ Kill(p) \/ Interrupt(p) PROVE Audited'
    <2> DEFINE labels == {"new", "edit", "publish", "look", "move", "install", "caught",
                          "restore", "raise", "drop", "cleanup", "discard", "ended", "dead"}
    <2>1. pc \in [Procs -> labels] /\ result \in [Procs -> {"none", "ok", "error"}]
      BY DEF IInv, TypeOK
    <2>2. DOMAIN ops' = Procs
      BY <1>1, <1>3
      DEF Generation, Start, Edit, EditFails, Audit, Publish, Look, Move, Install, Restore,
          Reraise, Drop, Cleanup, Discard, Kill, Interrupt, Caught
    <2>3. ASSUME NEW q \in Procs, q # p
          PROVE  /\ pc'[q] = pc[q] /\ result'[q] = result[q] /\ ops'[q] = ops[q]
                 /\ files'[q] = files[q] /\ removed'[q] = removed[q]
      <3>1. pc'[q] = pc[q] /\ result'[q] = result[q]
        <4>1. CASE Start(p) \/ Edit(p) \/ EditFails(p) \/ Audit(p) \/ Publish(p)
          BY <2>1, <2>3, <4>1 DEF Start, Edit, EditFails, Audit, Publish, GoTo, Raise
        <4>2. CASE Look(p) \/ Move(p) \/ Install(p) \/ Caught(p) \/ Restore(p) \/ Reraise(p)
          BY <2>1, <2>3, <4>2 DEF Look, Move, Install, Restore, Reraise, GoTo, Raise, Caught
        <4>3. CASE Drop(p) \/ Cleanup(p) \/ Discard(p) \/ Kill(p) \/ Interrupt(p)
          BY <2>1, <2>3, <4>3 DEF Drop, Cleanup, Discard, Kill, Interrupt, GoTo
        <4> QED
          BY <1>3, <4>1, <4>2, <4>3 DEF Generation
      <3>2. ops'[q] = ops[q] /\ files'[q] = files[q] /\ removed'[q] = removed[q]
        BY <1>1, <1>3, <2>3
        DEF Generation, Start, Edit, EditFails, Audit, Publish, Look, Move, Install, Restore,
            Reraise, Drop, Cleanup, Discard, Kill, Interrupt, Caught
      <3> QED
        BY <3>1, <3>2
    <2>4. /\ pc'[p] \in {"new", "edit"} => result'[p] = "none"
          /\ pc'[p] \in {"publish", "look", "move", "install"} \/ result'[p] = "ok" => PassedAudit(p)'
      <3>1. CASE Start(p) \/ Edit(p) \/ EditFails(p)
        BY <2>1, <3>1 DEF Start, Edit, EditFails, GoTo, Raise, Audited
      <3>2. CASE ~(Start(p) \/ Edit(p) \/ EditFails(p))
        <4>1. ops' = ops /\ files' = files /\ removed' = removed
          BY <1>3, <3>2
          DEF Generation, Audit, Publish, Look, Move, Install, Restore, Reraise, Drop, Cleanup,
              Discard, Kill, Interrupt, Caught
        <4>2. PassedAudit(p) => PassedAudit(p)'
          BY <4>1, SameAudit
        <4>3. CASE Audit(p)
          BY <2>1, <4>2, <4>3 DEF Audit, GoTo, Raise, Audited, PassedAudit
        <4>4. CASE Publish(p) \/ Look(p) \/ Move(p) \/ Install(p)
          BY <2>1, <4>2, <4>4 DEF Publish, Look, Move, Install, GoTo, Raise, Audited
        <4>5. CASE Caught(p) \/ Restore(p) \/ Reraise(p) \/ Drop(p) \/ Cleanup(p) \/ Discard(p)
          BY <2>1, <4>2, <4>5 DEF Restore, Reraise, Drop, Cleanup, Discard, GoTo, Raise, Audited,
                                  Caught
        <4>6. CASE Kill(p) \/ Interrupt(p)
          BY <2>1, <4>2, <4>6 DEF Kill, Interrupt, GoTo, Audited
        <4> QED
          BY <1>3, <3>2, <4>3, <4>4, <4>5, <4>6 DEF Generation
      <3> QED
        BY <3>1, <3>2
    <2>5. ASSUME NEW q \in Procs
          PROVE  /\ pc'[q] \in {"new", "edit"} => result'[q] = "none"
                 /\ pc'[q] \in {"publish", "look", "move", "install"} \/ result'[q] = "ok" =>
                       PassedAudit(q)'
      <3>1. CASE q = p
        BY <2>4, <3>1
      <3>2. CASE q # p
        BY <2>3, <3>2, SameAudit DEF Audited
      <3> QED
        BY <3>1, <3>2
    <2> QED
      BY <2>2, <2>5 DEF Audited
  <1> QED
    BY <1>2, <1>3 DEF Next

\* A generation that reports success has a document for each target of its operations,
\* and each has passed the audit as it was published, whatever failed and whatever
\* the other generations did.
THEOREM AuditedBeforePublished == Spec => []PublishedAudited
  <1>1. Audited => PublishedAudited
    BY DEF Audited, PublishedAudited
  <1> QED
    BY <1>1, AuditInitially, AuditStep, Invariance, PTL DEF Spec

-----------------------------------------------------------------------------
(* The property plan. *)

\* In a finite set that an order makes a chain each element has a rank of its own,
\* the number of those below it, and every rank below the size is taken.
LEMMA Ranks ==
    ASSUME NEW D, IsFiniteSet(D), NEW R,
           \A a \in D : <<a, a>> \notin R,
           \A a, b, c \in D : <<a, b>> \in R /\ <<b, c>> \in R => <<a, c>> \in R,
           \A a, b \in D : a # b => <<a, b>> \in R \/ <<b, a>> \in R,
           NEW rank, rank = [d \in D |-> Cardinality({e \in D : <<e, d>> \in R})]
    PROVE  /\ rank \in Bijection(D, 0..(Cardinality(D) - 1))
           /\ \A a, b \in D : <<a, b>> \in R => rank[a] < rank[b]
  <1> DEFINE Below(d) == {e \in D : <<e, d>> \in R}
             n == Cardinality(D)
  <1>1. n \in Nat
    BY FS_CardinalityType
  <1>2. ASSUME NEW d \in D PROVE IsFiniteSet(Below(d)) /\ Cardinality(Below(d)) \in 0..(n - 1)
    <2>1. Below(d) \in SUBSET (D \ {d})
      OBVIOUS
    <2>2. IsFiniteSet(D \ {d}) /\ Cardinality(D \ {d}) = n - 1
      BY FS_RemoveElement
    <2> HIDE DEF Below, n
    <2>3. IsFiniteSet(Below(d)) /\ Cardinality(Below(d)) <= n - 1
      BY <2>1, <2>2, FS_Subset
    <2>4. Cardinality(Below(d)) \in Nat
      BY <2>3, FS_CardinalityType
    <2> QED
      BY <1>1, <2>3, <2>4
  <1>3. ASSUME NEW a \in D, NEW b \in D, <<a, b>> \in R
        PROVE  Cardinality(Below(a)) < Cardinality(Below(b))
    <2>1. Below(a) \in SUBSET Below(b) /\ a \in Below(b) /\ a \notin Below(a)
      BY <1>3
    <2>2. /\ IsFiniteSet(Below(b)) /\ Cardinality(Below(a)) \in 0..(n - 1)
          /\ Cardinality(Below(b)) \in 0..(n - 1)
      BY <1>2
    <2> HIDE DEF Below, n
    <2>3. /\ Cardinality(Below(a)) <= Cardinality(Below(b))
          /\ Cardinality(Below(a)) # Cardinality(Below(b))
      BY <2>1, <2>2, FS_Subset
    <2> QED
      BY <1>1, <2>2, <2>3
  <1>4. \A d \in D : rank[d] = Cardinality(Below(d))
    OBVIOUS
  <1>5. rank \in [D -> 0..(n - 1)]
    BY <1>2
  <1> HIDE DEF Below
  <1>6. \A a, b \in D : <<a, b>> \in R => rank[a] < rank[b]
    BY <1>3, <1>4
  <1>7. \A a, b \in D : rank[a] = rank[b] => a = b
    <2> SUFFICES ASSUME NEW a \in D, NEW b \in D, <<a, b>> \in R, rank[a] = rank[b] PROVE FALSE
      OBVIOUS
    <2>1. rank[a] \in 0..(n - 1) /\ rank[b] \in 0..(n - 1)
      BY <1>5
    <2>2. rank[a] < rank[b]
      BY <1>6
    <2> HIDE DEF n
    <2> QED
      BY <1>1, <2>1, <2>2
  <1>8. rank \in Injection(D, 0..(n - 1))
    <2> HIDE DEF n
    <2> QED
      BY <1>5, <1>7, Fun_IsInj
  <1>9. IsFiniteSet(0..(n - 1)) /\ Cardinality(0..(n - 1)) = n
    <2> HIDE DEF n
    <2> QED
      BY <1>1, FS_Interval
  <1>10. rank \in Surjection(D, 0..(n - 1))
    BY <1>8, <1>9, FS_Injection
  <1> QED
    BY <1>6, <1>8, <1>10 DEF Bijection

\* The order of the rows, of operations no two of which have the same key.
LEMMA PrecedesOrders ==
    ASSUME NEW wanted, DistinctKeys(wanted),
           \A at \in DOMAIN wanted :
               /\ wanted[at].stage \in DOMAIN StageOrder
               /\ wanted[at].feature \in Nat /\ wanted[at].key \in Nat
    PROVE  /\ \A a \in DOMAIN wanted : ~Precedes(wanted[a], wanted[a])
           /\ \A a, b, c \in DOMAIN wanted :
                 Precedes(wanted[a], wanted[b]) /\ Precedes(wanted[b], wanted[c]) => Precedes(wanted[a], wanted[c])
           /\ \A a, b \in DOMAIN wanted :
                 a # b => Precedes(wanted[a], wanted[b]) \/ Precedes(wanted[b], wanted[a])
  <1>1. \A stage \in DOMAIN StageOrder : StageOrder[stage] \in Nat
    BY DEF StageOrder
  <1>2. \A at \in DOMAIN wanted :
            StageOrder[wanted[at].stage] \in Nat /\ wanted[at].feature \in Nat /\ wanted[at].key \in Nat
    BY <1>1
  <1>3. \A a, b \in DOMAIN wanted : a # b => wanted[a].key # wanted[b].key
    BY DEF DistinctKeys
  <1> QED
    BY <1>2, <1>3 DEF Precedes

\* The plan has for each operation one row, at its rank, and the rows are in order.
LEMMA PlanRows ==
    ASSUME NEW wanted, IsFiniteSet(DOMAIN wanted), DistinctKeys(wanted), NEW snap,
           \A at \in DOMAIN wanted :
               /\ wanted[at].stage \in DOMAIN StageOrder
               /\ wanted[at].feature \in Nat /\ wanted[at].key \in Nat,
           NEW rows, rows = BuildPropertyPlan(wanted, snap)
    PROVE  /\ DOMAIN rows = 1..Cardinality(DOMAIN wanted)
           /\ \A i \in DOMAIN rows : \E at \in DOMAIN wanted :
                 /\ rows[i].feature = wanted[at].feature /\ rows[i].stage = wanted[at].stage
                 /\ rows[i].key = wanted[at].key /\ rows[i].value = wanted[at].value
                 /\ rows[i].mode = wanted[at].mode /\ rows[i].restart = wanted[at].restart
                 /\ rows[i].baseline = snap[wanted[at].key] /\ Rank(wanted, at) = i - 1
           /\ \A i, k \in DOMAIN rows : i < k => Precedes(rows[i], rows[k])
           /\ \A at \in DOMAIN wanted : \E i \in DOMAIN rows : rows[i].key = wanted[at].key
  <1> DEFINE D == DOMAIN wanted
             n == Cardinality(D)
             R == {pair \in D \X D : Precedes(wanted[pair[1]], wanted[pair[2]])}
             rank == [d \in D |-> Cardinality({e \in D : <<e, d>> \in R})]
             Chosen(i) == CHOOSE at \in D : Rank(wanted, at) = i - 1
  <1>1. \A a, b \in D : <<a, b>> \in R <=> Precedes(wanted[a], wanted[b])
    OBVIOUS
  <1>2. n \in Nat
    BY FS_CardinalityType
  <1>3. rank \in Bijection(D, 0..(n - 1)) /\ \A a, b \in D : <<a, b>> \in R => rank[a] < rank[b]
    <2>1. /\ \A a \in D : <<a, a>> \notin R
          /\ \A a, b, c \in D : <<a, b>> \in R /\ <<b, c>> \in R => <<a, c>> \in R
          /\ \A a, b \in D : a # b => <<a, b>> \in R \/ <<b, a>> \in R
      BY <1>1, PrecedesOrders
    <2>2. IsFiniteSet(D)
      OBVIOUS
    <2> HIDE DEF D, R
    <2> QED
      BY <2>1, <2>2, Ranks
  <1>4. \A d \in D : Rank(wanted, d) = rank[d]
    <2>1. ASSUME NEW d \in D
          PROVE  {e \in D : <<e, d>> \in R} = {e \in DOMAIN wanted : Precedes(wanted[e], wanted[d])}
      BY <1>1
    <2> HIDE DEF R
    <2> QED
      BY <2>1 DEF Rank
  <1> HIDE DEF rank, R
  <1>5. ASSUME NEW i \in 1..n PROVE Chosen(i) \in D /\ Rank(wanted, Chosen(i)) = i - 1
    <2>1. i - 1 \in 0..(n - 1)
      BY <1>2
    <2>2. \E at \in D : rank[at] = i - 1
      <3>1. \A t \in 0..(n - 1) : \E at \in D : rank[at] = t
        BY <1>3 DEF Bijection, Surjection
      <3> QED
        BY <2>1, <3>1
    <2>3. \E at \in D : Rank(wanted, at) = i - 1
      BY <1>4, <2>2
    <2> QED
      BY <2>3
  <1>6. DOMAIN rows = 1..n
    BY DEF BuildPropertyPlan
  <1>7. \A i \in 1..n :
           /\ rows[i].feature = wanted[Chosen(i)].feature /\ rows[i].stage = wanted[Chosen(i)].stage
           /\ rows[i].key = wanted[Chosen(i)].key /\ rows[i].value = wanted[Chosen(i)].value
           /\ rows[i].mode = wanted[Chosen(i)].mode /\ rows[i].restart = wanted[Chosen(i)].restart
           /\ rows[i].baseline = snap[wanted[Chosen(i)].key]
    BY DEF BuildPropertyPlan
  <1> HIDE DEF Chosen
  <1>8. \A i, k \in 1..n : i < k => Precedes(rows[i], rows[k])
    <2> SUFFICES ASSUME NEW i \in 1..n, NEW k \in 1..n, i < k PROVE Precedes(rows[i], rows[k])
      OBVIOUS
    <2>1. /\ Chosen(i) \in D /\ rank[Chosen(i)] = i - 1
          /\ Chosen(k) \in D /\ rank[Chosen(k)] = k - 1
      BY <1>4, <1>5
    <2>2. Chosen(i) # Chosen(k) /\ ~(rank[Chosen(k)] < rank[Chosen(i)])
      BY <1>2, <2>1
    <2>3. Precedes(wanted[Chosen(i)], wanted[Chosen(k)])
      BY <1>1, <1>3, <2>1, <2>2, PrecedesOrders
    <2> QED
      BY <1>7, <2>3 DEF Precedes
  <1>9. ASSUME NEW at \in D PROVE \E i \in 1..n : rows[i].key = wanted[at].key
    <2>1. rank[at] \in 0..(n - 1)
      BY <1>3 DEF Bijection, Injection
    <2>2. rank[at] + 1 \in 1..n /\ (rank[at] + 1) - 1 = rank[at]
      BY <1>2, <2>1
    <2>3. Chosen(rank[at] + 1) = at
      <3>1. Chosen(rank[at] + 1) \in D /\ rank[Chosen(rank[at] + 1)] = rank[at]
        BY <1>4, <1>5, <2>2
      <3> QED
        BY <1>3, <3>1, Fun_BijectionProperties
    <2> QED
      BY <1>7, <2>2, <2>3
  <1> HIDE DEF n
  <1> QED
    BY <1>5, <1>6, <1>7, <1>8, <1>9 DEF n

\* What the device has of the properties in a snapshot.
Stock(key) == IF key \in DOMAIN Live THEN Live[key] ELSE Absent

\* A snapshot says what the device has, and a plan is one the device accepts,
\* even before it is published.
Captured == snapshot # Nothing => \A key \in DOMAIN snapshot : snapshot[key] = Stock(key)
Planned ==
    /\ DOMAIN plan = Procs
    /\ \A p \in Procs, stage \in DOMAIN StageOrder : DeviceAccepts(plan[p], stage, Live)
PInv == Captured /\ Planned

\* The operations that set properties are finitely many, and numbered.
LEMMA OperationsFinite ==
    ASSUME NEW p \in Procs, NEW catalog \in CatalogsOf[p], NEW selected,
           NEW wanted, wanted = PropertyOperations(catalog, selected)
    PROVE  /\ IsFiniteSet(DOMAIN wanted)
           /\ \A at \in DOMAIN wanted : wanted[at].feature \in Nat /\ wanted[at].key \in Nat
  <1> DEFINE enabled == {i \in DOMAIN catalog : IsEnabled(catalog[i], selected)}
             Of(i) == {i} \X DOMAIN catalog[i].operations
             groups == {Of(i) : i \in enabled}
             places == UNION groups
             OpAt(at) == catalog[at[1]].operations[at[2]]
  <1>1. DOMAIN wanted = {at \in places : OpAt(at).type = "property_set"}
    BY DEF PropertyOperations
  <1>2. \A i \in enabled : IsFiniteSet(Of(i))
    <2> SUFFICES ASSUME NEW i \in enabled PROVE IsFiniteSet(Of(i))
      OBVIOUS
    <2>1. IsFiniteSet(DOMAIN catalog[i].operations)
      BY CatalogAssumption
    <2>2. IsFiniteSet({i})
      BY FS_Singleton
    <2> QED
      BY <2>1, <2>2, FS_Product
  <1>3. IsFiniteSet(enabled)
    <2>1. IsFiniteSet(DOMAIN catalog)
      BY CatalogAssumption
    <2> QED
      BY <2>1, FS_Subset
  <1>4. IsFiniteSet(groups)
    <2> DEFINE of == [i \in enabled |-> Of(i)]
    <2>1. of \in Surjection(enabled, groups)
      <3>1. of \in [enabled -> groups]
        OBVIOUS
      <3>2. \A g \in groups : \E i \in enabled : of[i] = g
        OBVIOUS
      <3> HIDE DEF of, groups, enabled
      <3> QED
        BY <3>1, <3>2, Fun_IsSurj
    <2> HIDE DEF of, groups, enabled
    <2> QED
      BY <1>3, <2>1, FS_Surjection
  <1>5. IsFiniteSet(places)
    <2>1. \A g \in groups : IsFiniteSet(g)
      BY <1>2
    <2> HIDE DEF groups
    <2> QED
      BY <1>4, <2>1, FS_UNION
  <1>6. IsFiniteSet(DOMAIN wanted)
    <2>1. DOMAIN wanted \in SUBSET places
      BY <1>1
    <2> HIDE DEF places
    <2> QED
      BY <1>5, <2>1, FS_Subset
  <1>7. ASSUME NEW at \in DOMAIN wanted PROVE wanted[at].feature \in Nat /\ wanted[at].key \in Nat
    <2>1. PICK i \in enabled : at \in Of(i)
      BY <1>1, <1>7
    <2>2. at[1] \in DOMAIN catalog /\ at[2] \in DOMAIN catalog[at[1]].operations
      BY <2>1
    <2>3. OpAt(at).type = "property_set"
      BY <1>1, <1>7
    <2>4. catalog[at[1]].id \in Nat /\ OpAt(at).key \in Nat
      BY <2>2, <2>3, CatalogAssumption
    <2>5. wanted[at].feature = catalog[at[1]].id /\ wanted[at].key = OpAt(at).key
      BY <1>7 DEF PropertyOperations
    <2> QED
      BY <2>4, <2>5
  <1> QED
    BY <1>6, <1>7

\* What build_property_plan lets through the device accepts, if the snapshot says
\* what the device has.
LEMMA PlanAccepted ==
    ASSUME NEW wanted, IsFiniteSet(DOMAIN wanted), NEW snap, CanPlan(wanted, snap),
           \A at \in DOMAIN wanted : wanted[at].feature \in Nat /\ wanted[at].key \in Nat,
           \A key \in DOMAIN snap : snap[key] = Stock(key),
           NEW stage
    PROVE  DeviceAccepts(BuildPropertyPlan(wanted, snap), stage, Live)
  <1> DEFINE rows == BuildPropertyPlan(wanted, snap)
  <1>1. \A at \in DOMAIN wanted : ValidOperation(wanted[at]) /\ wanted[at].key \in DOMAIN snap
    BY DEF CanPlan
  <1>2. DistinctKeys(wanted)
    BY DEF CanPlan
  <1>3. \A at \in DOMAIN wanted : wanted[at].stage \in DOMAIN StageOrder
    BY <1>1 DEF ValidOperation
  <1>4. /\ DOMAIN rows = 1..Cardinality(DOMAIN wanted)
        /\ \A i \in DOMAIN rows : \E at \in DOMAIN wanted :
              /\ rows[i].feature = wanted[at].feature /\ rows[i].stage = wanted[at].stage
              /\ rows[i].key = wanted[at].key /\ rows[i].value = wanted[at].value
              /\ rows[i].mode = wanted[at].mode /\ rows[i].restart = wanted[at].restart
              /\ rows[i].baseline = snap[wanted[at].key] /\ Rank(wanted, at) = i - 1
    BY <1>2, <1>3, PlanRows
  <1> HIDE DEF rows
  <1>5. ASSUME NEW i \in DOMAIN rows
        PROVE  /\ rows[i].key \notin ProtectedKeys /\ rows[i].value \notin LongValues
               /\ rows[i].stage \in DOMAIN StageOrder
               /\ rows[i].mode \in Modes /\ rows[i].restart \in Restarts
               /\ rows[i].stage = "early" => rows[i].mode = "direct"
               /\ rows[i].mode = "trigger" => rows[i].restart # "none"
               /\ rows[i].baseline = Stock(rows[i].key)
    <2>1. PICK at \in DOMAIN wanted :
              /\ rows[i].stage = wanted[at].stage /\ rows[i].key = wanted[at].key
              /\ rows[i].value = wanted[at].value /\ rows[i].mode = wanted[at].mode
              /\ rows[i].restart = wanted[at].restart
              /\ rows[i].baseline = snap[wanted[at].key]
      BY <1>4
    <2>2. ValidOperation(wanted[at]) /\ wanted[at].key \in DOMAIN snap
      BY <1>1
    <2>3. snap[wanted[at].key] = Stock(wanted[at].key)
      BY <2>2
    <2> QED
      BY <2>1, <2>2, <2>3 DEF ValidOperation
  <1>6. ASSUME NEW i \in DOMAIN rows, NEW k \in DOMAIN rows, rows[i].key = rows[k].key PROVE i = k
    <2>1. PICK a \in DOMAIN wanted : rows[i].key = wanted[a].key /\ Rank(wanted, a) = i - 1
      BY <1>4
    <2>2. PICK b \in DOMAIN wanted : rows[k].key = wanted[b].key /\ Rank(wanted, b) = k - 1
      BY <1>4
    <2>3. a = b
      BY <1>2, <1>6, <2>1, <2>2 DEF DistinctKeys
    <2>4. i \in Int /\ k \in Int
      BY <1>4
    <2> QED
      BY <2>1, <2>2, <2>3, <2>4
  <1>7. DeviceAccepts(rows, stage, Live)
    BY <1>5, <1>6 DEF DeviceAccepts, Stock
  <1> QED
    BY <1>7 DEF rows

\* Nothing is captured and nothing planned.
LEMMA PlanInitially == Init => PInv
  <1> SUFFICES ASSUME Init PROVE PInv
    OBVIOUS
  <1>1. snapshot = Nothing /\ plan = [p \in Procs |-> <<>>]
    BY DEF Init
  <1>2. \A stage : DeviceAccepts(<<>>, stage, Live)
    BY DEF DeviceAccepts
  <1> QED
    BY <1>1, <1>2 DEF PInv, Captured, Planned

\* Every step keeps it: only the capture and the start of a generation touch it.
LEMMA PlanStep == PInv /\ [Next]_vars => PInv'
  <1> SUFFICES ASSUME PInv, [Next]_vars PROVE PInv'
    OBVIOUS
  <1>1. CASE Capture
    <2>1. PICK catalog, selected : snapshot' = CaptureSnapshot(catalog, selected, Live)
      BY <1>1 DEF Capture
    <2>2. \A key \in DOMAIN snapshot' : snapshot'[key] = Stock(key)
      BY <2>1 DEF CaptureSnapshot, Stock
    <2>3. plan' = plan
      BY <1>1 DEF Capture
    <2> QED
      BY <2>2, <2>3 DEF PInv, Captured, Planned
  <1>2. ASSUME NEW p \in Procs, Start(p) PROVE PInv'
    <2>1. snapshot' = snapshot
      BY <1>2 DEF Start
    <2>2. CASE plan' = plan
      BY <2>1, <2>2 DEF PInv, Captured, Planned
    <2>3. ASSUME NEW catalog \in CatalogsOf[p], NEW selected,
                 CanGenerate(catalog, selected),
                 plan' = [plan EXCEPT ![p] =
                             LET rows == PropertyOperations(catalog, selected)
                             IN  IF DOMAIN rows = {} THEN <<>> ELSE BuildPropertyPlan(rows, snapshot)]
          PROVE  PInv'
      <3> DEFINE wanted == PropertyOperations(catalog, selected)
                 rows == IF DOMAIN wanted = {} THEN <<>> ELSE BuildPropertyPlan(wanted, snapshot)
      <3>1. DOMAIN plan' = Procs /\ \A q \in Procs : plan'[q] = IF q = p THEN rows ELSE plan[q]
        BY <2>3 DEF PInv, Planned
      <3>2. \A stage \in DOMAIN StageOrder : DeviceAccepts(rows, stage, Live)
        <4>1. CASE DOMAIN wanted = {}
          BY <4>1 DEF DeviceAccepts
        <4>2. CASE DOMAIN wanted # {}
          <5>1. CanPlan(wanted, snapshot) /\ \A key \in DOMAIN snapshot : snapshot[key] = Stock(key)
            BY <2>3, <4>2 DEF CanGenerate, PInv, Captured
          <5>2. /\ IsFiniteSet(DOMAIN wanted)
                /\ \A at \in DOMAIN wanted : wanted[at].feature \in Nat /\ wanted[at].key \in Nat
            BY OperationsFinite
          <5> HIDE DEF wanted
          <5> QED
            BY <4>2, <5>1, <5>2, PlanAccepted
        <4> QED
          BY <4>1, <4>2
      <3> HIDE DEF rows
      <3> QED
        BY <2>1, <3>1, <3>2 DEF PInv, Captured, Planned
    <2> QED
      BY <1>2, <2>2, <2>3 DEF Start
  <1>3. ASSUME NEW p \in Procs, Generation(p) \/ Kill(p) \/ Interrupt(p), ~Start(p) PROVE PInv'
    <2>1. plan' = plan /\ snapshot' = snapshot
      BY <1>3
      DEF Generation, Edit, EditFails, Audit, Publish, Look, Move, Install, Restore, Reraise,
          Drop, Cleanup, Discard, Kill, Interrupt, Caught
    <2> QED
      BY <2>1 DEF PInv, Captured, Planned
  <1>4. CASE UNCHANGED vars
    BY <1>4 DEF vars, PInv, Captured, Planned
  <1> QED
    BY <1>1, <1>2, <1>3, <1>4 DEF Next

\* The device accepts every published plan at every stage, for any catalogs and
\* selections of the capture and of the generations.
THEOREM PlansRun == Spec => []PlanRuns
  <1>1. PInv => PlanRuns
    BY DEF PInv, Planned, PlanRuns
  <1> QED
    BY <1>1, PlanInitially, PlanStep, PTL DEF Spec
=============================================================================
