--------------------------- MODULE AssemblerProofs ---------------------------
(***************************************************************************)
(* Proofs about Assembler, for any generations, devices and targets and    *)
(* any number of failing calls, of stops and of changes of the inputs.     *)
(***************************************************************************)
EXTENDS Assembler, Basics

\* The calls between the check of the generation and the commit.
AfterCheck == pc \in {"analysis", "copy", "bind", "seal"}

\* The package is complete: its commit is under way, or has been.
Sealed == Committing \/ output = NewPackage

\* Where the old directory, the new one and their ZIPs are at each call.
Exchange ==
    /\ pc = "new" \/ Reading \/ pc \in {"move", "move-zip"} => zip \in {Nothing, OldPackage}
    /\ pc = "new" \/ Reading \/ pc = "move" =>
          output \in {Nothing, OldPackage} /\ outputBackup = Nothing
    /\ pc = "new" \/ Reading \/ pc \in {"move", "move-zip"} => zipBackup = Nothing
    /\ pc \in {"move-zip", "install"} => output = Nothing
    /\ pc \in {"move-zip", "install", "install-zip", "drop"} =>
          outputBackup \in {Nothing, OldPackage}
    /\ pc \in {"install", "install-zip", "drop", "drop-zip"} => zipBackup \in {Nothing, OldPackage}
    /\ pc = "install" => zip \in {Nothing, OldPackage} /\ (wantsZip => zip = Nothing)
    /\ pc = "install-zip" => output = NewPackage /\ wantsZip /\ zip = Nothing
    /\ pc \in {"drop", "drop-zip"} => output = NewPackage /\ (wantsZip => zip = NewPackage)
    /\ pc = "drop-zip" => outputBackup = Nothing

\* What the handler of a failed commit finds, and what it has put back.
Undoing ==
    /\ faults \in Nat
    /\ pc \in {"undo", "undo-output", "undo-zip"} =>
          /\ faults > 0
          /\ zip \in {Nothing, OldPackage} /\ zipBackup \in {Nothing, OldPackage}
          /\ outputBackup \in {Nothing, OldPackage} /\ output # Torn
          /\ zipBackup = OldPackage => zip = Nothing
          /\ outputBackup = OldPackage => output # OldPackage
    /\ pc \in {"undo-output", "undo-zip"} => output # NewPackage
    /\ pc = "undo-zip" => outputBackup = Nothing
    /\ zipBackup = OldPackage /\ pc # "ended" => zip # OldPackage

\* What is in the package, whatever has become of the inputs.
Contents ==
    /\ DOMAIN package = DOMAIN EmptyPackage
    /\ pc \in {"new", "profile", "hash", "load", "check", "analysis"} =>
          package = EmptyPackage /\ binding = Nothing
    /\ pc = "check" \/ AfterCheck \/ Sealed => manifest \in Generations
    /\ AfterCheck \/ Sealed => loaded.baselines = BaselineOf[manifest]
    /\ package.files = [t \in DOMAIN package.files |-> package.files[t]]
    /\ DOMAIN package.files = DOMAIN package.rows
    /\ \A t \in DOMAIN package.rows :
          /\ package.rows[t].sha = ContentOf[manifest][t]
          /\ package.rows[t].baseline = BaselineOf[manifest][t]
    /\ pc \in {"bind", "seal"} \/ Sealed =>
          DOMAIN package.files = TargetsOf(manifest) /\ TargetsOf(manifest) # {}
    /\ binding # Nothing => binding.analysis.properties = loaded.properties
    /\ pc = "seal" \/ Sealed => package.binding = binding /\ package.compat = loaded.properties

\* What the inputs, the assembly and the package have in common while no input
\* has changed.
Unchanged ==
    /\ generated.altered = {} /\ profile.manifest = generated.of
    /\ \E d \in Devices : profile.properties = ProfileProperties(d)
    /\ analysis \in {Nothing} \cup {Ready(d) : d \in Devices} \cup {NotReady(d) : d \in Devices}
    /\ pc \in {"hash", "load", "check"} \/ AfterCheck \/ Sealed => loaded = profile
    /\ pc = "check" \/ AfterCheck \/ Sealed => manifest = generated.of
    /\ \A t \in DOMAIN package.files : package.files[t] = ContentOf[manifest][t]
    /\ pc \in {"copy", "bind", "seal"} \/ Sealed => (webui # "none" => binding # Nothing)
    /\ pc \in {"bind", "seal"} \/ Sealed =>
          package.manifest = manifest /\ package.plan = PlanOf[manifest]
    /\ Sealed => package.profile = profile /\ package.generation = manifest

\* Without Unchanged the package would have to be compared with inputs that are
\* no longer there; without Exchange the handler could take a torn directory.
IInv == TypeOK /\ Exchange /\ Undoing /\ PairMatches /\ Contents /\ (quiet => Unchanged)

-----------------------------------------------------------------------------
\* The four names of a directory's content are four.
LEMMA Distinct ==
    /\ Nothing # Torn /\ Nothing # OldPackage /\ Nothing # NewPackage
    /\ Torn # OldPackage /\ Torn # NewPackage /\ OldPackage # NewPackage
  BY FourDistinct, AssemblerAssumption

\* The start of an assembly.
LEMMA Initially == Init => IInv
  <1> SUFFICES ASSUME Init PROVE IInv
    OBVIOUS
  <1>1. PICK g \in Generations : generated = [of |-> g, altered |-> {}]
    BY DEF Init
  <1>2. TypeOK
    BY <1>1 DEF Init, TypeOK, Committing, EmptyPackage
  <1>3. Exchange
    BY DEF Init, Exchange
  <1>4. Undoing /\ PairMatches
    BY Distinct DEF Init, Undoing, PairMatches
  <1>5. Contents
    BY Distinct DEF Init, Contents, AfterCheck, Sealed, Committing, EmptyPackage
  <1>6. Unchanged
    BY <1>1, Distinct
    DEF Init, Unchanged, AfterCheck, Sealed, Committing, EmptyPackage, ProfileFor
  <1> QED
    BY <1>2, <1>3, <1>4, <1>5, <1>6 DEF IInv

-----------------------------------------------------------------------------
(* The environment. *)

\* A change of the inputs leaves the outputs and the package alone, and the
\* assembly is not quiet any more.
LEMMA InputsChange ==
    ASSUME InputChanges
    PROVE  /\ Reading /\ changes < MaxChanges /\ ~quiet'
           /\ UNCHANGED <<webui, pc, loaded, manifest, binding, package, wantsZip, result, outputs,
                          faults, stops>>
  BY DEF InputChanges, Regenerate, AlterFile, ProfileReads, ProfileWritten, Analyse, InputChange

\* What is in the generation's directory stays a generation.
LEMMA GeneratedStays ==
    ASSUME IInv, InputChanges
    PROVE  generated' # Nothing =>
               DOMAIN generated' = {"of", "altered"} /\ generated'.of \in Generations
  <1>1. CASE Regenerate
    BY <1>1 DEF Regenerate
  <1>2. CASE AlterFile
    BY <1>2 DEF AlterFile, IInv, TypeOK
  <1>3. CASE ProfileReads
    BY <1>3 DEF ProfileReads, IInv, TypeOK
  <1>4. CASE ProfileWritten
    <2>1. UNCHANGED generated
      BY <1>4 DEF ProfileWritten
    <2> QED
      BY <2>1 DEF IInv, TypeOK
  <1>5. CASE Analyse
    <2>1. UNCHANGED generated
      BY <1>5 DEF Analyse
    <2> QED
      BY <2>1 DEF IInv, TypeOK
  <1> QED
    BY <1>1, <1>2, <1>3, <1>4, <1>5 DEF InputChanges

\* A change of the inputs keeps the inductive invariant.
LEMMA InputSteps == ASSUME IInv, InputChanges PROVE IInv'
  <1>1. /\ Reading /\ ~quiet'
        /\ UNCHANGED <<webui, pc, loaded, manifest, binding, package, wantsZip, result, outputs,
                       faults, stops>>
    BY InputsChange
  <1>2. TypeOK'
    BY <1>1, GeneratedStays DEF IInv, TypeOK, Committing, outputs
  <1>3. Exchange' /\ Undoing' /\ PairMatches'
    BY <1>1 DEF IInv, Exchange, Undoing, PairMatches, outputs
  <1>4. Contents'
    BY <1>1 DEF IInv, Contents, AfterCheck, Sealed, Committing, outputs
  <1> QED
    BY <1>1, <1>2, <1>3, <1>4 DEF IInv

-----------------------------------------------------------------------------
(* Validation and staging. *)

\* Validation and staging read, write no output and end at the commit or early.
LEMMA ReadsOnly ==
    ASSUME Validation \/ Staging
    PROVE  /\ UNCHANGED <<inputs, changes, quiet, wantsZip, outputs, stops>>
           /\ pc = "new" \/ Reading
           /\ pc' \in {"profile", "hash", "load", "check", "analysis", "copy", "bind", "seal",
                       "move", "ended"}
           /\ pc' = "ended" => result' = "error"
           /\ pc' # "ended" => result' = result
           /\ faults' = faults \/ faults' = faults + 1
  BY DEF Validation, Staging, Start, LoadProfile, HashManifest, LoadManifest, Check, Analysis,
         CopyTarget, WebuiIncomplete, CopyDocuments, Bind, Seal, StageFails, assembly, Reading,
         GoTo, Fails, Refuse, Raise

\* Before the commit the outputs are the old pair, or nothing.
LEMMA ReadingOutputs ==
    ASSUME IInv, Validation \/ Staging
    PROVE  Exchange' /\ Undoing' /\ PairMatches'
  <1>1. output \in {Nothing, OldPackage} /\ outputBackup = Nothing
    BY ReadsOnly DEF IInv, Exchange
  <1>2. zip \in {Nothing, OldPackage} /\ zipBackup = Nothing
    BY ReadsOnly DEF IInv, Exchange
  <1>3. Exchange'
    BY <1>1, <1>2, ReadsOnly DEF Exchange, outputs
  <1>4. Undoing'
    BY <1>1, <1>2, ReadsOnly, Distinct DEF IInv, Undoing, outputs
  <1>5. PairMatches'
    BY <1>1, <1>2, ReadsOnly, Distinct DEF PairMatches, outputs
  <1> QED
    BY <1>3, <1>4, <1>5

\* The package is filled from the manifest that was loaded.
LEMMA ReadingContents ==
    ASSUME IInv, Validation \/ Staging
    PROVE  Contents'
  <1> output # NewPackage /\ output' = output /\ (pc = "new" \/ Reading)
    BY ReadsOnly, Distinct DEF IInv, Exchange, outputs
  <1>1. CASE Start
    BY <1>1 DEF IInv, Contents, Start, AfterCheck, Sealed, Committing, GoTo, Refuse, assembly
  <1>2. CASE LoadProfile
    BY <1>2 DEF IInv, Contents, LoadProfile, AfterCheck, Sealed, Committing, GoTo, Refuse
  <1>3. CASE HashManifest
    BY <1>3
    DEF IInv, Contents, HashManifest, AfterCheck, Sealed, Committing, GoTo, Refuse, assembly
  <1>4. CASE LoadManifest
    BY <1>4
    DEF IInv, TypeOK, Contents, LoadManifest, AfterCheck, Sealed, Committing, GoTo, Refuse,
        EmptyPackage
  <1>5. CASE Check
    BY <1>5 DEF IInv, Contents, Check, AfterCheck, Sealed, Committing, GoTo, Refuse, assembly
  <1>6. CASE Analysis
    <2>1. UNCHANGED <<inputs, changes, quiet, loaded, manifest, package, wantsZip, outputs,
                      faults, stops>>
      BY <1>6 DEF Analysis
    <2>2. /\ pc = "analysis" /\ pc' \in {"copy", "ended"}
          /\ package = EmptyPackage /\ binding = Nothing
      BY <1>6 DEF Analysis, GoTo, Refuse, IInv, Contents
    <2>3. binding' # Nothing => binding'.analysis.properties = loaded.properties
      BY <1>6, <2>2 DEF Analysis, AnalysisBinds
    <2> QED
      BY <2>1, <2>2, <2>3 DEF IInv, Contents, AfterCheck, Sealed, Committing
  <1>7. CASE CopyTarget
    <2>1. UNCHANGED <<inputs, changes, quiet, loaded, manifest, binding, wantsZip, outputs,
                      faults, stops>>
      BY <1>7 DEF CopyTarget
    <2>2. pc = "copy" /\ pc' \in {"copy", "ended"}
      BY <1>7 DEF CopyTarget, GoTo, Raise
    <2>3. CASE UNCHANGED package
      BY <2>1, <2>2, <2>3 DEF IInv, Contents, AfterCheck, Sealed, Committing
    <2>4. CASE package' = [package EXCEPT
              !.files = With(@, NextTarget, FileNow(NextTarget)),
              !.rows = With(@, NextTarget, [sha |-> ContentOf[manifest][NextTarget],
                                            baseline |-> BaselineOf[manifest][NextTarget]])]
      <3> DEFINE row == [sha |-> ContentOf[manifest][NextTarget],
                         baseline |-> BaselineOf[manifest][NextTarget]]
      <3>1. /\ DOMAIN package' = DOMAIN EmptyPackage
            /\ package'.files = With(package.files, NextTarget, FileNow(NextTarget))
            /\ package'.rows = With(package.rows, NextTarget, row)
        BY <2>4 DEF IInv, Contents
      <3>2. /\ package'.files = [t \in DOMAIN package'.files |-> package'.files[t]]
            /\ DOMAIN package'.files = DOMAIN package'.rows
        BY <3>1 DEF With, IInv, Contents
      <3>3. \A t \in DOMAIN package'.rows :
                 /\ package'.rows[t].sha = ContentOf[manifest][t]
                 /\ package'.rows[t].baseline = BaselineOf[manifest][t]
        BY <3>1 DEF With, IInv, Contents
      <3> QED
        BY <2>1, <2>2, <3>1, <3>2, <3>3 DEF IInv, Contents, AfterCheck, Sealed, Committing
    <2> QED
      BY <1>7, <2>3, <2>4 DEF CopyTarget
  <1>8. CASE WebuiIncomplete
    BY <1>8
    DEF IInv, Contents, WebuiIncomplete, AfterCheck, Sealed, Committing, GoTo, Raise, assembly
  <1>9. CASE CopyDocuments
    BY <1>9
    DEF IInv, Contents, CopyDocuments, AfterCheck, Sealed, Committing, GoTo, Raise, EmptyPackage
  <1>10. CASE Bind
    BY <1>10 DEF IInv, Contents, Bind, AfterCheck, GoTo
  <1>11. CASE Seal
    BY <1>11 DEF IInv, Contents, Seal, AfterCheck, GoTo
  <1>12. CASE StageFails
    BY <1>12
    DEF IInv, Contents, StageFails, AfterCheck, Sealed, Committing, GoTo, Raise, assembly
  <1> QED
    BY <1>1, <1>2, <1>3, <1>4, <1>5, <1>6, <1>7, <1>8, <1>9, <1>10, <1>11, <1>12
    DEF Validation, Staging

\* As long as the inputs stay, the package is filled from one generation.
LEMMA ReadingQuietly ==
    ASSUME IInv, Validation \/ Staging, quiet
    PROVE  Unchanged'
  <1> output # NewPackage /\ output' = output /\ (pc = "new" \/ Reading)
    BY ReadsOnly, Distinct DEF IInv, Exchange, outputs
  <1>1. CASE Start
    BY <1>1
    DEF IInv, Unchanged, Start, AfterCheck, Sealed, Committing, GoTo, Refuse, inputs, assembly
  <1>2. CASE LoadProfile
    BY <1>2
    DEF IInv, Unchanged, LoadProfile, AfterCheck, Sealed, Committing, GoTo, Refuse, inputs
  <1>3. CASE HashManifest
    BY <1>3
    DEF IInv, Unchanged, HashManifest, AfterCheck, Sealed, Committing, GoTo, Refuse, inputs,
        assembly
  <1>4. CASE LoadManifest
    BY <1>4
    DEF IInv, Contents, Unchanged, LoadManifest, AfterCheck, Sealed, Committing, GoTo, Refuse,
        inputs, EmptyPackage
  <1>5. CASE Check
    BY <1>5 DEF IInv, Unchanged, Check, Sealed, Committing, GoTo, Refuse, inputs, assembly
  <1>6. CASE Analysis
    <2>1. UNCHANGED <<inputs, changes, quiet, loaded, manifest, package, wantsZip, outputs,
                      faults, stops>>
      BY <1>6 DEF Analysis
    <2>2. /\ pc = "analysis" /\ pc' \in {"copy", "ended"}
          /\ package = EmptyPackage /\ binding = Nothing
      BY <1>6 DEF Analysis, GoTo, Refuse, IInv, Contents
    <2>3. ASSUME pc' = "copy", webui # "none" PROVE binding' # Nothing
      <3>1. /\ analysis # Nothing /\ AnalysisBinds(analysis, loaded.properties)
            /\ binding' = [properties |-> loaded.properties, analysis |-> analysis]
        BY <1>6, <2>3 DEF Analysis, Refuse, GoTo
      <3>2. PICK d \in Devices : loaded.properties = ProfileProperties(d)
        BY <2>2 DEF IInv, Unchanged, AfterCheck
      <3>3. PICK e \in Devices : analysis = Ready(e)
        BY <3>1 DEF IInv, Unchanged, AnalysisBinds, NotReady
      <3> QED
        BY <3>1, <3>2, <3>3, BindingAssumption
    <2> QED
      BY <2>1, <2>2, <2>3 DEF IInv, Unchanged, AfterCheck, Sealed, Committing, inputs
  <1>7. CASE CopyTarget
    <2>1. UNCHANGED <<inputs, changes, quiet, loaded, manifest, binding, wantsZip, outputs,
                      faults, stops>>
      BY <1>7 DEF CopyTarget
    <2>2. pc = "copy" /\ pc' \in {"copy", "ended"}
      BY <1>7 DEF CopyTarget, GoTo, Raise
    <2>3. \A t \in DOMAIN package'.files : package'.files[t] = ContentOf[manifest][t]
      <3>1. CASE UNCHANGED package
        BY <3>1 DEF IInv, Unchanged
      <3>2. CASE package'.files = With(package.files, NextTarget, FileNow(NextTarget))
        <4>1. FileNow(NextTarget) = ContentOf[manifest][NextTarget]
          BY <2>2 DEF FileNow, IInv, Unchanged, AfterCheck
        <4> QED
          BY <3>2, <4>1 DEF With, IInv, Unchanged
      <3> QED
        BY <1>7, <3>1, <3>2 DEF CopyTarget, IInv, Contents, EmptyPackage
    <2> QED
      BY <2>1, <2>2, <2>3 DEF IInv, Unchanged, AfterCheck, Sealed, Committing, inputs
  <1>8. CASE WebuiIncomplete
    BY <1>8
    DEF IInv, Unchanged, WebuiIncomplete, AfterCheck, Sealed, Committing, GoTo, Raise, inputs,
        assembly
  <1>9. CASE CopyDocuments
    <2>1. UNCHANGED <<inputs, changes, quiet, loaded, manifest, binding, wantsZip, outputs,
                      faults, stops>>
      BY <1>9 DEF CopyDocuments
    <2>2. pc = "copy" /\ pc' \in {"bind", "ended"}
      BY <1>9 DEF CopyDocuments, GoTo, Raise
    <2>3. manifest = generated.of /\ generated.altered = {}
      BY <2>2 DEF IInv, Unchanged, AfterCheck
    <2>4. ASSUME pc' = "bind"
          PROVE  /\ package'.manifest = manifest /\ package'.plan = PlanOf[manifest]
                 /\ package'.files = package.files
      <3>1. /\ generated # Nothing
            /\ package' = [package EXCEPT
                    !.manifest = generated.of,
                    !.plan = IF PlanOf[manifest] = NoPlan THEN NoPlan ELSE PlanNow]
        BY <1>9, <2>4 DEF CopyDocuments, Raise, GoTo
      <3>2. PlanNow = PlanOf[manifest]
        BY <2>3, <3>1 DEF PlanNow
      <3> QED
        BY <2>3, <3>1, <3>2 DEF IInv
    <2>5. pc' = "ended" => UNCHANGED package
      BY <1>9 DEF CopyDocuments, GoTo
    <2> QED
      BY <2>1, <2>2, <2>4, <2>5 DEF IInv, Unchanged, AfterCheck, Sealed, Committing, inputs
  <1>10. CASE Bind
    BY <1>10 DEF IInv, Unchanged, Bind, AfterCheck, Sealed, Committing, GoTo, inputs
  <1>11. CASE Seal
    BY <1>11 DEF IInv, Unchanged, Seal, AfterCheck, inputs
  <1>12. CASE StageFails
    BY <1>12
    DEF IInv, Unchanged, StageFails, AfterCheck, Sealed, Committing, GoTo, Raise, inputs,
        assembly
  <1> QED
    BY <1>1, <1>2, <1>3, <1>4, <1>5, <1>6, <1>7, <1>8, <1>9, <1>10, <1>11, <1>12
    DEF Validation, Staging

\* Validation and staging keep the inductive invariant.
LEMMA ReadingSteps == ASSUME IInv, Validation \/ Staging PROVE IInv'
  <1>1. TypeOK'
    <2>1. manifest' \in Generations \cup {Nothing}
      BY DEF IInv, TypeOK, Validation, Staging, Start, LoadProfile, HashManifest, LoadManifest,
             Check, Analysis, CopyTarget, WebuiIncomplete, CopyDocuments, Bind, Seal,
             StageFails, assembly
    <2>2. DOMAIN package.files' = DOMAIN package.rows'
      BY ReadingContents DEF Contents
    <2>3. Committing' => DOMAIN package.files' = TargetsOf(manifest)' /\ package.files' # <<>>
      BY ReadingContents DEF Contents, Sealed
    <2> QED
      BY <2>1, <2>2, <2>3, ReadsOnly DEF IInv, TypeOK, inputs, outputs, Committing, Reading
  <1> QED
    BY <1>1, ReadingOutputs, ReadingContents, ReadingQuietly, ReadsOnly DEF IInv

-----------------------------------------------------------------------------
(* The commit. *)

\* The commit changes neither the package nor what it was made from.
LEMMA CommitFrames ==
    ASSUME IInv, Commit \/ Stop
    PROVE  /\ UNCHANGED <<inputs, changes, assembly, wantsZip>>
           /\ Committing
           /\ pc' = "ended" \/ Committing'
  BY DEF Commit, Move, MoveZip, Install, InstallZip, UndoInstall, UndoOutput, UndoZip,
         UndoFails, DropOutput, DropZip, Stop, CommitFrame, Committing, GoTo, Raise

\* What the package holds and what it has in common with the inputs stays true.
LEMMA CommitPackage ==
    ASSUME IInv, Commit \/ Stop
    PROVE  Contents' /\ (quiet => Unchanged')
  <1>1. Sealed
    BY CommitFrames DEF Sealed
  <1>2. Contents'
    BY <1>1, CommitFrames DEF IInv, Contents, assembly, Committing
  <1>3. quiet => Unchanged'
    BY <1>1, CommitFrames DEF IInv, Unchanged, inputs, assembly
  <1> QED
    BY <1>2, <1>3

\* The exchange of directory and ZIP, its handler and its end.
LEMMA CommitOutputs ==
    ASSUME IInv, Commit \/ Stop
    PROVE  TypeOK' /\ Exchange' /\ Undoing' /\ PairMatches'
  <1> USE Distinct
  <1>0. UNCHANGED <<inputs, changes, assembly, wantsZip>> /\ Committing
    BY CommitFrames
  <1>1. CASE Move
    <2>1. TypeOK'
      BY <1>0, <1>1 DEF IInv, TypeOK, Move, GoTo, Committing, inputs, assembly
    <2>2. Exchange'
      BY <1>0, <1>1 DEF IInv, Exchange, Move, GoTo, Reading
    <2>3. Undoing'
      BY <1>0, <1>1 DEF IInv, Exchange, Undoing, Move, GoTo, Fails
    <2>4. PairMatches'
      BY <1>0, <1>1 DEF IInv, PairMatches, Move, GoTo
    <2> QED
      BY <2>1, <2>2, <2>3, <2>4
  <1>2. CASE MoveZip
    <2>1. TypeOK'
      BY <1>0, <1>2 DEF IInv, TypeOK, MoveZip, GoTo, Committing, inputs, assembly
    <2>2. Exchange'
      BY <1>0, <1>2 DEF IInv, Exchange, MoveZip, GoTo, Reading
    <2>3. Undoing'
      BY <1>0, <1>2 DEF IInv, Exchange, Undoing, MoveZip, GoTo, Fails
    <2>4. PairMatches'
      BY <1>0, <1>2 DEF IInv, PairMatches, MoveZip, GoTo
    <2> QED
      BY <2>1, <2>2, <2>3, <2>4
  <1>3. CASE Install
    <2>1. TypeOK'
      BY <1>0, <1>3 DEF IInv, TypeOK, Install, GoTo, Committing, inputs, assembly
    <2>2. Exchange'
      BY <1>0, <1>3 DEF IInv, Exchange, Install, GoTo, Reading
    <2>3. Undoing'
      BY <1>0, <1>3 DEF IInv, Exchange, Undoing, Install, GoTo, Fails
    <2>4. PairMatches'
      BY <1>0, <1>3 DEF IInv, PairMatches, Install, GoTo
    <2> QED
      BY <2>1, <2>2, <2>3, <2>4
  <1>4. CASE InstallZip
    <2>1. TypeOK'
      BY <1>0, <1>4 DEF IInv, TypeOK, InstallZip, GoTo, Committing, inputs, assembly
    <2>2. Exchange'
      BY <1>0, <1>4 DEF IInv, Exchange, InstallZip, GoTo, Reading
    <2>3. Undoing'
      BY <1>0, <1>4 DEF IInv, Exchange, Undoing, InstallZip, GoTo, Fails
    <2>4. PairMatches'
      BY <1>0, <1>4 DEF IInv, PairMatches, InstallZip, GoTo
    <2> QED
      BY <2>1, <2>2, <2>3, <2>4
  <1>5. CASE UndoInstall
    <2>1. TypeOK'
      BY <1>0, <1>5 DEF IInv, TypeOK, UndoInstall, GoTo, Committing, inputs, assembly
    <2>2. Exchange'
      BY <1>0, <1>5 DEF IInv, Exchange, UndoInstall, GoTo, Reading
    <2>3. Undoing'
      BY <1>0, <1>5 DEF IInv, Undoing, UndoInstall, GoTo
    <2>4. PairMatches'
      BY <1>0, <1>5 DEF IInv, PairMatches, UndoInstall, GoTo
    <2> QED
      BY <2>1, <2>2, <2>3, <2>4
  <1>6. CASE UndoOutput
    <2>1. TypeOK'
      BY <1>0, <1>6 DEF IInv, TypeOK, UndoOutput, GoTo, Committing, inputs, assembly
    <2>2. Exchange'
      BY <1>0, <1>6 DEF IInv, Exchange, UndoOutput, GoTo, Reading
    <2>3. Undoing'
      BY <1>0, <1>6 DEF IInv, Undoing, UndoOutput
    <2>4. PairMatches'
      BY <1>0, <1>6 DEF IInv, PairMatches, UndoOutput, GoTo
    <2> QED
      BY <2>1, <2>2, <2>3, <2>4
  <1>7. CASE UndoZip
    <2>1. TypeOK'
      BY <1>0, <1>7 DEF IInv, TypeOK, UndoZip, GoTo, Raise, inputs, assembly
    <2>2. Exchange'
      BY <1>0, <1>7 DEF IInv, Exchange, UndoZip, GoTo, Raise, Reading
    <2>3. Undoing'
      BY <1>0, <1>7 DEF IInv, Undoing, UndoZip
    <2>4. PairMatches'
      BY <1>0, <1>7 DEF IInv, Undoing, PairMatches, UndoZip
    <2> QED
      BY <2>1, <2>2, <2>3, <2>4
  <1>8. CASE UndoFails
    <2>1. TypeOK'
      BY <1>0, <1>8 DEF IInv, TypeOK, UndoFails, GoTo, Raise, inputs, assembly
    <2>2. Exchange'
      BY <1>0, <1>8 DEF IInv, Exchange, UndoFails, GoTo, Raise, Reading
    <2>3. Undoing'
      BY <1>0, <1>8 DEF IInv, Undoing, UndoFails, GoTo, Raise, Fails
    <2>4. PairMatches'
      BY <1>0, <1>8 DEF IInv, Undoing, PairMatches, UndoFails, Fails
    <2> QED
      BY <2>1, <2>2, <2>3, <2>4
  <1>9. CASE DropOutput
    <2>1. TypeOK'
      BY <1>0, <1>9 DEF IInv, TypeOK, DropOutput, GoTo, Raise, Committing, inputs, assembly
    <2>2. Exchange'
      BY <1>0, <1>9 DEF IInv, Exchange, DropOutput, GoTo, Raise, Reading
    <2>3. Undoing'
      BY <1>0, <1>9 DEF IInv, Undoing, DropOutput, GoTo, Raise, Fails
    <2>4. PairMatches'
      BY <1>0, <1>9 DEF IInv, Exchange, PairMatches, DropOutput
    <2> QED
      BY <2>1, <2>2, <2>3, <2>4
  <1>10. CASE DropZip
    <2>1. TypeOK'
      BY <1>0, <1>10 DEF IInv, TypeOK, DropZip, GoTo, inputs, assembly
    <2>2. Exchange'
      BY <1>0, <1>10 DEF IInv, Exchange, DropZip, GoTo, Reading
    <2>3. Undoing'
      BY <1>0, <1>10 DEF IInv, Undoing, DropZip, GoTo, Fails
    <2>4. PairMatches'
      BY <1>0, <1>10 DEF IInv, Exchange, PairMatches, DropZip
    <2> QED
      BY <2>1, <2>2, <2>3, <2>4
  <1>11. CASE Stop
    <2>1. TypeOK'
      BY <1>0, <1>11 DEF IInv, TypeOK, Stop, GoTo, Raise, inputs, assembly
    <2>2. Exchange'
      BY <1>0, <1>11 DEF IInv, Exchange, Stop, GoTo, Raise, Reading
    <2>3. Undoing'
      BY <1>0, <1>11 DEF IInv, Undoing, Stop, GoTo, Raise
    <2>4. PairMatches'
      BY <1>0, <1>11 DEF IInv, PairMatches, Stop
    <2> QED
      BY <2>1, <2>2, <2>3, <2>4
  <1> QED
    BY <1>1, <1>2, <1>3, <1>4, <1>5, <1>6, <1>7, <1>8, <1>9, <1>10, <1>11 DEF Commit

\* Every step keeps the inductive invariant.
LEMMA Step == IInv /\ [Next]_vars => IInv'
  <1> SUFFICES ASSUME IInv, [Next]_vars PROVE IInv'
    OBVIOUS
  <1>1. CASE InputChanges
    BY <1>1, InputSteps
  <1>2. CASE Validation \/ Staging
    BY <1>2, ReadingSteps
  <1>3. CASE Commit \/ Stop
    <2>1. quiet' = quiet
      BY <1>3, CommitFrames DEF assembly
    <2> QED
      BY <1>3, <2>1, CommitPackage, CommitOutputs DEF IInv
  <1>4. CASE UNCHANGED vars
    BY <1>4
    DEF vars, inputs, assembly, outputs, IInv, TypeOK, Exchange, Undoing, PairMatches, Contents,
        Unchanged, AfterCheck, Sealed, Committing, Reading
  <1> QED
    BY <1>1, <1>2, <1>3, <1>4 DEF Next

-----------------------------------------------------------------------------
\* The inductive invariant holds in every state.
THEOREM Invariance == Spec => []IInv
  BY Initially, Step, PTL DEF Spec

\* The types, for any inputs and any number of failures, stops and changes.
THEOREM TypeCorrect == Spec => []TypeOK
  <1>1. IInv => TypeOK
    BY DEF IInv
  <1> QED
    BY <1>1, Invariance, PTL

\* After at most one failing call and no stop there is the new pair or what was
\* there, never a directory of one and a ZIP of the other.
THEOREM PairsMatch == Spec => []PairMatches
  <1>1. IInv => PairMatches
    BY DEF IInv
  <1> QED
    BY <1>1, Invariance, PTL

\* A package whose payload passes the hash check of the device is of one
\* generation that the audit passed, whatever happened to the inputs.
THEOREM PayloadAudited == Spec => []MountedPayloadIsAudited
  <1>1. IInv => MountedPayloadIsAudited
    <2> SUFFICES ASSUME IInv, output = NewPackage PROVE MountedPayloadIsAudited
      BY DEF MountedPayloadIsAudited
    <2>1. /\ manifest \in Generations /\ loaded.baselines = BaselineOf[manifest]
          /\ DOMAIN package.rows = TargetsOf(manifest)
      BY DEF IInv, Contents, Sealed
    <2>2. \A t \in DOMAIN package.rows :
             /\ package.rows[t].sha = ContentOf[manifest][t]
             /\ package.rows[t].baseline = BaselineOf[manifest][t]
      BY DEF IInv, Contents
    <2> QED
      BY <2>1, <2>2 DEF MountedPayloadIsAudited
  <1> QED
    BY <1>1, Invariance, PTL

\* If no input changed, everything in the package is of the generation and the
\* device that the profile names.
THEOREM QuietIsOneGeneration == Spec => []QuietPackageIsOneGeneration
  <1>1. IInv => QuietPackageIsOneGeneration
    <2> SUFFICES ASSUME IInv, output = NewPackage, quiet PROVE QuietPackageIsOneGeneration
      BY DEF QuietPackageIsOneGeneration
    <2>1. Contents /\ Unchanged /\ Sealed
      BY DEF IInv, Sealed
    <2>2. profile.manifest = manifest /\ manifest \in Generations /\ loaded = profile
      BY <2>1 DEF Contents, Unchanged
    <2>3. package.files = ContentOf[manifest]
      <3>1. package.files = [t \in TargetsOf(manifest) |-> ContentOf[manifest][t]]
        BY <2>1 DEF Contents, Unchanged
      <3> QED
        BY <2>2, <3>1, GenerationAssumption
    <2>4. package.binding = binding /\ package.compat = profile.properties
      BY <2>1, <2>2 DEF Contents
    <2>5. package.profile = profile /\ package.generation = manifest /\ package.manifest = manifest
      BY <2>1 DEF Unchanged
    <2>6. package.plan = PlanOf[manifest] /\ (webui # "none" => binding # Nothing)
      BY <2>1 DEF Unchanged
    <2>7. \A t \in DOMAIN package.rows : package.rows[t].sha = package.files[t]
      BY <2>1, <2>3 DEF Contents
    <2>8. binding # Nothing => binding.analysis.properties = profile.properties
      BY <2>1, <2>2 DEF Contents
    <2> QED
      BY <2>2, <2>3, <2>4, <2>5, <2>6, <2>7, <2>8 DEF QuietPackageIsOneGeneration
  <1> QED
    BY <1>1, Invariance, PTL

\* The old directory and its ZIP are in place or in the backup until the new
\* ones are in place, in every step of the commit, its handler and a stop.
THEOREM OldSurvives == Spec => OldPairSurvives
  <1> DEFINE Survives ==
        PairKept => PairKept' \/ (output' = NewPackage /\ (wantsZip => zip' = NewPackage))
  <1>1. IInv /\ [Next]_vars => [Survives]_vars
    <2> SUFFICES ASSUME IInv, Next PROVE Survives
      OBVIOUS
    <2>1. CASE InputChanges
      BY <2>1, InputsChange DEF PairKept, outputs
    <2>2. CASE Validation \/ Staging
      BY <2>2, ReadsOnly DEF PairKept, outputs
    <2>3. CASE Move \/ MoveZip \/ Install \/ InstallZip \/ DropOutput \/ DropZip
      BY <2>3
      DEF IInv, Exchange, PairKept, Move, MoveZip, Install, InstallZip, DropOutput, DropZip,
          CommitFrame
    <2>4. CASE UndoInstall \/ UndoOutput \/ UndoZip \/ UndoFails \/ Stop
      BY <2>4, Distinct
      DEF IInv, Exchange, Undoing, PairKept, UndoInstall, UndoOutput, UndoZip, UndoFails, Stop,
          CommitFrame
    <2> QED
      BY <2>1, <2>2, <2>3, <2>4 DEF Next, Commit
  <1> QED
    BY <1>1, Invariance, PTL DEF Spec, OldPairSurvives
=============================================================================
