------------------------------ MODULE Assembler ------------------------------
(***************************************************************************)
(* assemble_validation_module (assembler.py and the assembly_* modules)    *)
(* and the compatibility profile it is given (compatibility.py).           *)
(*                                                                         *)
(* The inputs (a generation directory, a profile, a preflight analysis)    *)
(* are read by path, some more than once, while other programs may         *)
(* replace them; the output directory and its ZIP are exchanged together.  *)
(* A file's content stands for its hash.  One assembly runs.               *)
(***************************************************************************)
EXTENDS Naturals, FiniteSets, Sequences

CONSTANTS
    Targets,        \* files a generation may hold
    TargetOrder,    \* the same, sorted
    Generations,    \* generations of the feature generator, by manifest hash
    BaselineOf,     \* [Generations -> target :> baseline file]
    ContentOf,      \* [Generations -> target :> generated file]
    PlanOf,         \* [Generations -> property plan or NoPlan]
    Devices,
    PropertiesOf,   \* [Devices -> [Properties -> value]], "" for an unset one
    Required,       \* REQUIRED_COMPAT_PROPERTIES
    Altered,        \* content no generator wrote
    NoPlan, Nothing, Torn,
    OldPackage, NewPackage,
    Faults,         \* calls that may fail
    Env,            \* what may happen around the assembly
    MaxChanges,     \* bound: changes of the inputs while it runs
    MaxFaults       \* bound: failing calls

ASSUME AssemblerAssumption ==
    /\ Cardinality({Nothing, Torn, OldPackage, NewPackage}) = 4
    /\ Faults \subseteq {"stage", "move", "move-zip", "install", "install-zip", "undo", "drop"}
    /\ Env \subseteq {"kill", "interrupt", "regenerate", "alter", "profile", "analysis"}
    /\ MaxChanges \in Nat /\ MaxFaults \in Nat

VARIABLES
    \* the inputs
    generated,  \* Nothing, or [of, altered]: a generation, some files not as it left them
    profile,    \* Nothing, or [manifest, baselines, properties]
    builder,    \* Nothing, or the manifest the profile builder has read
    analysis,   \* Nothing, or [properties, ready]
    webui,      \* which of src/webui and scripts/webui there are: "both", "one", "none"
    changes,    \* changes of the inputs so far
    \* the assembly
    pc,
    quiet,      \* no input has changed since it started
    loaded,     \* the profile it loaded
    manifest,   \* the generation manifest it loaded
    binding,    \* Nothing, or [properties, analysis]
    package,    \* the package in its staging directory, and later of NewPackage
    wantsZip,   \* a ZIP was asked for
    result,     \* "none", "ok" or "error"
    \* the outputs
    output, outputBackup, zip, zipBackup,
    faults, stops

inputs == <<generated, profile, builder, analysis, webui>>
assembly == <<quiet, loaded, manifest, binding, package>>
outputs == <<output, outputBackup, zip, zipBackup>>
vars == <<inputs, changes, pc, assembly, wantsZip, result, outputs, faults, stops>>

TargetsOf(g) == DOMAIN ContentOf[g]
EmptyPackage == [files |-> <<>>, rows |-> <<>>, manifest |-> Nothing, plan |-> NoPlan,
                 binding |-> Nothing, compat |-> Nothing, profile |-> Nothing,
                 generation |-> Nothing]

\* build_compatibility_profile leaves out the optional properties that are unset.
ProfileProperties(d) ==
    [k \in {q \in DOMAIN PropertiesOf[d] : PropertiesOf[d][q] # ""} |-> PropertiesOf[d][k]]
ProfileFor(read, hashed, d) ==
    [manifest |-> hashed, baselines |-> BaselineOf[read], properties |-> ProfileProperties(d)]

Ready(d) == [properties |-> PropertiesOf[d], ready |-> TRUE]
NotReady(d) == [properties |-> PropertiesOf[d], ready |-> FALSE]

\* A generation's files are a function on its targets.
ASSUME GenerationAssumption ==
    \A g \in Generations : ContentOf[g] = [t \in TargetsOf(g) |-> ContentOf[g][t]]

\* No binding is Nothing.
ASSUME BindingAssumption ==
    \A d, e \in Devices :
        [properties |-> ProfileProperties(d), analysis |-> Ready(e)] # Nothing

Init ==
    /\ generated \in {[of |-> g, altered |-> {}] : g \in Generations}
    /\ profile \in {ProfileFor(generated.of, generated.of, d) : d \in Devices}
    /\ analysis \in {Nothing} \cup {Ready(d) : d \in Devices} \cup {NotReady(d) : d \in Devices}
    /\ webui \in {"both", "one", "none"} /\ builder = Nothing /\ changes = 0
    /\ pc = "new" /\ quiet = TRUE /\ loaded = Nothing /\ manifest = Nothing /\ binding = Nothing
    /\ package = EmptyPackage /\ wantsZip \in BOOLEAN /\ result = "none"
    /\ output \in {Nothing, OldPackage} /\ zip \in {Nothing, output}
    /\ outputBackup = Nothing /\ zipBackup = Nothing /\ faults = 0 /\ stops = 0

GoTo(next) == pc' = next
Fails(f) == f \in Faults /\ faults < MaxFaults /\ faults' = faults + 1
Refuse == GoTo("ended") /\ result' = "error"

-----------------------------------------------------------------------------
(* The environment.  Inputs change only while the assembly still reads them. *)

Reading == pc \in {"profile", "hash", "load", "check", "analysis", "copy", "bind", "seal"}

InputChange(kind) ==
    /\ kind \in Env /\ Reading /\ changes < MaxChanges /\ changes' = changes + 1
    /\ quiet' = FALSE
    /\ UNCHANGED <<webui, pc, loaded, manifest, binding, package, wantsZip, result, outputs,
                   faults, stops>>

\* generate_payload exchanges the directory; between its renames there is none.
Regenerate ==
    /\ InputChange("regenerate")
    /\ generated' \in {Nothing} \cup {[of |-> g, altered |-> {}] : g \in Generations}
    /\ UNCHANGED <<profile, builder, analysis>>

AlterFile ==
    /\ InputChange("alter") /\ generated # Nothing
    /\ \E f \in TargetsOf(generated.of) \cup {"plan", "extra"} :
          generated' = [generated EXCEPT !.altered = @ \cup {f}]
    /\ UNCHANGED <<profile, builder, analysis>>

\* build_compatibility_profile reads the manifest, then hashes it.
ProfileReads ==
    /\ InputChange("profile") /\ builder = Nothing
    /\ generated # Nothing /\ TargetsOf(generated.of) # {}
    /\ builder' = generated.of
    /\ UNCHANGED <<generated, profile, analysis>>

ProfileWritten ==
    /\ InputChange("profile") /\ builder # Nothing /\ generated # Nothing
    /\ \E d \in Devices :
          /\ \A k \in Required : PropertiesOf[d][k] # ""
          /\ profile' = ProfileFor(builder, generated.of, d)
    /\ builder' = Nothing
    /\ UNCHANGED <<generated, analysis>>

Analyse ==
    /\ InputChange("analysis")
    /\ \E d \in Devices : analysis' \in {Ready(d), NotReady(d)}
    /\ UNCHANGED <<generated, profile, builder>>

-----------------------------------------------------------------------------
(* Validation: nothing is written yet. *)

\* Path isolation and control fields: both documents are read and looked over.
Start ==
    /\ pc = "new"
    /\ IF generated = Nothing THEN Refuse ELSE GoTo("profile") /\ UNCHANGED result
    /\ UNCHANGED <<inputs, changes, assembly, wantsZip, outputs, faults, stops>>

\* load_compatibility_profile
LoadProfile ==
    /\ pc = "profile"
    /\ IF Required \subseteq DOMAIN profile.properties
       THEN loaded' = profile /\ GoTo("hash") /\ UNCHANGED result
       ELSE Refuse /\ UNCHANGED loaded
    /\ UNCHANGED <<inputs, changes, quiet, manifest, binding, package, wantsZip, outputs, faults, stops>>

\* The manifest on disk is hashed against the profile, then read again to be parsed.
HashManifest ==
    /\ pc = "hash"
    /\ IF generated # Nothing /\ generated.of = loaded.manifest
       THEN GoTo("load") /\ UNCHANGED result
       ELSE Refuse
    /\ UNCHANGED <<inputs, changes, assembly, wantsZip, outputs, faults, stops>>

LoadManifest ==
    /\ pc = "load"
    /\ IF generated # Nothing
       THEN manifest' = generated.of /\ GoTo("check") /\ UNCHANGED result
       ELSE Refuse /\ UNCHANGED manifest
    /\ UNCHANGED <<inputs, changes, quiet, loaded, binding, package, wantsZip, outputs, faults, stops>>

\* What a file of the directory holds now.
FileNow(t) == IF t \in generated.altered THEN Altered ELSE ContentOf[generated.of][t]
HasFile(t) == IF generated = Nothing THEN FALSE ELSE t \in TargetsOf(generated.of)
PlanNow == IF generated = Nothing THEN NoPlan
           ELSE IF PlanOf[generated.of] # NoPlan /\ "plan" \in generated.altered THEN Altered
           ELSE PlanOf[generated.of]

\* validate_generated_output: hashes, baselines, plan, and no other files.
Check ==
    /\ pc = "check"
    /\ IF /\ generated # Nothing
          /\ TargetsOf(generated.of) = TargetsOf(manifest)
          /\ \A t \in TargetsOf(manifest) : FileNow(t) = ContentOf[manifest][t]
          /\ loaded.baselines = BaselineOf[manifest]
          /\ PlanNow = PlanOf[manifest]
          /\ {"plan", "extra"} \cap generated.altered = {}
       THEN GoTo("analysis") /\ UNCHANGED result
       ELSE Refuse
    /\ UNCHANGED <<inputs, changes, assembly, wantsZip, outputs, faults, stops>>

\* resolve_preflight_analysis, validate_preflight_analysis
AnalysisBinds(a, properties) == a.ready /\ a.properties = properties

Analysis ==
    /\ pc = "analysis"
    /\ \/ /\ analysis = Nothing /\ webui = "none"
          /\ GoTo("copy") /\ UNCHANGED <<binding, result>>
       \/ /\ analysis # Nothing /\ AnalysisBinds(analysis, loaded.properties)
          /\ binding' = [properties |-> loaded.properties, analysis |-> analysis]
          /\ GoTo("copy") /\ UNCHANGED result
       \/ /\ IF analysis = Nothing THEN webui # "none"
                                   ELSE ~AnalysisBinds(analysis, loaded.properties)
          /\ Refuse /\ UNCHANGED binding
    /\ UNCHANGED <<inputs, changes, quiet, loaded, manifest, package, wantsZip, outputs, faults, stops>>

-----------------------------------------------------------------------------
(* The staging directory. *)

\* An exception inside the try: the finally clause removes staging and the
\* temporary ZIP and touches no output.
Raise == GoTo("ended") /\ result' = "error"

StageFails ==
    /\ pc \in {"copy", "bind", "seal"} /\ Fails("stage") /\ Raise
    /\ UNCHANGED <<inputs, changes, assembly, wantsZip, outputs, stops>>

NextTarget ==
    TargetOrder[CHOOSE i \in DOMAIN TargetOrder :
        /\ TargetOrder[i] \in TargetsOf(manifest) \ DOMAIN package.files
        /\ \A k \in 1..(i - 1) : TargetOrder[k] \notin TargetsOf(manifest) \ DOMAIN package.files]

\* f with the value v for t.
With(f, t, v) == [x \in DOMAIN f \cup {t} |-> IF x = t THEN v ELSE f[x]]

\* Mutant of CopyTarget: the row carries the hash of what was copied.
CopyTargetRehashed ==
    /\ pc = "copy" /\ webui # "one" /\ TargetsOf(manifest) # DOMAIN package.files
    /\ \/ /\ HasFile(NextTarget)
          /\ package' = [package EXCEPT
                !.files = With(@, NextTarget, FileNow(NextTarget)),
                !.rows = With(@, NextTarget, [sha |-> FileNow(NextTarget),
                                              baseline |-> BaselineOf[manifest][NextTarget]])]
          /\ UNCHANGED <<pc, result>>
       \/ ~HasFile(NextTarget) /\ Raise /\ UNCHANGED package
    /\ UNCHANGED <<inputs, changes, quiet, loaded, manifest, binding, wantsZip, outputs, faults, stops>>

\* One target: its file as it is now, its row from the manifest that was checked.
CopyTarget ==
    /\ pc = "copy" /\ webui # "one" /\ TargetsOf(manifest) # DOMAIN package.files
    /\ \/ /\ HasFile(NextTarget)
          /\ package' = [package EXCEPT
                !.files = With(@, NextTarget, FileNow(NextTarget)),
                !.rows = With(@, NextTarget, [sha |-> ContentOf[manifest][NextTarget],
                                              baseline |-> BaselineOf[manifest][NextTarget]])]
          /\ UNCHANGED <<pc, result>>
       \/ ~HasFile(NextTarget) /\ Raise /\ UNCHANGED package
    /\ UNCHANGED <<inputs, changes, quiet, loaded, manifest, binding, wantsZip, outputs, faults, stops>>

\* copy_webui_assets wants both trees or none.
WebuiIncomplete ==
    /\ pc = "copy" /\ webui = "one" /\ Raise
    /\ UNCHANGED <<inputs, changes, assembly, wantsZip, outputs, faults, stops>>

\* Mutant of CopyDocuments: the plan of the generation is left behind.
CopyManifestOnly ==
    /\ pc = "copy" /\ webui # "one" /\ TargetsOf(manifest) = DOMAIN package.files
    /\ \/ /\ TargetsOf(manifest) # {} /\ generated # Nothing
          /\ package' = [package EXCEPT !.manifest = generated.of]
          /\ GoTo("bind") /\ UNCHANGED result
       \/ (TargetsOf(manifest) = {} \/ generated = Nothing) /\ Raise /\ UNCHANGED package
    /\ UNCHANGED <<inputs, changes, quiet, loaded, manifest, binding, wantsZip, outputs, faults, stops>>

\* Mutant of CopyDocuments: a generation without static targets is packed.
CopyDocumentsOfAny ==
    /\ pc = "copy" /\ webui # "one" /\ TargetsOf(manifest) = DOMAIN package.files
    /\ IF generated # Nothing /\ (PlanOf[manifest] = NoPlan \/ PlanNow # NoPlan)
       THEN package' = [package EXCEPT
                !.manifest = generated.of,
                !.plan = IF PlanOf[manifest] = NoPlan THEN NoPlan ELSE PlanNow]
            /\ GoTo("bind") /\ UNCHANGED result
       ELSE Raise /\ UNCHANGED package
    /\ UNCHANGED <<inputs, changes, quiet, loaded, manifest, binding, wantsZip, outputs, faults, stops>>

\* The manifest and, if the one that was loaded has a plan, the plan.
CopyDocuments ==
    /\ pc = "copy" /\ webui # "one" /\ TargetsOf(manifest) = DOMAIN package.files
    /\ LET present == generated # Nothing /\ (PlanOf[manifest] = NoPlan \/ PlanNow # NoPlan)
       IN  \/ /\ TargetsOf(manifest) # {} /\ present
              /\ package' = [package EXCEPT
                    !.manifest = generated.of,
                    !.plan = IF PlanOf[manifest] = NoPlan THEN NoPlan ELSE PlanNow]
              /\ GoTo("bind") /\ UNCHANGED result
           \/ /\ TargetsOf(manifest) = {} \/ ~present
              /\ Raise /\ UNCHANGED package
    /\ UNCHANGED <<inputs, changes, quiet, loaded, manifest, binding, wantsZip, outputs, faults, stops>>

\* write_preflight_binding, write_compatibility_tsv
Bind ==
    /\ pc = "bind" /\ GoTo("seal")
    /\ package' = [package EXCEPT !.binding = binding, !.compat = loaded.properties]
    /\ UNCHANGED <<inputs, changes, quiet, loaded, manifest, binding, wantsZip, result, outputs,
                   faults, stops>>

\* build_package_manifest hashes the profile's file again; then the checksums
\* and, if asked for, the ZIP.
Seal ==
    /\ pc = "seal" /\ GoTo("move")
    /\ package' = [package EXCEPT !.profile = profile, !.generation = loaded.manifest]
    /\ UNCHANGED <<inputs, changes, quiet, loaded, manifest, binding, wantsZip, result, outputs,
                   faults, stops>>

-----------------------------------------------------------------------------
(* commit_assembled_outputs *)

CommitFrame == <<inputs, changes, assembly, wantsZip, stops>>

\* Mutant of Move: the old directory is removed to make room.
MoveDropping ==
    /\ pc = "move" /\ output' = Nothing /\ GoTo("move-zip")
    /\ UNCHANGED <<CommitFrame, result, outputBackup, zip, zipBackup, faults>>

\* output and then the ZIP move to their backups, if they are there.
Move ==
    /\ pc = "move"
    /\ \/ /\ output # Nothing
          /\ \/ outputBackup' = output /\ output' = Nothing /\ GoTo("move-zip") /\ UNCHANGED faults
             \/ Fails("move") /\ GoTo("undo") /\ UNCHANGED <<output, outputBackup>>
       \/ /\ output = Nothing
          /\ GoTo("move-zip") /\ UNCHANGED <<output, outputBackup, faults>>
    /\ UNCHANGED <<CommitFrame, result, zip, zipBackup>>

MoveZip ==
    /\ pc = "move-zip"
    /\ \/ /\ wantsZip /\ zip # Nothing
          /\ \/ zipBackup' = zip /\ zip' = Nothing /\ GoTo("install") /\ UNCHANGED faults
             \/ Fails("move-zip") /\ GoTo("undo") /\ UNCHANGED <<zip, zipBackup>>
       \/ /\ ~wantsZip \/ zip = Nothing
          /\ GoTo("install") /\ UNCHANGED <<zip, zipBackup, faults>>
    /\ UNCHANGED <<CommitFrame, result, output, outputBackup>>

Install ==
    /\ pc = "install"
    /\ \/ /\ output' = NewPackage /\ GoTo(IF wantsZip THEN "install-zip" ELSE "drop")
          /\ UNCHANGED faults
       \/ Fails("install") /\ GoTo("undo") /\ UNCHANGED output
    /\ UNCHANGED <<CommitFrame, result, outputBackup, zip, zipBackup>>

InstallZip ==
    /\ pc = "install-zip"
    /\ \/ zip' = NewPackage /\ GoTo("drop") /\ UNCHANGED faults
       \/ Fails("install-zip") /\ GoTo("undo") /\ UNCHANGED zip
    /\ UNCHANGED <<CommitFrame, result, output, outputBackup, zipBackup>>

\* A handler's own call fails: the rest of the handler does not run.
UndoFails ==
    /\ pc \in {"undo", "undo-output", "undo-zip"} /\ Fails("undo") /\ Raise
    /\ output' = IF pc = "undo" /\ output = NewPackage THEN Torn ELSE output
    /\ UNCHANGED <<CommitFrame, outputBackup, zip, zipBackup>>

\* except OSError: the new directory goes, then the old one comes back.
UndoInstall ==
    /\ pc = "undo" /\ GoTo("undo-output")
    /\ output' = IF output = NewPackage THEN Nothing ELSE output
    /\ UNCHANGED <<CommitFrame, result, outputBackup, zip, zipBackup, faults>>

\* Mutant of UndoOutput: the handler ends with the directory.
UndoOutputOnly ==
    /\ pc = "undo-output" /\ Raise
    /\ output' = IF outputBackup # Nothing THEN outputBackup ELSE output
    /\ outputBackup' = Nothing
    /\ UNCHANGED <<CommitFrame, zip, zipBackup, faults>>

UndoOutput ==
    /\ pc = "undo-output" /\ GoTo("undo-zip")
    /\ output' = IF outputBackup # Nothing THEN outputBackup ELSE output
    /\ outputBackup' = Nothing
    /\ UNCHANGED <<CommitFrame, result, zip, zipBackup, faults>>

UndoZip ==
    /\ pc = "undo-zip" /\ Raise
    /\ zip' = IF zipBackup # Nothing THEN zipBackup ELSE zip
    /\ zipBackup' = Nothing
    /\ UNCHANGED <<CommitFrame, output, outputBackup, faults>>

\* The backups go last, outside the try: a failure is reported although the
\* new pair is in place.
DropOutput ==
    /\ pc = "drop"
    /\ \/ outputBackup' = Nothing /\ GoTo("drop-zip") /\ UNCHANGED <<result, faults>>
       \/ outputBackup # Nothing /\ Fails("drop") /\ Raise /\ outputBackup' = Torn
    /\ UNCHANGED <<CommitFrame, output, zip, zipBackup>>

DropZip ==
    /\ pc = "drop-zip" /\ GoTo("ended")
    /\ \/ zipBackup' = Nothing /\ result' = "ok" /\ UNCHANGED faults
       \/ zipBackup # Nothing /\ Fails("drop") /\ result' = "error" /\ UNCHANGED zipBackup
    /\ UNCHANGED <<CommitFrame, output, outputBackup, zip>>

-----------------------------------------------------------------------------
Committing == pc \in {"move", "move-zip", "install", "install-zip", "undo", "undo-output",
                      "undo-zip", "drop", "drop-zip"}

\* SIGKILL or Ctrl-C during the commit: "except OSError" sees neither.  A
\* directory being removed stays as far as it got.
Stop ==
    /\ Env \cap {"kill", "interrupt"} # {} /\ stops = 0 /\ Committing
    /\ stops' = 1 /\ Raise
    /\ \/ UNCHANGED <<output, outputBackup>>
       \/ /\ pc = "undo" /\ output = NewPackage /\ output' = Torn /\ UNCHANGED outputBackup
       \/ /\ pc = "drop" /\ outputBackup # Nothing /\ outputBackup' = Torn /\ UNCHANGED output
    /\ UNCHANGED <<inputs, changes, assembly, wantsZip, zip, zipBackup, faults>>

InputChanges == Regenerate \/ AlterFile \/ ProfileReads \/ ProfileWritten \/ Analyse

Validation == Start \/ LoadProfile \/ HashManifest \/ LoadManifest \/ Check \/ Analysis

Staging == CopyTarget \/ WebuiIncomplete \/ CopyDocuments \/ Bind \/ Seal \/ StageFails

Commit ==
    \/ Move \/ MoveZip \/ Install \/ InstallZip \/ UndoInstall \/ UndoOutput \/ UndoZip
    \/ UndoFails \/ DropOutput \/ DropZip

Next == InputChanges \/ Validation \/ Staging \/ Commit \/ Stop

Spec == Init /\ [][Next]_vars

-----------------------------------------------------------------------------
(* Properties. *)

\* The range of the outputs and of the assembly's progress.
TypeOK ==
    /\ pc \in {"new", "profile", "hash", "load", "check", "analysis", "copy", "bind", "seal",
               "ended"} \/ Committing
    /\ result \in {"none", "ok", "error"}
    /\ pc = "ended" <=> result # "none"
    /\ {output, outputBackup} \subseteq {Nothing, Torn, OldPackage, NewPackage}
    /\ {zip, zipBackup} \subseteq {Nothing, OldPackage, NewPackage}
    /\ manifest \in Generations \cup {Nothing}
    /\ generated # Nothing => DOMAIN generated = {"of", "altered"} /\ generated.of \in Generations
    /\ DOMAIN package.files = DOMAIN package.rows
    /\ Committing => DOMAIN package.files = TargetsOf(manifest) /\ package.files # <<>>

\* The rows of a package whose payload the device's hash check takes
\* (property of mount preflight, policy.sh): all from one generation the audit
\* passed, over the baselines it was audited against, for the properties of the
\* profile; whatever happened to the directory while it was read.
MountedPayloadIsAudited ==
    (output = NewPackage /\ \A t \in DOMAIN package.rows : package.files[t] = package.rows[t].sha) =>
        \E g \in Generations :
            /\ TargetsOf(g) = DOMAIN package.rows
            /\ \A t \in TargetsOf(g) :
                  /\ package.files[t] = ContentOf[g][t]
                  /\ package.rows[t].baseline = BaselineOf[g][t]
            /\ loaded.baselines = BaselineOf[g]

\* If no input changed while it ran, everything in the package is of the one
\* generation and the one device that the profile names, down to the files the
\* assembly reads again after it has checked them.
QuietPackageIsOneGeneration ==
    (output = NewPackage /\ quiet) =>
        LET g == profile.manifest
        IN  /\ package.files = ContentOf[g] /\ package.manifest = g /\ package.generation = g
            /\ package.plan = PlanOf[g]
            /\ package.profile = profile /\ package.compat = profile.properties
            /\ \A t \in DOMAIN package.rows : package.rows[t].sha = package.files[t]
            /\ package.binding # Nothing => package.binding.analysis.properties = package.compat
            /\ webui # "none" => package.binding # Nothing

\* With at most one failing call and nobody stopping it, the assembly ends with
\* the new directory and the new ZIP, or with what was there, never with one of
\* each (assembly_hardening.py 86-114).
PairMatches ==
    (pc = "ended" /\ faults <= 1 /\ stops = 0) =>
        \/ output = NewPackage /\ (wantsZip => zip = NewPackage)
        \/ /\ NewPackage \notin {output, zip}
           /\ OldPackage \notin {outputBackup, zipBackup} /\ output # Torn

\* A package directory that was there is somewhere, output or backup, until the
\* new one is in place with its ZIP; so is its ZIP.
PairKept ==
    /\ OldPackage \in {output, outputBackup}
    /\ OldPackage \in {zip, zipBackup}

OldPairSurvives ==
    [][PairKept => PairKept' \/ (output' = NewPackage /\ (wantsZip => zip' = NewPackage))]_vars
=============================================================================
