------------------------------ MODULE Generator ------------------------------
(***************************************************************************)
(* generate_payload (generator.py): the edits a catalog makes to baseline  *)
(* documents, their audit, and the exchange of the output directory.       *)
(*                                                                         *)
(* Several generations may run at once on one output path; each keeps its  *)
(* staging and backup directories under names that carry its pid.  A       *)
(* process runs one generation, so the generation is named by the process. *)
(* A step is one stage of the generation or one call on the output path.   *)
(***************************************************************************)
EXTENDS XmlEdit, PropertyPlan

CONSTANTS
    Procs,              \* generations
    Baseline,           \* target :> document; targets not in it do not exist
    TargetOrder,        \* all targets, sorted
    PermissionFiles,    \* targets whose names PERMISSION_FILE_TERMS matches
    ProhibitedTargets,  \* targets PROHIBITED_TARGET_TOKEN matches
    CatalogsOf,         \* the catalogs each process may be given
    Selections,         \* sets of selected feature ids, {} for the default
    Live,               \* the device's properties
    Old,                \* a generation that was there before
    Nothing,            \* no directory
    Torn,               \* a directory some files of which are gone
    Faults,             \* calls that may fail
    Env,                \* what may happen to the processes
    MaxFaults           \* bound: failing calls

ASSUME GeneratorAssumption ==
    /\ Cardinality({Old, Nothing, Torn}) = 3 /\ {Old, Nothing, Torn} \cap Procs = {}
    /\ Faults \subseteq {"edit", "publish", "move", "install", "restore", "rmtree"}
    /\ Env \subseteq {"kill", "interrupt", "capture"} /\ MaxFaults \in Nat

ASSUME CatalogAssumption ==
    \A p \in Procs : \A catalog \in CatalogsOf[p] :
        /\ IsFiniteSet(DOMAIN catalog)
        /\ \A i \in DOMAIN catalog :
              /\ catalog[i].id \in Nat /\ IsFiniteSet(DOMAIN catalog[i].operations)
              /\ \A k \in DOMAIN catalog[i].operations :
                    LET op == catalog[i].operations[k]
                    IN  op.type = "property_set" => op.key \in Nat

VARIABLES
    pc,         \* next step of each process
    ops,        \* operations of the enabled features of its catalog
    files,      \* documents in its staging directory, later its generation
    removed,    \* allowed_removals
    plan,       \* rows of its property plan
    staging,    \* its staging directory: "none", "partial" or "whole"
    output,     \* generation in the output directory
    backup,     \* generation in the backup directory of each pid
    result,     \* what it reported: "none", "ok" or "error"
    snapshot,   \* the property snapshot file, Nothing before it is captured
    faults,     \* failing calls so far
    stops       \* kills and interrupts so far

vars == <<pc, ops, files, removed, plan, staging, output, backup, result, snapshot,
          faults, stops>>

Whole == Procs \cup {Old}
Running == {p \in Procs : pc[p] \notin {"new", "ended", "dead"}}

Init ==
    /\ pc = [p \in Procs |-> "new"] /\ ops = [p \in Procs |-> <<>>]
    /\ files = [p \in Procs |-> <<>>] /\ removed = [p \in Procs |-> <<>>]
    /\ plan = [p \in Procs |-> <<>>] /\ staging = [p \in Procs |-> "none"]
    /\ output \in {Old, Nothing} /\ backup = [p \in Procs |-> Nothing]
    /\ result = [p \in Procs |-> "none"] /\ snapshot = Nothing
    /\ faults = 0 /\ stops = 0

GoTo(p, next) == pc' = [pc EXCEPT ![p] = next]

\* A call named f fails.
Fails(f) == f \in Faults /\ faults < MaxFaults /\ faults' = faults + 1

-----------------------------------------------------------------------------
(* Before any directory is made. *)

\* _load_catalog
ValidCatalog(catalog) ==
    /\ DistinctIds(catalog)
    /\ \A i \in DOMAIN catalog :
          /\ catalog[i].category # "camera"
          /\ \A k \in DOMAIN catalog[i].operations :
                LET op == catalog[i].operations[k]
                IN  op.type # "property_set" =>
                        op.target \notin ProhibitedTargets /\ op.preserve

\* The selected operations can be planned on the snapshot as it is.
CanGenerate(catalog, selected) ==
    /\ ValidCatalog(catalog) /\ KnownIds(catalog, selected)
    /\ DOMAIN PropertyOperations(catalog, selected) # {} =>
          /\ snapshot # Nothing
          /\ CanPlan(PropertyOperations(catalog, selected), snapshot)

\* capture_property_snapshot is run with some catalog and selection, before the
\* first generation.
Capture ==
    /\ "capture" \in Env /\ snapshot = Nothing /\ \A p \in Procs : pc[p] = "new"
    /\ \E catalog \in UNION {CatalogsOf[p] : p \in Procs}, selected \in Selections :
          /\ CanCapture(catalog, selected, Live)
          /\ snapshot' = CaptureSnapshot(catalog, selected, Live)
    /\ UNCHANGED <<pc, ops, files, removed, plan, staging, output, backup, result, faults, stops>>

Start(p) ==
    /\ pc[p] = "new"
    /\ \E catalog \in CatalogsOf[p], selected \in Selections :
          \/ /\ ~CanGenerate(catalog, selected)
             /\ GoTo(p, "ended") /\ result' = [result EXCEPT ![p] = "error"]
             /\ UNCHANGED <<ops, plan, staging>>
          \/ /\ CanGenerate(catalog, selected)
             /\ ops' = [ops EXCEPT ![p] = SelectSeq(Operations(catalog, selected),
                                             LAMBDA op : op.type # "property_set")]
             /\ plan' = [plan EXCEPT ![p] =
                            LET rows == PropertyOperations(catalog, selected)
                            IN  IF DOMAIN rows = {} THEN <<>> ELSE BuildPropertyPlan(rows, snapshot)]
             /\ staging' = [staging EXCEPT ![p] = "partial"]
             /\ GoTo(p, "edit") /\ UNCHANGED result
    /\ UNCHANGED <<files, removed, output, backup, snapshot, faults, stops>>

-----------------------------------------------------------------------------
(* Edits and audit, in the staging directory. *)

Targets(p) == {ops[p][i].target : i \in DOMAIN ops[p]}
NextTarget(p) ==
    TargetOrder[SelectInSeq(TargetOrder, LAMBDA t : t \in Targets(p) \ DOMAIN files[p])]

\* An exception: on to the finally clause.
Raise(p) == GoTo(p, "cleanup") /\ result' = [result EXCEPT ![p] = "error"]

\* f with the value v for t.
With(f, t, v) == [x \in DOMAIN f \cup {t} |-> IF x = t THEN v ELSE f[x]]

\* All operations on one target, in order; the first that fails ends them.
EditDocument(doc, todo) ==
    FoldLeft(LAMBDA done, op :
                IF ~done.ok THEN done
                ELSE LET next == ApplyXmlOperation(done.doc, op)
                     IN  [next EXCEPT !.removed = @ \cup done.removed],
             Edited(doc), todo)

\* Mutant of Edit: the removals a catalog declares are not recorded.
EditUndeclared(p) ==
    /\ pc[p] = "edit" /\ Targets(p) # DOMAIN files[p]
    /\ LET t == NextTarget(p)
           edited == IF t \notin DOMAIN Baseline THEN Rejected(<<>>)
                     ELSE EditDocument(Baseline[t], SelectSeq(ops[p], LAMBDA op : op.target = t))
       IN  IF edited.ok THEN files' = [files EXCEPT ![p] = With(@, t, edited.doc)]
                             /\ UNCHANGED <<pc, result>>
                        ELSE Raise(p) /\ UNCHANGED files
    /\ UNCHANGED <<ops, removed, plan, staging, output, backup, snapshot, faults, stops>>

Edit(p) ==
    /\ pc[p] = "edit" /\ Targets(p) # DOMAIN files[p]
    /\ LET t == NextTarget(p)
           edited == IF t \notin DOMAIN Baseline THEN Rejected(<<>>)
                     ELSE EditDocument(Baseline[t], SelectSeq(ops[p], LAMBDA op : op.target = t))
       IN  \/ /\ ~edited.ok
              /\ Raise(p)
              /\ UNCHANGED <<files, removed, faults>>
           \/ /\ edited.ok
              /\ files' = [files EXCEPT ![p] = With(@, t, edited.doc)]
              /\ removed' = [removed EXCEPT ![p] = With(@, t, edited.removed)]
              /\ UNCHANGED <<pc, result, faults>>
    /\ UNCHANGED <<ops, plan, staging, output, backup, snapshot, stops>>

\* Copying, parsing, writing or hashing a file fails.
EditFails(p) ==
    /\ pc[p] = "edit" /\ Fails("edit") /\ Raise(p)
    /\ UNCHANGED <<ops, files, removed, plan, staging, output, backup, snapshot, stops>>

\* audit_trees over the touched targets
Findings(p) ==
    UNION {AuditXml(Baseline[t], files[p][t], t \in PermissionFiles, removed[p][t]) :
              t \in DOMAIN files[p]}

Audit(p) ==
    /\ pc[p] = "edit" /\ Targets(p) = DOMAIN files[p]
    /\ IF Findings(p) = {} THEN GoTo(p, "publish") /\ UNCHANGED result ELSE Raise(p)
    /\ UNCHANGED <<ops, files, removed, plan, staging, output, backup, snapshot, faults, stops>>

\* The plan, if there are rows, and the manifest.
Publish(p) ==
    /\ pc[p] = "publish"
    /\ \/ /\ staging' = [staging EXCEPT ![p] = "whole"] /\ GoTo(p, "look")
          /\ UNCHANGED <<result, faults>>
       \/ Fails("publish") /\ Raise(p) /\ UNCHANGED staging
    /\ UNCHANGED <<ops, files, removed, plan, output, backup, snapshot, stops>>

-----------------------------------------------------------------------------
(* The exchange of the output directory. *)

\* output_root.exists(); a backup of this pid from before is removed.
Look(p) ==
    /\ pc[p] = "look"
    /\ backup' = [backup EXCEPT ![p] = Nothing]
    /\ GoTo(p, IF output # Nothing THEN "move" ELSE "install")
    /\ UNCHANGED <<ops, files, removed, plan, staging, output, result, snapshot, faults, stops>>

\* os.replace(output_root, backup); another process may have taken it meanwhile.
Move(p) ==
    /\ pc[p] = "move"
    /\ \/ /\ output # Nothing
          /\ backup' = [backup EXCEPT ![p] = output] /\ output' = Nothing
          /\ GoTo(p, "install") /\ UNCHANGED <<result, faults>>
       \/ /\ \/ output = Nothing /\ UNCHANGED faults
             \/ Fails("move")
          /\ Raise(p) /\ UNCHANGED <<output, backup>>
    /\ UNCHANGED <<ops, files, removed, plan, staging, snapshot, stops>>

\* Mutant of Install: a failing replacement goes on as if nothing had to be put back.
InstallUnrestored(p) ==
    /\ pc[p] = "install"
    /\ \/ /\ output = Nothing
          /\ output' = p /\ staging' = [staging EXCEPT ![p] = "none"]
          /\ result' = [result EXCEPT ![p] = "ok"]
          /\ GoTo(p, "drop") /\ UNCHANGED faults
       \/ /\ \/ output # Nothing /\ UNCHANGED faults
             \/ Fails("install")
          /\ GoTo(p, "raise") /\ UNCHANGED <<output, staging, result>>
    /\ UNCHANGED <<ops, files, removed, plan, backup, snapshot, stops>>

\* os.replace(staging, output_root), which fails on a directory that is not empty.
Install(p) ==
    /\ pc[p] = "install"
    /\ \/ /\ output = Nothing
          /\ output' = p /\ staging' = [staging EXCEPT ![p] = "none"]
          /\ result' = [result EXCEPT ![p] = "ok"]
          /\ GoTo(p, "drop") /\ UNCHANGED faults
       \/ /\ \/ output # Nothing /\ UNCHANGED faults
             \/ Fails("install")
          /\ GoTo(p, "caught") /\ UNCHANGED <<output, staging, result>>
    /\ UNCHANGED <<ops, files, removed, plan, backup, snapshot, stops>>

\* "except OSError": backup.exists() and not output_root.exists(), when others
\* may have put an output there or taken it away since the replacement failed.
Caught(p) ==
    /\ pc[p] = "caught"
    /\ GoTo(p, IF backup[p] # Nothing /\ output = Nothing THEN "restore" ELSE "raise")
    /\ UNCHANGED <<ops, files, removed, plan, staging, output, backup, result, snapshot, faults, stops>>

\* os.replace(backup, output_root)
Restore(p) ==
    /\ pc[p] = "restore"
    /\ \/ /\ output = Nothing
          /\ output' = backup[p] /\ backup' = [backup EXCEPT ![p] = Nothing]
          /\ UNCHANGED faults
       \/ /\ \/ output # Nothing /\ UNCHANGED faults
             \/ Fails("restore")
          /\ UNCHANGED <<output, backup>>
    /\ Raise(p)
    /\ UNCHANGED <<ops, files, removed, plan, staging, snapshot, stops>>

Reraise(p) ==
    /\ pc[p] = "raise" /\ Raise(p)
    /\ UNCHANGED <<ops, files, removed, plan, staging, output, backup, snapshot, faults, stops>>

\* rmtree(backup, ignore_errors=True): all of it, or only some.
RemoveBackup(p) ==
    \/ backup' = [backup EXCEPT ![p] = Nothing] /\ UNCHANGED faults
    \/ /\ backup[p] # Nothing /\ Fails("rmtree")
       /\ backup' = [backup EXCEPT ![p] = Torn]

\* Mutant of Drop: a backup that cannot be removed is an error.
DropRaising(p) ==
    /\ pc[p] = "drop" /\ RemoveBackup(p)
    /\ IF faults' = faults THEN GoTo(p, "cleanup") /\ UNCHANGED result ELSE Raise(p)
    /\ UNCHANGED <<ops, files, removed, plan, staging, output, snapshot, stops>>

Drop(p) ==
    /\ pc[p] = "drop" /\ RemoveBackup(p) /\ GoTo(p, "cleanup")
    /\ UNCHANGED <<ops, files, removed, plan, staging, output, result, snapshot, stops>>

\* Mutant of Cleanup: the backup goes whether there is an output or not.
CleanupBlindly(p) ==
    /\ pc[p] = "cleanup" /\ staging' = [staging EXCEPT ![p] = "none"]
    /\ GoTo(p, IF backup[p] # Nothing THEN "discard" ELSE "ended")
    /\ UNCHANGED <<ops, files, removed, plan, output, backup, result, snapshot, faults, stops>>

\* The finally clause: staging goes, and the backup if there is an output too.
Cleanup(p) ==
    /\ pc[p] = "cleanup" /\ staging' = [staging EXCEPT ![p] = "none"]
    /\ GoTo(p, IF backup[p] # Nothing /\ output # Nothing THEN "discard" ELSE "ended")
    /\ UNCHANGED <<ops, files, removed, plan, output, backup, result, snapshot, faults, stops>>

Discard(p) ==
    /\ pc[p] = "discard" /\ RemoveBackup(p) /\ GoTo(p, "ended")
    /\ UNCHANGED <<ops, files, removed, plan, staging, output, result, snapshot, stops>>

-----------------------------------------------------------------------------
\* SIGKILL; a removal under way stops where it is.
Kill(p) ==
    /\ "kill" \in Env /\ stops = 0 /\ p \in Running
    /\ GoTo(p, "dead") /\ stops' = stops + 1
    /\ backup' \in {backup} \cup
          (IF pc[p] \in {"drop", "discard"} /\ backup[p] # Nothing
           THEN {[backup EXCEPT ![p] = Torn]} ELSE {})
    /\ UNCHANGED <<ops, files, removed, plan, staging, output, result, snapshot, faults>>

\* Ctrl-C, which "except OSError" does not catch and "finally" sees.
Interrupt(p) ==
    /\ "interrupt" \in Env /\ stops = 0 /\ p \in Running \ {q \in Procs : pc[q] \in {"cleanup", "discard"}}
    /\ GoTo(p, "cleanup") /\ stops' = stops + 1
    /\ result' = [result EXCEPT ![p] = "error"]
    /\ UNCHANGED <<ops, files, removed, plan, staging, output, backup, snapshot, faults>>

Generation(p) ==
    \/ Start(p) \/ Edit(p) \/ EditFails(p) \/ Audit(p) \/ Publish(p) \/ Look(p) \/ Move(p)
    \/ Install(p) \/ Caught(p) \/ Restore(p) \/ Reraise(p)
    \/ Drop(p) \/ Cleanup(p) \/ Discard(p)

Next == Capture \/ \E p \in Procs : Generation(p) \/ Kill(p) \/ Interrupt(p)

Spec == Init /\ [][Next]_vars

-----------------------------------------------------------------------------
(* Properties. *)

\* The range of every variable; a "whole" staging directory is about to be
\* installed by its process.
TypeOK ==
    /\ pc \in [Procs -> {"new", "edit", "publish", "look", "move", "install", "caught",
                         "restore", "raise", "drop", "cleanup", "discard", "ended", "dead"}]
    /\ staging \in [Procs -> {"none", "partial", "whole"}]
    /\ output \in Whole \cup {Nothing} /\ backup \in [Procs -> Whole \cup {Nothing, Torn}]
    /\ result \in [Procs -> {"none", "ok", "error"}]
    /\ faults \in 0..MaxFaults /\ stops \in 0..1
    /\ DOMAIN files = Procs /\ DOMAIN removed = Procs
    /\ \A p \in Procs : DOMAIN files[p] \subseteq DOMAIN Baseline /\ DOMAIN files[p] = DOMAIN removed[p]
    /\ \A p \in Procs : pc[p] \in {"look", "move", "install"} => staging[p] = "whole"

\* Words an operation puts into a document.
WordsOf(op) ==
    CASE op.type \in {"xml_add", "xml_update"} ->
           ToSet(IF "text" \in DOMAIN op.value THEN op.value.text ELSE <<>>)
             \cup {op.value.attrs[a] : a \in DOMAIN op.value.attrs} \cup DOMAIN op.value.attrs
             \cup (IF op.type = "xml_add" THEN {op.value.tag} ELSE {})
      [] op.type \in {"list_append", "permission_add"} -> {op.token}
      [] OTHER -> {}

\* Words anywhere in or below a protected element.
ProtectedWords(doc) ==
    LET under[n \in DOMAIN doc] ==
            \/ SemanticWords(doc[n]) \cap (CredentialWords \cup CameraWords) # {}
            \/ n # Root /\ under[doc[n].up]
    IN  UNION {SemanticWords(doc[n]) : n \in {m \in DOMAIN doc : under[m]}}

\* Unless an operation writes words that protected elements are made of, every
\* credential or camera element of the baseline is in the published document
\* where it was, it and all below it unchanged: the audit's comparison of
\* sorted serializations (audit.py 90-96, 154-188) loses no element, whatever
\* selectors and operations came together.
ProtectedSurvive ==
    \A p \in Procs : result[p] = "ok" =>
        \A t \in DOMAIN files[p] :
            LET base == Baseline[t]
                gen == files[p][t]
                mine == SelectSeq(ops[p], LAMBDA op : op.target = t)
            IN  (\A i \in DOMAIN mine : WordsOf(mine[i]) \cap ProtectedWords(base) = {}) =>
                    \A n \in Protected(base, CredentialWords \cup CameraWords) :
                        /\ n \in DOMAIN gen /\ Serialize(gen)[n] = Serialize(base)[n]
                        /\ gen[n].up = base[n].up

\* Somewhere there is a whole generation.
Kept == output \in Whole \/ \E p \in Procs : backup[p] \in Whole

\* Once there is a generation, no step of anyone destroys the last one: a whole
\* one is in the output or in some backup through failing calls, kills,
\* interrupts and other generations that exchange the same path (generator.py
\* 204-225).
PublishedSurvives == [][Kept => Kept']_vars

\* The generations that reported success.
Reported == {p \in Procs : result[p] = "ok"}

\* If nobody is stopped, what is in the output when all have ended was there
\* before or is of a generation that reported success, whatever calls failed;
\* and if none failed, the path is not left empty once there is a generation.
OutputIsReported ==
    (stops = 0 /\ Running = {}) =>
        /\ output \in {Old, Nothing} \cup Reported
        /\ (faults = 0 /\ Kept) => output \in Whole

AtMostTwo == \A p, q, r \in Procs : p = q \/ q = r \/ p = r

\* Of two generations on one path, with at most one failing call and nobody
\* stopped, none undoes the other's success and none leaves a backup behind.
\* (Three can, without a failing call of the system: the replacement of the
\* first fails on the success of the second, the third moves that away, the
\* first then finds no output and puts the old one back, and the third fails on
\* it and drops the success.)
FailureKeepsOutput ==
    (AtMostTwo /\ faults <= 1 /\ stops = 0 /\ Running = {}) =>
        /\ Reported # {} => output \in Procs
        /\ \A p \in Procs : backup[p] \notin Whole

\* A published plan is one that the device it was captured on accepts, at every
\* stage: what propertyplan.py lets through is what property-policy.sh wants,
\* whichever catalog and selection the snapshot was captured for.
PlanRuns ==
    \A p \in Procs : result[p] = "ok" =>
        \A stage \in DOMAIN StageOrder : DeviceAccepts(plan[p], stage, Live)
=============================================================================
