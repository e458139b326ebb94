------------------------------ MODULE Preflight ------------------------------
(***************************************************************************)
(* analyze_preflight_archive (preflight.py): the archive of a device report *)
(* is checked against its SHA-256 sidecar and its own manifest              *)
(* (preflight_archive.py), classified (PreflightEvidence), and the analysis *)
(* replaces the one in the output directory.                                *)
(*                                                                         *)
(* The archive is hashed by path, then opened by path, and the sidecar is   *)
(* read twice; either may be replaced meanwhile.  A content stands for its  *)
(* hash.  A tar member is [root, path, safe, kind, size, data]; "" is the   *)
(* path of the report root itself.                                          *)
(***************************************************************************)
EXTENDS PreflightEvidence, FiniteSets

CONSTANTS
    Archives,       \* archives there may be: sequences of members
    Replacements,   \* those that may replace the one under analysis
    Sidecars(_),    \* the sidecars that may lie beside an archive
    Manifest,       \* [contents of manifest.sha256 that parse -> sequence of <<path, digest>>]
    MaxMembers, MaxFileSize, MaxTotalSize,
    Nothing, Torn, OldAnalysis, NewAnalysis,
    Faults,         \* calls that may fail
    MaxFaults,      \* bound: failing calls
    MaxChanges      \* bound: changes of the two inputs

ASSUME PreflightAssumption ==
    /\ Replacements \subseteq Archives
    /\ Cardinality({Nothing, Torn, OldAnalysis, NewAnalysis}) = 4
    /\ Faults \subseteq {"stage", "move", "install", "sync", "drop", "remove", "restore"}
    /\ {MaxMembers, MaxFileSize, MaxTotalSize, MaxFaults, MaxChanges} \subseteq Nat

ASSUME ArchiveAssumption ==
    \A a \in Archives : Len(a) \in Nat /\ DOMAIN a = 1..Len(a) /\ \A i \in DOMAIN a : a[i].size \in Nat

ASSUME ManifestAssumption ==
    \A content \in DOMAIN Manifest :
        LET rows == Manifest[content]
        IN  /\ Len(rows) \in Nat /\ DOMAIN rows = 1..Len(rows)
            /\ \A i \in DOMAIN rows : rows[i] = <<rows[i][1], rows[i][2]>>

VARIABLES
    archive, sidecar,   \* the two files
    apart,              \* the output path overlaps no input
    changes,
    pc,
    quiet,      \* neither file has changed since the analysis started
    expected,   \* the digest the sidecar names
    report,     \* the archive that was opened
    next,       \* the member to be read
    seen,       \* <<root, path>> of the members read
    files,      \* [path -> content]
    total,      \* bytes read
    verified,   \* "pending", "yes" or "no"
    analysis,   \* Nothing, or what is written
    output, backup, staging,
    before,     \* history: output and backup when the analysis started
    torn,       \* a directory was removed only in part
    result,     \* "none", "ok", "error", "interrupted" or "killed"
    faults

inputs == <<archive, sidecar, apart, changes>>
verification == <<expected, report, next, seen, files, total, verified>>
outputs == <<output, backup, staging>>
vars == <<inputs, pc, quiet, verification, analysis, outputs, before, torn, result, faults>>

GoTo(label) == pc' = label
Fails(f) == f \in Faults /\ faults < MaxFaults /\ faults' = faults + 1
Refuse == GoTo("ended") /\ result' = "error"

\* What an earlier analysis may have left; a killed one of the same pid leaves its
\* backup, with the output not yet in place or before all of the backup was gone.
Earlier ==
    {[output |-> Nothing, backup |-> Nothing], [output |-> OldAnalysis, backup |-> Nothing],
     [output |-> Nothing, backup |-> OldAnalysis], [output |-> OldAnalysis, backup |-> Torn]}

Init ==
    /\ archive \in Archives /\ sidecar \in Sidecars(archive) /\ apart \in BOOLEAN /\ changes = 0
    /\ pc = "paths" /\ quiet = TRUE
    /\ expected = Nothing /\ report = <<>> /\ next = 1 /\ seen = {} /\ files = <<>> /\ total = 0
    /\ verified = "pending" /\ analysis = Nothing
    /\ before \in Earlier
    /\ output = before.output /\ backup = before.backup /\ staging = Nothing
    /\ torn = FALSE /\ result = "none" /\ faults = 0

-----------------------------------------------------------------------------
(* The environment: the owner fetches the two files of another report.      *)

Reading == pc \in {"paths", "sidecar", "hash", "open", "classify", "sidecar-hash"}

ReplaceInput ==
    /\ Reading /\ changes < MaxChanges /\ changes' = changes + 1 /\ quiet' = FALSE
    /\ \/ archive' \in Replacements \ {archive} /\ UNCHANGED sidecar
       \/ sidecar' \in Sidecars(archive) \ {sidecar} /\ UNCHANGED archive
    /\ UNCHANGED <<apart, pc, verification, analysis, outputs, before, torn, result, faults>>

-----------------------------------------------------------------------------
(* Verification. *)

Unverified == Refuse /\ verified' = "no"

\* _validate_output_path
ValidatePaths ==
    /\ pc = "paths"
    /\ IF apart THEN GoTo("sidecar") /\ UNCHANGED result ELSE Refuse
    /\ UNCHANGED <<inputs, quiet, verification, analysis, outputs, before, torn, faults>>

\* _parse_sidecar: one line that names this archive.
ParseSidecar ==
    /\ pc = "sidecar"
    /\ \/ /\ Len(sidecar) = 1 /\ sidecar[1].named
          /\ expected' = sidecar[1].digest /\ GoTo("hash") /\ UNCHANGED <<result, verified>>
       \/ /\ ~(Len(sidecar) = 1 /\ sidecar[1].named)
          /\ Unverified /\ UNCHANGED expected
    /\ UNCHANGED <<inputs, quiet, report, next, seen, files, total, analysis, outputs, before, torn, faults>>

HashArchive ==
    /\ pc = "hash"
    /\ IF archive = expected THEN GoTo("open") /\ UNCHANGED <<result, verified>> ELSE Unverified
    /\ UNCHANGED <<inputs, quiet, expected, report, next, seen, files, total, analysis, outputs,
                   before, torn, faults>>

\* tarfile.open, getmembers and the limit on their number.
OpenArchive ==
    /\ pc = "open" /\ report' = archive
    /\ IF Len(archive) <= MaxMembers
       THEN GoTo("member") /\ UNCHANGED <<result, verified>>
       ELSE Unverified
    /\ UNCHANGED <<inputs, quiet, expected, next, seen, files, total, analysis, outputs, before, torn, faults>>

Name(member) == <<member.root, member.path>>

\* Mutant of Admits: only the size of each file is limited.
AdmitsAnyTotal(member) ==
    /\ member.safe
    /\ Name(member) \notin seen
    /\ member.kind # "dir" =>
          /\ member.path # "" /\ member.kind = "file" /\ member.size <= MaxFileSize
          /\ member.path \notin DOMAIN files

\* Mutant of Admits: directories may have the name of another member.
AdmitsNamesakes(member) ==
    /\ member.safe
    /\ member.kind # "dir" =>
          /\ Name(member) \notin seen
          /\ member.path # "" /\ member.kind = "file"
          /\ member.size <= MaxFileSize /\ total + member.size <= MaxTotalSize
          /\ member.path \notin DOMAIN files

\* The body of the loop over the members, up to its checks.
Admits(member) ==
    /\ member.safe
    /\ Name(member) \notin seen
    /\ member.kind # "dir" =>
          /\ member.path # "" /\ member.kind = "file"
          /\ member.size <= MaxFileSize /\ total + member.size <= MaxTotalSize
          /\ member.path \notin DOMAIN files

ReadMember ==
    /\ pc = "member" /\ next <= Len(report)
    /\ LET member == report[next]
       IN  \/ /\ Admits(member)
              /\ seen' = seen \cup {Name(member)} /\ next' = next + 1
              /\ \/ /\ member.kind = "dir" /\ UNCHANGED <<files, total>>
                 \/ /\ member.kind # "dir"
                    /\ files' = [p \in DOMAIN files \cup {member.path} |->
                                    IF p = member.path THEN member.data ELSE files[p]]
                    /\ total' = total + member.size
              /\ UNCHANGED <<pc, result, verified>>
           \/ /\ ~Admits(member)
              /\ Unverified /\ UNCHANGED <<seen, next, files, total>>
    /\ UNCHANGED <<inputs, quiet, expected, report, analysis, outputs, before, torn, faults>>

\* _parse_internal_manifest
ManifestParses(content) ==
    /\ content \in DOMAIN Manifest /\ Manifest[content] # <<>>
    /\ IsInjective(Keys(Manifest[content])) /\ "manifest" \notin KeysOf(Manifest[content])

CheckManifest ==
    /\ pc = "member" /\ next > Len(report)
    /\ IF /\ Cardinality({name[1] : name \in seen}) = 1
          /\ "manifest" \in DOMAIN files /\ ManifestParses(files["manifest"])
          /\ LET rows == Manifest[files["manifest"]]
             IN  /\ KeysOf(rows) = DOMAIN files \ {"manifest"}
                 /\ \A p \in KeysOf(rows) : files[p] = Get(rows, p, Nothing)
       THEN verified' = "yes" /\ GoTo("classify") /\ UNCHANGED result
       ELSE Unverified
    /\ UNCHANGED <<inputs, quiet, expected, report, next, seen, files, total, analysis, outputs,
                   before, torn, faults>>

-----------------------------------------------------------------------------
(* Classification. *)

DocumentsThere == Range(Documents) \subseteq DOMAIN files

Classify ==
    /\ pc = "classify"
    /\ IF DocumentsThere THEN Parses(files) ELSE FALSE
    /\ analysis' = [archive |-> expected, sidecar |-> Nothing, verdict |-> Verdict(files),
                    properties |-> files["properties"]]
    /\ GoTo("sidecar-hash")
    /\ UNCHANGED <<inputs, quiet, verification, outputs, before, torn, result, faults>>

ClassifyFails ==
    /\ pc = "classify"
    /\ IF DocumentsThere THEN ~Parses(files) ELSE TRUE
    /\ Refuse
    /\ UNCHANGED <<inputs, quiet, verification, analysis, outputs, before, torn, faults>>

HashSidecar ==
    /\ pc = "sidecar-hash" /\ GoTo("stage")
    /\ analysis' = [analysis EXCEPT !.sidecar = sidecar]
    /\ UNCHANGED <<inputs, quiet, verification, outputs, before, torn, result, faults>>

-----------------------------------------------------------------------------
(* _write_atomic_output *)

WriteFrame == <<inputs, quiet, verification, analysis, before>>

\* A backup of the same pid is refused before the try.
Stage ==
    /\ pc = "stage"
    /\ \/ /\ backup # Nothing
          /\ Refuse /\ UNCHANGED <<staging, faults>>
       \/ /\ backup = Nothing /\ UNCHANGED result
          /\ \/ staging' = NewAnalysis /\ GoTo("move") /\ UNCHANGED faults
             \/ staging' = Torn /\ Fails("stage") /\ GoTo("remove")
    /\ UNCHANGED <<WriteFrame, output, backup, torn>>

\* Mutant of Move: a directory that is in the way is removed.
MoveRemoving ==
    /\ pc = "move" /\ output' = Nothing /\ GoTo("install")
    /\ UNCHANGED <<WriteFrame, backup, staging, torn, result, faults>>

Move ==
    /\ pc = "move"
    /\ \/ /\ output # Nothing
          /\ backup' = output /\ output' = Nothing /\ GoTo("install") /\ UNCHANGED faults
       \/ output = Nothing /\ GoTo("install") /\ UNCHANGED <<output, backup, faults>>
       \/ /\ output # Nothing /\ Fails("move") /\ GoTo("remove")
          /\ UNCHANGED <<output, backup>>
    /\ UNCHANGED <<WriteFrame, staging, torn, result>>

Install ==
    /\ pc = "install"
    /\ \/ output' = staging /\ staging' = Nothing /\ GoTo("sync") /\ UNCHANGED faults
       \/ Fails("install") /\ GoTo("remove") /\ UNCHANGED <<output, staging>>
    /\ UNCHANGED <<WriteFrame, backup, torn, result>>

\* Mutant of SyncParent: the backup goes before the new output is durable.
SyncAfterDrop ==
    /\ pc = "sync" /\ backup' = Nothing
    /\ \/ GoTo("drop") /\ UNCHANGED faults
       \/ Fails("sync") /\ GoTo("remove")
    /\ UNCHANGED <<WriteFrame, output, staging, torn, result>>

SyncParent ==
    /\ pc = "sync"
    /\ \/ GoTo("drop") /\ UNCHANGED faults
       \/ Fails("sync") /\ GoTo("remove")
    /\ UNCHANGED <<WriteFrame, outputs, torn, result>>

\* The backup goes inside the try: if that fails the handler takes it for whole.
DropBackup ==
    /\ pc = "drop"
    /\ \/ backup' = Nothing /\ GoTo("ended") /\ result' = "ok" /\ UNCHANGED <<torn, faults>>
       \/ /\ backup # Nothing /\ Fails("drop")
          /\ backup' = Torn /\ torn' = TRUE /\ GoTo("remove") /\ UNCHANGED result
    /\ UNCHANGED <<WriteFrame, output, staging>>

\* except Exception: the new directory is removed, errors ignored ...
RemoveNew ==
    /\ pc = "remove" /\ GoTo("restore")
    /\ \/ /\ output' = IF output = NewAnalysis THEN Nothing ELSE output
          /\ UNCHANGED <<torn, faults>>
       \/ output = NewAnalysis /\ Fails("remove") /\ output' = Torn /\ torn' = TRUE
    /\ UNCHANGED <<WriteFrame, backup, staging, result>>

\* ... and the backup renamed back, which a directory in the way prevents.
Restore ==
    /\ pc = "restore" /\ GoTo("clean")
    /\ \/ /\ backup # Nothing /\ output = Nothing
          /\ output' = backup /\ backup' = Nothing /\ UNCHANGED faults
       \/ backup # Nothing /\ output = Nothing /\ Fails("restore") /\ UNCHANGED <<output, backup>>
       \/ (backup = Nothing \/ output # Nothing) /\ UNCHANGED <<output, backup, faults>>
    /\ UNCHANGED <<WriteFrame, staging, torn, result>>

\* finally: the staging directory goes, and the backup if there is an output.
CleanUp ==
    /\ pc \in {"clean", "unwind"} /\ GoTo("ended")
    /\ result' = IF pc = "clean" THEN "error" ELSE "interrupted"
    /\ staging' = Nothing
    /\ backup' = IF output # Nothing THEN Nothing ELSE backup
    /\ UNCHANGED <<WriteFrame, output, torn, faults>>

Writing ==
    pc \in {"stage", "move", "install", "sync", "drop", "remove", "restore", "clean", "unwind"}

\* What is being written or removed stays as far as it got.
LeftHalfDone ==
    \/ UNCHANGED <<outputs, torn>>
    \/ pc = "stage" /\ staging' = Torn /\ UNCHANGED <<output, backup, torn>>
    \/ pc = "drop" /\ backup # Nothing /\ backup' = Torn /\ UNCHANGED <<output, staging, torn>>
    \/ /\ pc = "remove" /\ output = NewAnalysis /\ output' = Torn /\ torn' = TRUE
       /\ UNCHANGED <<backup, staging>>

\* Ctrl-C in the try or its handler: "except Exception" does not catch it, and
\* "finally" sees it.
Interrupt ==
    /\ Writing /\ pc \notin {"clean", "unwind"} /\ (pc = "stage" => backup = Nothing)
    /\ GoTo("unwind") /\ LeftHalfDone
    /\ UNCHANGED <<WriteFrame, result, faults>>

\* SIGKILL.
Kill ==
    /\ Writing /\ GoTo("ended") /\ result' = "killed" /\ LeftHalfDone
    /\ UNCHANGED <<WriteFrame, faults>>

Verify == ValidatePaths \/ ParseSidecar \/ HashArchive \/ OpenArchive \/ ReadMember \/ CheckManifest
WriteOutput ==
    Stage \/ Move \/ Install \/ SyncParent \/ DropBackup \/ RemoveNew \/ Restore \/ CleanUp

Next == ReplaceInput \/ Verify \/ Classify \/ ClassifyFails \/ HashSidecar \/ WriteOutput
          \/ Interrupt \/ Kill

Spec == Init /\ [][Next]_vars

-----------------------------------------------------------------------------
(* Properties. *)

\* The range of every variable, and what the program counter says of them.
TypeOK ==
    /\ archive \in Archives /\ apart \in BOOLEAN /\ quiet \in BOOLEAN /\ torn \in BOOLEAN
    /\ pc \in {"member", "ended"} \/ Reading \/ Writing
    /\ verified \in {"pending", "yes", "no"} /\ result \in {"none", "ok", "error", "interrupted", "killed"}
    /\ pc = "ended" <=> result # "none"
    /\ next \in 1..(Len(report) + 1) /\ total <= MaxTotalSize /\ changes \in 0..MaxChanges
    /\ {output, backup, staging} \subseteq {Nothing, Torn, OldAnalysis, NewAnalysis}
    /\ Writing => verified = "yes" /\ DOMAIN analysis = {"archive", "sidecar", "verdict", "properties"}
    /\ result = "ok" => output = NewAnalysis /\ backup = Nothing /\ staging = Nothing

\* The bytes in the files among the first members.
Bytes(a) ==
    LET sum[n \in 0..Len(a)] ==
            IF n = 0 THEN 0 ELSE sum[n - 1] + (IF a[n].kind = "dir" THEN 0 ELSE a[n].size)
    IN  sum

\* What an archive must be, whatever the order of the checks: plain files with
\* names of their own under one root, within the limits, and a manifest that
\* gives for every other file its digest, and names nothing else.
WellFormed(a) ==
    LET regular == {i \in DOMAIN a : a[i].kind # "dir"}
        listed == {i \in regular : a[i].path # "manifest"}
    IN  /\ Len(a) <= MaxMembers
        /\ \A i \in DOMAIN a : a[i].safe /\ a[i].kind \in {"dir", "file"}
        /\ \A i, j \in DOMAIN a : a[i].root = a[j].root /\ (a[i].path = a[j].path => i = j)
        /\ \A i \in regular : a[i].path # "" /\ a[i].size <= MaxFileSize
        /\ Bytes(a)[Len(a)] <= MaxTotalSize
        /\ \E m \in regular \ listed :
              /\ a[m].data \in DOMAIN Manifest
              /\ LET rows == Manifest[a[m].data]
                 IN  /\ Len(rows) = Cardinality(listed) /\ rows # <<>>
                     /\ Range(rows) = {<<a[i].path, a[i].data>> : i \in listed}

\* One line, naming the archive with its digest.
Names(s, a) == Len(s) = 1 /\ s[1].named /\ s[1].digest = a

\* Verification (preflight_archive.py 111-209), member by member, accepts the
\* well-formed archives and no others; the evidence is of one of them even if
\* the files are replaced, and if they are not, the analysis names the archive
\* it was made from and the sidecar that vouched for it.
AcceptedIffWellFormed ==
    /\ verified = "yes" => WellFormed(report)
    /\ quiet /\ verified = "no" => ~(WellFormed(archive) /\ Names(sidecar, archive))
    /\ quiet /\ Writing => /\ report = archive /\ Names(sidecar, archive)
                          /\ analysis.archive = archive /\ analysis.sidecar = sidecar

\* The rows that the members of the archive under a path have, all together.
Said(path) ==
    UNION {Range(Table[report[i].data]) :
              i \in {n \in DOMAIN report : report[n].kind # "dir" /\ report[n].path = path}}
Says(path, key, value) == \E row \in Said(path) : row[1] = key /\ row[2] = value

\* A READY verdict (preflight_evidence.py 121) is given only to an archive whose
\* own members, whatever their order and whatever replaced it meanwhile, say that
\* root collected the report read-only on a device of the supported product, SDK
\* and ROM, identified, enforcing SELinux and with a known boot; that every
\* property and query the analysis requires is there; that no module's layer is
\* over a protected root, whatever the inventory says of the module or does not
\* say; and that never say two things of one key.
ReadyIsFit ==
    (Writing /\ analysis.verdict = "READY_FOR_CONTROLLED_VALIDATION") =>
        /\ Says("summary", "collector_mode", "read-only-preflight") /\ Says("summary", "uid", "0")
        /\ Says("summary", "report_format", "1") /\ Says("summary", "not_flash_ready", "true")
        /\ Says("summary", "identity_status", "PASS")
        /\ Says("summary", "selinux_status", "ENFORCING")
        /\ \A key \in {"boot_id", "ksud_path"} :
              \E row \in Said("summary") : row[1] = key /\ row[2] # ""
        /\ Says("properties", "device", "PJZ110") /\ Says("properties", "sdk", "36")
        /\ \E rom \in SupportedRoms : Says("properties", "oplusrom", rom)
        /\ \A key \in RequiredProperties :
              \E row \in Said("properties") : row[1] = key /\ row[2] # ""
        /\ \A command \in RequiredCommands : Says("status", command, "0")
        /\ \A mount \in Said("mounts") : mount.root \in ProtectedRoots => mount.modules = {}
        /\ \A path \in {"summary", "properties", "status"} : \A r, s \in Said(path) :
              r[1] = s[1] => r[2] = s[2]

\* An analysis that fails, as long as no removal of a directory failed, leaves
\* what was there before it, in its place (docs/PRIVATE_PREFLIGHT_ANALYSIS.md:30),
\* also a backup it refuses to touch; if a second call failed, putting the
\* earlier analysis back, that one is whole in the backup.
FailureKeepsOutput ==
    (result = "error" /\ ~torn) =>
        \/ output = before.output /\ backup = before.backup
        \/ faults > 1 /\ output = Nothing /\ backup = before.output

\* An output that was there exists whole, in place or as the backup, until the
\* new one is in place.
OldOutputSurvives ==
    [][(OldAnalysis \in {output, backup} /\ ~torn') =>
          OldAnalysis \in {output', backup'} \/ output' = NewAnalysis]_vars
=============================================================================
