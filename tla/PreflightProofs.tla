--------------------------- MODULE PreflightProofs ---------------------------
(***************************************************************************)
(* Proofs about Preflight, for any archives, sidecars, documents and       *)
(* limits and any number of failing calls and of replaced inputs: what a   *)
(* READY verdict means, which archives are accepted, and what becomes of   *)
(* the analysis that was there.                                            *)
(***************************************************************************)
EXTENDS Preflight, Basics, FunctionTheorems

Classified == pc = "sidecar-hash" \/ Writing

\* What an analysis has got to at each call.
Progress ==
    /\ report \in Archives \cup {<<>>}
    /\ pc \in {"paths", "sidecar", "hash", "open"} => next = 1
    /\ pc \in {"classify", "sidecar-hash"} => verified = "yes"
    /\ Classified =>
          /\ DOMAIN analysis = {"archive", "sidecar", "verdict", "properties"}
          /\ analysis.verdict = Verdict(files)

\* In the try, its handler or the finally clause.
Exchanging ==
    pc \in {"move", "install", "sync", "drop", "remove", "restore", "clean", "unwind"}

\* Where the two analyses are while the output is exchanged, as long as no
\* removal of a directory failed.
Exchange ==
    /\ before \in Earlier
    /\ Reading \/ pc \in {"member", "stage"} =>
          output = before.output /\ backup = before.backup /\ staging = Nothing
    /\ Exchanging => before.backup = Nothing
    /\ pc = "move" => output = before.output /\ backup = Nothing
    /\ pc = "install" => output = Nothing
    /\ pc \in {"move", "install"} => staging = NewAnalysis
    /\ pc \in {"sync", "drop"} => output = NewAnalysis /\ staging = Nothing
    /\ pc \in {"install", "sync", "drop"} => backup = before.output
    /\ pc = "remove" /\ ~torn =>
          \/ output = before.output /\ backup = Nothing
          \/ output \in {Nothing, NewAnalysis} /\ backup = before.output
    /\ pc = "restore" /\ ~torn =>
          \/ output = before.output /\ backup = Nothing
          \/ output = Nothing /\ backup = before.output
    /\ pc = "unwind" /\ ~torn => output # Torn

\* A handler runs because a call failed; what it could not do is a second failure.
Failures ==
    /\ faults \in Nat
    /\ pc \in {"remove", "restore"} => faults > 0
    /\ pc = "clean" /\ ~torn =>
          \/ output = before.output /\ backup = Nothing
          \/ faults > 1 /\ output = Nothing /\ backup = before.output
    /\ FailureKeepsOutput

IInv == TypeOK /\ Progress /\ Exchange /\ Failures

-----------------------------------------------------------------------------
\* The four names of a directory's content are four.
LEMMA Distinct ==
    /\ Nothing # Torn /\ Nothing # OldAnalysis /\ Nothing # NewAnalysis
    /\ Torn # OldAnalysis /\ Torn # NewAnalysis /\ OldAnalysis # NewAnalysis
  BY FourDistinct, PreflightAssumption

\* What an earlier analysis may have left, case by case.
LEMMA EarlierCases ==
    \A b \in Earlier :
        /\ b.output \in {Nothing, OldAnalysis} /\ b.backup \in {Nothing, OldAnalysis, Torn}
        /\ b.backup = OldAnalysis => b.output = Nothing
  BY Distinct DEF Earlier

\* What was opened is a sequence.
LEMMA ReportLength == IInv => Len(report) \in Nat
  <1>1. Len(<<>>) = 0
    OBVIOUS
  <1> QED
    BY <1>1 DEF IInv

\* The start of an analysis.
LEMMA Initially == Init => IInv
  <1> SUFFICES ASSUME Init PROVE IInv
    OBVIOUS
  <1>1. report = <<>> /\ next = 1 /\ Len(report) = 0
    BY DEF Init
  <1>2. TypeOK
    <2>1. archive \in Archives /\ apart \in BOOLEAN /\ quiet \in BOOLEAN /\ torn \in BOOLEAN
      BY <1>1 DEF Init
    <2>2. pc \in {"member", "ended"} \/ Reading \/ Writing
      BY <1>1 DEF Init, Reading
    <2>3. verified \in {"pending", "yes", "no"} /\ result \in {"none", "ok", "error", "interrupted", "killed"}
      BY <1>1 DEF Init
    <2>4. pc = "ended" <=> result # "none"
      BY <1>1 DEF Init
    <2>5. next \in 1..(Len(report) + 1) 
      BY <1>1 DEF Init
    <2>6. total <= MaxTotalSize
      BY <1>1, PreflightAssumption DEF Init
    <2>7. changes \in 0..MaxChanges
      BY <1>1, PreflightAssumption DEF Init
    <2>8. {output, backup, staging} \subseteq {Nothing, Torn, OldAnalysis, NewAnalysis}
      BY <1>1, EarlierCases DEF Init
    <2>9. Writing =>
            verified = "yes" /\ DOMAIN analysis = {"archive", "sidecar", "verdict", "properties"}
      BY <1>1 DEF Init, Writing
    <2>10. result = "ok" => output = NewAnalysis /\ backup = Nothing /\ staging = Nothing
      BY <1>1 DEF Init
    <2> QED
      BY <2>1, <2>2, <2>3, <2>4, <2>5, <2>6, <2>7, <2>8, <2>9, <2>10 DEF TypeOK
  <1>3. Progress
    BY DEF Init, Progress, Classified, Writing
  <1>4. Exchange
    BY Distinct DEF Init, Exchange, Exchanging
  <1>5. Failures
    BY DEF Init, Failures, FailureKeepsOutput
  <1> QED
    BY <1>2, <1>3, <1>4, <1>5 DEF IInv

\* The verification, with the two files replaced meanwhile.
LEMMA VerifySteps ==
    ASSUME IInv,
           ReplaceInput \/ ValidatePaths \/ ParseSidecar \/ HashArchive \/ OpenArchive \/
             ReadMember \/ CheckManifest
    PROVE  IInv'
  <1>1. CASE ReplaceInput
    <2>1. TypeOK'
      <3>1. archive' \in Archives /\ apart' \in BOOLEAN /\ quiet' \in BOOLEAN /\ torn' \in BOOLEAN
        BY <1>1, PreflightAssumption DEF IInv, TypeOK, ReplaceInput
      <3>2. pc' \in {"member", "ended"} \/ Reading' \/ Writing'
        BY <1>1 DEF IInv, Reading, ReplaceInput
      <3>3. verified' \in {"pending", "yes", "no"} /\ result' \in {"none", "ok", "error", "interrupted", "killed"}
        BY <1>1 DEF IInv, TypeOK, ReplaceInput, verification
      <3>4. pc' = "ended" <=> result' # "none"
        BY <1>1 DEF IInv, TypeOK, ReplaceInput
      <3>5. next' \in 1..(Len(report') + 1)
        BY <1>1 DEF IInv, TypeOK, ReplaceInput, verification
      <3>6. total' <= MaxTotalSize
        BY <1>1 DEF IInv, TypeOK, ReplaceInput, verification
      <3>7. changes' \in 0..MaxChanges
        BY <1>1, PreflightAssumption DEF IInv, TypeOK, ReplaceInput
      <3>8. {output', backup', staging'} \subseteq {Nothing, Torn, OldAnalysis, NewAnalysis}
        BY <1>1 DEF IInv, TypeOK, ReplaceInput, outputs
      <3>9. Writing' =>
              verified' = "yes" /\ DOMAIN analysis' = {"archive", "sidecar", "verdict", "properties"}
        BY <1>1 DEF IInv, Reading, Writing, ReplaceInput
      <3>10. result' = "ok" => output' = NewAnalysis /\ backup' = Nothing /\ staging' = Nothing
        BY <1>1 DEF IInv, TypeOK, Reading, ReplaceInput
      <3> QED
        BY <3>1, <3>2, <3>3, <3>4, <3>5, <3>6, <3>7, <3>8, <3>9, <3>10 DEF TypeOK
    <2>2. Progress'
      BY <1>1 DEF IInv, Progress, Classified, Writing, ReplaceInput, verification, outputs
    <2>3. Exchange'
      BY <1>1 DEF IInv, Exchange, Reading, Exchanging, ReplaceInput, outputs
    <2>4. Failures'
      BY <1>1 DEF IInv, Failures, FailureKeepsOutput, Reading, TypeOK, ReplaceInput
    <2> QED
      BY <2>1, <2>2, <2>3, <2>4 DEF IInv
  <1>2. CASE ValidatePaths
    <2>1. TypeOK'
      BY <1>2
      DEF IInv, TypeOK, Reading, Writing, ValidatePaths, inputs, verification, outputs, GoTo,
          Refuse
    <2>2. Progress'
      BY <1>2
      DEF IInv, TypeOK, Progress, Classified, Writing, ValidatePaths, verification, outputs,
          GoTo, Refuse
    <2>3. Exchange'
      BY <1>2 DEF IInv, Exchange, Reading, Exchanging, ValidatePaths, outputs, GoTo, Refuse
    <2>4. Failures'
      BY <1>2
      DEF IInv, Failures, FailureKeepsOutput, Exchange, Reading, ValidatePaths, outputs, GoTo,
          Refuse
    <2> QED
      BY <2>1, <2>2, <2>3, <2>4 DEF IInv
  <1>3. CASE ParseSidecar
    <2>1. TypeOK'
      BY <1>3
      DEF IInv, TypeOK, Reading, Writing, ParseSidecar, inputs, outputs, GoTo, Refuse,
          Unverified
    <2>2. Progress'
      BY <1>3
      DEF IInv, TypeOK, Progress, Classified, Writing, ParseSidecar, outputs, GoTo, Refuse,
          Unverified
    <2>3. Exchange'
      BY <1>3 DEF IInv, Exchange, Reading, Exchanging, ParseSidecar, outputs, GoTo, Refuse, Unverified
    <2>4. Failures'
      BY <1>3
      DEF IInv, Failures, FailureKeepsOutput, Exchange, Reading, ParseSidecar, outputs, GoTo,
          Refuse, Unverified
    <2> QED
      BY <2>1, <2>2, <2>3, <2>4 DEF IInv
  <1>4. CASE HashArchive
    <2>1. TypeOK'
      BY <1>4
      DEF IInv, TypeOK, Reading, Writing, HashArchive, inputs, outputs, GoTo, Refuse, Unverified
    <2>2. Progress'
      BY <1>4
      DEF IInv, TypeOK, Progress, Classified, Writing, HashArchive, outputs, GoTo, Refuse,
          Unverified
    <2>3. Exchange'
      BY <1>4 DEF IInv, Exchange, Reading, Exchanging, HashArchive, outputs, GoTo, Refuse, Unverified
    <2>4. Failures'
      BY <1>4
      DEF IInv, Failures, FailureKeepsOutput, Exchange, Reading, HashArchive, outputs, GoTo,
          Refuse, Unverified
    <2> QED
      BY <2>1, <2>2, <2>3, <2>4 DEF IInv
  <1>5. CASE OpenArchive
    <2>1. TypeOK'
      BY <1>5
      DEF IInv, TypeOK, Progress, Writing, OpenArchive, inputs, outputs, GoTo, Refuse,
          Unverified
    <2>2. Progress'
      BY <1>5
      DEF IInv, TypeOK, Progress, Classified, Writing, OpenArchive, outputs, GoTo, Refuse,
          Unverified
    <2>3. Exchange'
      BY <1>5 DEF IInv, Exchange, Reading, Exchanging, OpenArchive, outputs, GoTo, Refuse, Unverified
    <2>4. Failures'
      BY <1>5
      DEF IInv, Failures, FailureKeepsOutput, Exchange, Reading, OpenArchive, outputs, GoTo,
          Refuse, Unverified
    <2> QED
      BY <2>1, <2>2, <2>3, <2>4 DEF IInv
  <1>6. CASE ReadMember
    <2>1. TypeOK'
      <3>1. archive' \in Archives /\ apart' \in BOOLEAN /\ quiet' \in BOOLEAN /\ torn' \in BOOLEAN
        BY <1>6 DEF IInv, TypeOK, ReadMember, inputs
      <3>2. pc' \in {"member", "ended"} \/ Reading' \/ Writing'
        BY <1>6 DEF IInv, ReadMember, GoTo, Refuse, Unverified
      <3>3. verified' \in {"pending", "yes", "no"} /\ result' \in {"none", "ok", "error", "interrupted", "killed"}
        BY <1>6 DEF IInv, TypeOK, ReadMember, Refuse, Unverified
      <3>4. pc' = "ended" <=> result' # "none"
        BY <1>6 DEF IInv, TypeOK, ReadMember, GoTo, Refuse, Unverified
      <3>5. next' \in 1..(Len(report') + 1)
        BY <1>6 DEF IInv, TypeOK, ReadMember
      <3>6. total' <= MaxTotalSize
        BY <1>6 DEF IInv, TypeOK, ReadMember, Admits
      <3>7. changes' \in 0..MaxChanges
        BY <1>6 DEF IInv, TypeOK, ReadMember, inputs
      <3>8. {output', backup', staging'} \subseteq {Nothing, Torn, OldAnalysis, NewAnalysis}
        BY <1>6 DEF IInv, TypeOK, ReadMember, outputs
      <3>9. Writing' =>
              verified' = "yes" /\ DOMAIN analysis' = {"archive", "sidecar", "verdict", "properties"}
        BY <1>6 DEF IInv, Writing, ReadMember, GoTo, Refuse, Unverified
      <3>10. result' = "ok" => output' = NewAnalysis /\ backup' = Nothing /\ staging' = Nothing
        BY <1>6 DEF IInv, TypeOK, ReadMember, Refuse, Unverified
      <3> QED
        BY <3>1, <3>2, <3>3, <3>4, <3>5, <3>6, <3>7, <3>8, <3>9, <3>10 DEF TypeOK
    <2>2. Progress'
      BY <1>6
      DEF IInv, Progress, Classified, Writing, ReadMember, outputs, GoTo, Refuse, Unverified
    <2>3. Exchange'
      BY <1>6 DEF IInv, Exchange, Reading, Exchanging, ReadMember, outputs, GoTo, Refuse, Unverified
    <2>4. Failures'
      BY <1>6
      DEF IInv, Failures, FailureKeepsOutput, Exchange, ReadMember, outputs, GoTo, Refuse,
          Unverified
    <2> QED
      BY <2>1, <2>2, <2>3, <2>4 DEF IInv
  <1>7. CASE CheckManifest
    <2>1. TypeOK'
      BY <1>7
      DEF IInv, TypeOK, Reading, Writing, CheckManifest, inputs, outputs, GoTo, Refuse,
          Unverified
    <2>2. Progress'
      BY <1>7
      DEF IInv, Progress, Classified, Writing, CheckManifest, outputs, GoTo, Refuse, Unverified
    <2>3. Exchange'
      BY <1>7 DEF IInv, Exchange, Reading, Exchanging, CheckManifest, outputs, GoTo, Refuse, Unverified
    <2>4. Failures'
      BY <1>7
      DEF IInv, Failures, FailureKeepsOutput, Exchange, CheckManifest, outputs, GoTo, Refuse,
          Unverified
    <2> QED
      BY <2>1, <2>2, <2>3, <2>4 DEF IInv
  <1> QED
    BY <1>1, <1>2, <1>3, <1>4, <1>5, <1>6, <1>7

\* The classification.
LEMMA ClassifySteps ==
    ASSUME IInv,
           Classify \/ ClassifyFails \/ HashSidecar
    PROVE  IInv'
  <1>1. CASE Classify
    <2>1. TypeOK'
      BY <1>1 DEF IInv, TypeOK, Progress, Reading, Classify, inputs, verification, outputs, GoTo
    <2>2. Progress'
      BY <1>1 DEF IInv, Progress, Reading, Classify, verification, outputs, GoTo
    <2>3. Exchange'
      BY <1>1 DEF IInv, Exchange, Reading, Exchanging, Classify, outputs, GoTo
    <2>4. Failures'
      BY <1>1 DEF IInv, Failures, FailureKeepsOutput, TypeOK, Classify, GoTo
    <2> QED
      BY <2>1, <2>2, <2>3, <2>4 DEF IInv
  <1>2. CASE ClassifyFails
    <2>1. TypeOK'
      BY <1>2
      DEF IInv, TypeOK, Writing, ClassifyFails, inputs, verification, outputs, GoTo, Refuse
    <2>2. Progress'
      BY <1>2
      DEF IInv, Progress, Classified, Reading, Writing, ClassifyFails, verification, GoTo,
          Refuse
    <2>3. Exchange'
      BY <1>2 DEF IInv, Exchange, Reading, Exchanging, ClassifyFails, outputs, GoTo, Refuse
    <2>4. Failures'
      BY <1>2
      DEF IInv, Failures, FailureKeepsOutput, Exchange, Reading, ClassifyFails, outputs, GoTo,
          Refuse
    <2> QED
      BY <2>1, <2>2, <2>3, <2>4 DEF IInv
  <1>3. CASE HashSidecar
    <2>1. TypeOK'
      <3>1. archive' \in Archives /\ apart' \in BOOLEAN /\ quiet' \in BOOLEAN /\ torn' \in BOOLEAN
        BY <1>3 DEF IInv, TypeOK, HashSidecar, inputs
      <3>2. pc' \in {"member", "ended"} \/ Reading' \/ Writing'
        BY <1>3 DEF IInv, Writing, HashSidecar, GoTo
      <3>3. verified' \in {"pending", "yes", "no"} /\ result' \in {"none", "ok", "error", "interrupted", "killed"}
        BY <1>3 DEF IInv, TypeOK, HashSidecar, verification
      <3>4. pc' = "ended" <=> result' # "none"
        BY <1>3 DEF IInv, TypeOK, HashSidecar, GoTo
      <3>5. next' \in 1..(Len(report') + 1)
        BY <1>3 DEF IInv, TypeOK, HashSidecar, verification
      <3>6. total' <= MaxTotalSize
        BY <1>3 DEF IInv, TypeOK, HashSidecar, verification
      <3>7. changes' \in 0..MaxChanges
        BY <1>3 DEF IInv, TypeOK, HashSidecar, inputs
      <3>8. {output', backup', staging'} \subseteq {Nothing, Torn, OldAnalysis, NewAnalysis}
        BY <1>3 DEF IInv, TypeOK, HashSidecar, outputs
      <3>9. Writing' =>
              verified' = "yes" /\ DOMAIN analysis' = {"archive", "sidecar", "verdict", "properties"}
        BY <1>3 DEF IInv, Progress, Classified, HashSidecar, verification
      <3>10. result' = "ok" => output' = NewAnalysis /\ backup' = Nothing /\ staging' = Nothing
        BY <1>3 DEF IInv, TypeOK, HashSidecar
      <3> QED
        BY <3>1, <3>2, <3>3, <3>4, <3>5, <3>6, <3>7, <3>8, <3>9, <3>10 DEF TypeOK
    <2>2. Progress'
      BY <1>3 DEF IInv, Progress, Classified, Reading, HashSidecar, verification, outputs, GoTo
    <2>3. Exchange'
      BY <1>3 DEF IInv, Exchange, Reading, Exchanging, HashSidecar, outputs, GoTo
    <2>4. Failures'
      BY <1>3 DEF IInv, Failures, FailureKeepsOutput, TypeOK, HashSidecar, GoTo
    <2> QED
      BY <2>1, <2>2, <2>3, <2>4 DEF IInv
  <1> QED
    BY <1>1, <1>2, <1>3

\* The exchange of the output.
LEMMA WriteSteps ==
    ASSUME IInv,
           Stage \/ Move \/ Install \/ SyncParent \/ DropBackup \/ RemoveNew \/ Restore \/ CleanUp
             \/ Interrupt \/ Kill
    PROVE  IInv'
  <1>1. CASE Stage
    <2>1. CASE backup # Nothing
      <3>1. /\ pc' = "ended" /\ result' = "error" /\ pc = "stage"
            /\ UNCHANGED <<inputs, quiet, verification, analysis, before, outputs, torn, faults>>
        BY <1>1, <2>1 DEF Stage, Refuse, GoTo, WriteFrame, outputs
      <3>2. TypeOK'
        BY <3>1 DEF IInv, TypeOK, Reading, Writing, inputs, verification, outputs
      <3>3. Progress'
        BY <3>1 DEF IInv, Progress, Classified, Reading, Writing, verification
      <3>4. Exchange'
        BY <3>1 DEF IInv, Exchange, Reading, Exchanging, outputs
      <3>5. Failures'
        BY <3>1 DEF IInv, Failures, FailureKeepsOutput, Exchange, outputs
      <3> QED
        BY <3>2, <3>3, <3>4, <3>5 DEF IInv
    <2>2. CASE backup = Nothing
      <3>1. /\ pc' \in {"move", "remove"} /\ pc = "stage"
            /\ staging' \in {NewAnalysis, Torn} /\ (pc' = "move" => staging' = NewAnalysis)
            /\ \/ UNCHANGED faults /\ pc' = "move"
               \/ faults' = faults + 1
            /\ UNCHANGED <<inputs, quiet, verification, analysis, before, output, backup, torn, result>>
        BY <1>1, <2>2 DEF Stage, Refuse, GoTo, WriteFrame, Fails
      <3>2. TypeOK'
        BY <3>1 DEF IInv, TypeOK, Reading, Writing, inputs, verification
      <3>3. Progress'
        BY <3>1 DEF IInv, TypeOK, Progress, Classified, Reading, Writing, verification
      <3>4. Exchange'
        BY <2>2, <3>1 DEF IInv, Exchange, Reading, Exchanging
      <3>5. Failures'
        BY <3>1 DEF IInv, TypeOK, Failures, FailureKeepsOutput, Exchange
      <3> QED
        BY <3>2, <3>3, <3>4, <3>5 DEF IInv
    <2> QED
      BY <2>1, <2>2
  <1>2. CASE Move
    <2>1. TypeOK'
      BY <1>2 DEF IInv, TypeOK, Writing, Move, inputs, verification, GoTo, WriteFrame
    <2>2. Progress'
      BY <1>2
      DEF IInv, TypeOK, Progress, Classified, Reading, Move, verification, GoTo, WriteFrame
    <2>3. Exchange'
      BY <1>2, Distinct DEF IInv, Exchange, Reading, Exchanging, Move, GoTo, WriteFrame
    <2>4. Failures'
      BY <1>2 DEF IInv, Failures, FailureKeepsOutput, TypeOK, Move, GoTo, Fails, WriteFrame
    <2> QED
      BY <2>1, <2>2, <2>3, <2>4 DEF IInv
  <1>3. CASE Install
    <2>1. TypeOK'
      BY <1>3 DEF IInv, TypeOK, Writing, Install, inputs, verification, GoTo, WriteFrame
    <2>2. Progress'
      BY <1>3
      DEF IInv, TypeOK, Progress, Classified, Reading, Install, verification, GoTo, WriteFrame
    <2>3. Exchange'
      BY <1>3, Distinct DEF IInv, Exchange, Reading, Exchanging, Install, GoTo, WriteFrame
    <2>4. Failures'
      BY <1>3 DEF IInv, Failures, FailureKeepsOutput, TypeOK, Install, GoTo, Fails, WriteFrame
    <2> QED
      BY <2>1, <2>2, <2>3, <2>4 DEF IInv
  <1>4. CASE SyncParent
    <2>1. TypeOK'
      BY <1>4
      DEF IInv, TypeOK, Writing, SyncParent, inputs, verification, outputs, GoTo, WriteFrame
    <2>2. Progress'
      BY <1>4
      DEF IInv, TypeOK, Progress, Classified, Reading, SyncParent, verification, GoTo,
          WriteFrame
    <2>3. Exchange'
      BY <1>4, Distinct DEF IInv, Exchange, Reading, Exchanging, SyncParent, outputs, GoTo,
                            WriteFrame
    <2>4. Failures'
      BY <1>4 DEF IInv, Failures, FailureKeepsOutput, TypeOK, SyncParent, GoTo, Fails,
                  WriteFrame
    <2> QED
      BY <2>1, <2>2, <2>3, <2>4 DEF IInv
  <1>5. CASE DropBackup
    <2>1. TypeOK'
      BY <1>5
      DEF IInv, TypeOK, Exchange, Writing, DropBackup, inputs, verification, GoTo, WriteFrame
    <2>2. Progress'
      BY <1>5
      DEF IInv, TypeOK, Progress, Classified, Reading, DropBackup, verification, GoTo,
          WriteFrame
    <2>3. Exchange'
      BY <1>5, Distinct DEF IInv, Exchange, Reading, Exchanging, DropBackup, GoTo, WriteFrame
    <2>4. Failures'
      BY <1>5 DEF IInv, Failures, FailureKeepsOutput, DropBackup, GoTo, Fails, WriteFrame
    <2> QED
      BY <2>1, <2>2, <2>3, <2>4 DEF IInv
  <1>6. CASE RemoveNew
    <2>1. TypeOK'
      BY <1>6 DEF IInv, TypeOK, Writing, RemoveNew, inputs, verification, GoTo, WriteFrame
    <2>2. Progress'
      BY <1>6
      DEF IInv, TypeOK, Progress, Classified, Reading, RemoveNew, verification, GoTo, WriteFrame
    <2>3. Exchange'
      BY <1>6, Distinct, EarlierCases DEF IInv, Exchange, Reading, Exchanging, TypeOK, RemoveNew, GoTo,
                            WriteFrame
    <2>4. Failures'
      BY <1>6 DEF IInv, TypeOK, Failures, FailureKeepsOutput, RemoveNew, GoTo, Fails, WriteFrame
    <2> QED
      BY <2>1, <2>2, <2>3, <2>4 DEF IInv
  <1>7. CASE Restore
    <2>1. TypeOK'
      BY <1>7 DEF IInv, TypeOK, Writing, Restore, inputs, verification, GoTo, WriteFrame
    <2>2. Progress'
      BY <1>7
      DEF IInv, TypeOK, Progress, Classified, Reading, Restore, verification, GoTo, WriteFrame
    <2>3. Exchange'
      BY <1>7, Distinct DEF IInv, Exchange, Reading, Exchanging, TypeOK, Restore, GoTo,
                            WriteFrame
    <2>4. Failures'
      BY <1>7 DEF IInv, Failures, FailureKeepsOutput, TypeOK, Exchange, Exchanging, Restore, GoTo,
                  Fails, WriteFrame
    <2> QED
      BY <2>1, <2>2, <2>3, <2>4 DEF IInv
  <1>8. CASE CleanUp
    <2>1. TypeOK'
      BY <1>8 DEF IInv, TypeOK, Reading, CleanUp, inputs, verification, GoTo, WriteFrame
    <2>2. Progress'
      BY <1>8
      DEF IInv, TypeOK, Progress, Classified, Reading, CleanUp, verification, GoTo, WriteFrame
    <2>3. Exchange'
      BY <1>8, Distinct DEF IInv, Exchange, Reading, Exchanging, CleanUp, GoTo, WriteFrame
    <2>4. Failures'
      BY <1>8 DEF IInv, Failures, FailureKeepsOutput, Exchange, Exchanging, CleanUp, GoTo, WriteFrame
    <2> QED
      BY <2>1, <2>2, <2>3, <2>4 DEF IInv
  <1>9. CASE Kill
    <2>1. TypeOK'
      BY <1>9 DEF IInv, TypeOK, Kill, inputs, verification, outputs, GoTo, WriteFrame,
                  LeftHalfDone
    <2>2. Progress'
      BY <1>9 DEF IInv, Progress, Classified, Reading, Kill, verification, GoTo, WriteFrame,
                  LeftHalfDone
    <2>3. Exchange'
      BY <1>9, Distinct DEF IInv, Exchange, Reading, Exchanging, Kill, outputs, GoTo,
                            LeftHalfDone, WriteFrame
    <2>4. Failures'
      BY <1>9 DEF IInv, Failures, FailureKeepsOutput, Kill, GoTo, LeftHalfDone, WriteFrame
    <2> QED
      BY <2>1, <2>2, <2>3, <2>4 DEF IInv
  <1>10. CASE Interrupt
    <2>1. TypeOK'
      BY <1>10 DEF IInv, TypeOK, Writing, Reading, Interrupt, inputs, verification, outputs, GoTo, WriteFrame,
                   LeftHalfDone
    <2>2. Progress'
      BY <1>10 DEF IInv, Progress, Classified, Reading, Writing, Interrupt, verification, GoTo, WriteFrame,
                   LeftHalfDone
    <2>3. Exchange'
      BY <1>10, Distinct, EarlierCases DEF IInv, Exchange, Reading, Exchanging, Writing, Interrupt, outputs, GoTo,
                             LeftHalfDone, WriteFrame
    <2>4. Failures'
      BY <1>10 DEF IInv, TypeOK, Failures, FailureKeepsOutput, Writing, Interrupt, GoTo, LeftHalfDone, WriteFrame
    <2> QED
      BY <2>1, <2>2, <2>3, <2>4 DEF IInv
  <1> QED
    BY <1>1, <1>2, <1>3, <1>4, <1>5, <1>6, <1>7, <1>8, <1>9, <1>10

\* Every step keeps the inductive invariant.
LEMMA Step == IInv /\ [Next]_vars => IInv'
  <1> SUFFICES ASSUME IInv, [Next]_vars PROVE IInv'
    OBVIOUS
  <1>1. CASE ReplaceInput \/ Verify
    BY <1>1, VerifySteps DEF Verify
  <1>2. CASE Classify \/ ClassifyFails \/ HashSidecar
    BY <1>2, ClassifySteps
  <1>3. CASE WriteOutput \/ Interrupt \/ Kill
    BY <1>3, WriteSteps DEF WriteOutput
  <1>4. CASE UNCHANGED vars
    BY <1>4
    DEF vars, inputs, verification, outputs, IInv, TypeOK, Progress, Exchange, Failures,
        FailureKeepsOutput, Classified, Reading, Writing, Exchanging
  <1> QED
    BY <1>1, <1>2, <1>3, <1>4 DEF Next

-----------------------------------------------------------------------------
\* The inductive invariant holds in every state.
THEOREM Invariance == Spec => []IInv
  BY Initially, Step, PTL DEF Spec

\* The types, for any archives and documents and any number of failures.
THEOREM TypeCorrect == Spec => []TypeOK
  <1>1. IInv => TypeOK
    BY DEF IInv
  <1> QED
    BY <1>1, Invariance, PTL

\* A failed analysis leaves no new output, and after one failing call the earlier
\* one in its place.
THEOREM FailureRestores == Spec => []FailureKeepsOutput
  <1>1. IInv => FailureKeepsOutput
    BY DEF IInv, Failures
  <1> QED
    BY <1>1, Invariance, PTL

\* The analysis that was there is in place or in the backup until the new one is
\* in place, in every step of the program and of a kill.
THEOREM OldSurvives == Spec => OldOutputSurvives
  <1> DEFINE Survives == (OldAnalysis \in {output, backup} /\ ~torn') =>
                              OldAnalysis \in {output', backup'} \/ output' = NewAnalysis
  <1>1. IInv /\ [Next]_vars => [Survives]_vars
    <2> SUFFICES ASSUME IInv, [Next]_vars PROVE Survives \/ UNCHANGED vars
      OBVIOUS
    <2>1. CASE ReplaceInput \/ Verify \/ Classify \/ ClassifyFails \/ HashSidecar
      BY <2>1
      DEF Verify, ReplaceInput, ValidatePaths, ParseSidecar, HashArchive, OpenArchive,
          ReadMember, CheckManifest, Classify, ClassifyFails, HashSidecar, outputs
    <2>2. CASE Stage \/ Move \/ Install \/ SyncParent
      BY <2>2 DEF IInv, Exchange, Stage, Move, Install, SyncParent, outputs, WriteFrame
    <2>3. CASE DropBackup \/ RemoveNew \/ Restore
      BY <2>3, Distinct DEF IInv, Exchange, DropBackup, RemoveNew, Restore, WriteFrame
    <2>4. CASE CleanUp
      BY <2>4, Distinct DEF IInv, TypeOK, Exchange, Failures, CleanUp, WriteFrame
    <2>5. CASE Interrupt \/ Kill
      BY <2>5 DEF IInv, Exchange, Interrupt, Kill, outputs, LeftHalfDone, WriteFrame
    <2> QED
      BY <2>1, <2>2, <2>3, <2>4, <2>5 DEF Next, WriteOutput
  <1> QED
    BY <1>1, Invariance, PTL DEF Spec, OldOutputSurvives
-----------------------------------------------------------------------------
(* Which archives are accepted. *)

\* The members read that are files.
Regular == {i \in 1..(next - 1) : report[i].kind # "dir"}

\* What the loop over the members has found out of those it has passed.
Scanned ==
    /\ report \in Archives /\ Len(report) <= MaxMembers
    /\ seen = {Name(report[i]) : i \in 1..(next - 1)}
    /\ \A i \in 1..(next - 1) : report[i].safe /\ report[i].kind \in {"dir", "file"}
    /\ \A i, j \in 1..(next - 1) : Name(report[i]) = Name(report[j]) => i = j
    /\ \A i \in Regular : report[i].path # "" /\ report[i].size <= MaxFileSize
    /\ \A i, j \in Regular : report[i].path = report[j].path => i = j
    /\ DOMAIN files = {report[i].path : i \in Regular}
    /\ \A i \in Regular : files[report[i].path] = report[i].data
    /\ total = Bytes(report)[next - 1]

\* The condition of CheckManifest.
ManifestFits ==
    /\ Cardinality({name[1] : name \in seen}) = 1
    /\ "manifest" \in DOMAIN files /\ ManifestParses(files["manifest"])
    /\ LET rows == Manifest[files["manifest"]]
       IN  /\ KeysOf(rows) = DOMAIN files \ {"manifest"}
           /\ \A p \in KeysOf(rows) : files[p] = Get(rows, p, Nothing)

\* After the classification and before it, once the archive is verified.
Past == pc = "classify" \/ Classified

\* Nothing has been read before the first member, and nothing decided before the last.
Unread ==
    pc \in {"paths", "sidecar", "hash", "open"} => seen = {} /\ files = <<>> /\ total = 0
Undecided == pc \in {"paths", "sidecar", "hash", "open", "member"} => verified = "pending"

\* What has been compared with the two files, as long as they stay the same.
Vouched ==
    /\ pc \in {"hash", "open", "member"} \/ Past => Names(sidecar, expected)
    /\ pc \in {"open", "member"} \/ Past => expected = archive
    /\ pc = "member" \/ Past => report = archive
    /\ Classified => analysis.archive = archive
    /\ Writing => analysis.sidecar = sidecar

\* The inductive invariant of the verification, beside IInv.
RInv ==
    /\ pc = "member" => Scanned
    /\ Unread /\ Undecided
    /\ quiet => Vouched
    /\ AcceptedIffWellFormed

\* The bytes of the files are summed up member by member.
LEMMA BytesSum ==
    ASSUME NEW a \in Archives
    PROVE  /\ Bytes(a) \in [0..Len(a) -> Nat] /\ Bytes(a)[0] = 0
           /\ \A i \in 1..Len(a) :
                 Bytes(a)[i] = Bytes(a)[i - 1] + (IF a[i].kind = "dir" THEN 0 ELSE a[i].size)
  <1> DEFINE size == [i \in 1..Len(a) |-> IF a[i].kind = "dir" THEN 0 ELSE a[i].size]
             Sums(f) == [n \in 0..Len(a) |->
                            IF n = 0 THEN 0
                            ELSE f[n - 1] + (IF a[n].kind = "dir" THEN 0 ELSE a[n].size)]
  <1>1. Len(a) \in Nat /\ size \in [1..Len(a) -> Nat]
    BY ArchiveAssumption
  <1>2. PICK f \in [0..Len(a) -> Nat] :
               \A i \in 0..Len(a) : f[i] = IF i = 0 THEN 0 ELSE f[i - 1] + size[i]
    <2> HIDE DEF size
    <2> QED
      BY <1>1, RunningSum
  <1>3. f = Sums(f)
    <2>1. f = [i \in 0..Len(a) |-> f[i]]
      OBVIOUS
    <2>2. \A i \in 1..Len(a) : size[i] = IF a[i].kind = "dir" THEN 0 ELSE a[i].size
      OBVIOUS
    <2>3. \A i \in 0..Len(a) : f[i] = Sums(f)[i]
      <3> HIDE DEF size
      <3>1. ASSUME NEW i \in 0..Len(a), i # 0 PROVE i \in 1..Len(a)
        BY <1>1, <3>1
      <3> QED
        BY <1>2, <2>2, <3>1
    <2> QED
      BY <2>1, <2>3
  <1>4. Bytes(a) = CHOOSE g : g = Sums(g)
    BY DEF Bytes
  <1>5. Bytes(a) = Sums(Bytes(a))
    <2> HIDE DEF Sums
    <2> QED
      BY <1>3, <1>4
  <1> DEFINE b == Bytes(a)
  <1>6. b = Sums(b)
    BY <1>5
  <1> HIDE DEF b
  <1>7. b[0] = 0 /\ \A i \in 1..Len(a) : b[i] = b[i - 1] + size[i]
    BY <1>1, <1>6
  <1> DEFINE S == {n \in Nat : n <= Len(a) => b[n] \in Nat}
  <1>8. S = Nat
    <2> HIDE DEF size
    <2>1. S \in SUBSET Nat /\ 0 \in S /\ \A n \in S : n + 1 \in S
      BY <1>1, <1>7
    <2> HIDE DEF S
    <2> QED
      BY <2>1, SetInduction
  <1>9. b \in [0..Len(a) -> Nat]
    <2>1. \A n \in 0..Len(a) : b[n] \in Nat
      BY <1>8
    <2>2. b = [n \in 0..Len(a) |-> b[n]]
      BY <1>6
    <2> QED
      BY <2>1, <2>2
  <1> QED
    BY <1>7, <1>9 DEF b

\* ... and never less than before.
LEMMA BytesGrow ==
    ASSUME NEW a \in Archives, NEW n \in 0..Len(a)
    PROVE  Bytes(a)[n] <= Bytes(a)[Len(a)]
  <1> DEFINE b == Bytes(a)
  <1>1. Len(a) \in Nat /\ b \in [0..Len(a) -> Nat]
    BY BytesSum, ArchiveAssumption
  <1>2. \A i \in 1..Len(a) : b[i] >= b[i - 1]
    <2>1. \A i \in 1..Len(a) : (IF a[i].kind = "dir" THEN 0 ELSE a[i].size) \in Nat
      BY ArchiveAssumption
    <2>2. \A i \in 1..Len(a) : b[i] = b[i - 1] + (IF a[i].kind = "dir" THEN 0 ELSE a[i].size)
      BY BytesSum
    <2> HIDE DEF b
    <2>3. \A i \in 1..Len(a) : b[i - 1] \in Nat
      BY <1>1
    <2> QED
      BY <2>1, <2>2, <2>3
  <1> HIDE DEF b
  <1> DEFINE S == {k \in Nat : n + k <= Len(a) => b[n] <= b[n + k]}
  <1>3. S = Nat
    <2>1. 0 \in S
      BY <1>1
    <2>2. ASSUME NEW k \in S PROVE k + 1 \in S
      <3>1. ASSUME n + (k + 1) <= Len(a) PROVE b[n] <= b[n + (k + 1)]
        <4>1. b[n] <= b[n + k]
          BY <1>1, <3>1
        <4>2. b[n + (k + 1)] >= b[n + k]
          <5>1. n + (k + 1) \in 1..Len(a) /\ (n + (k + 1)) - 1 = n + k
            BY <1>1, <3>1
          <5> QED
            BY <1>2, <5>1
        <4> QED
          BY <1>1, <3>1, <4>1, <4>2
      <3> QED
        BY <3>1
    <2>3. S \in SUBSET Nat
      OBVIOUS
    <2> HIDE DEF S
    <2> QED
      BY <2>1, <2>2, <2>3, SetInduction
  <1>4. Len(a) - n \in S /\ n + (Len(a) - n) = Len(a)
    BY <1>1, <1>3
  <1> QED
    BY <1>4 DEF b

\* dict.get finds the row of a key that no other row has.
LEMMA GetRow ==
    ASSUME NEW rows, IsInjective(Keys(rows)), NEW i \in DOMAIN rows, NEW default
    PROVE  Get(rows, rows[i][1], default) = rows[i][2]
  <1>1. \A k \in DOMAIN rows : rows[k][1] = rows[i][1] => k = i
    BY DEF IsInjective, Keys
  <1>2. (CHOOSE k \in DOMAIN rows : rows[k][1] = rows[i][1]) = i
    BY <1>1
  <1> QED
    BY <1>2 DEF Get

\* A manifest that has one row for each of some members, with its digest, is as
\* long as they are many and is the set of their names and digests, and the
\* other way round.
LEMMA RowsMatch ==
    ASSUME NEW a \in Archives, NEW listed \in SUBSET DOMAIN a,
           \A i, j \in listed : a[i].path = a[j].path => i = j,
           NEW content \in DOMAIN Manifest, NEW rows, rows = Manifest[content]
    PROVE  /\ IsInjective(Keys(rows)) /\ KeysOf(rows) = {a[i].path : i \in listed}
           /\ \A i \in listed : a[i].data = Get(rows, a[i].path, Nothing)
           <=>
           /\ Len(rows) = Cardinality(listed)
           /\ Range(rows) = {<<a[i].path, a[i].data>> : i \in listed}
  <1> DEFINE pairs == {<<a[i].path, a[i].data>> : i \in listed}
             pair == [i \in listed |-> <<a[i].path, a[i].data>>]
             n == Len(rows)
  <1>1. /\ n \in Nat /\ DOMAIN rows = 1..n
        /\ \A i \in 1..n : rows[i] = <<rows[i][1], rows[i][2]>>
    BY ManifestAssumption
  <1>2. KeysOf(rows) = {rows[i][1] : i \in 1..n} /\ Range(rows) = {rows[i] : i \in 1..n}
    BY <1>1 DEF KeysOf, Keys, Range
  <1>3. IsFiniteSet(listed)
    <2>1. Len(a) \in Nat /\ DOMAIN a = 1..Len(a)
      BY ArchiveAssumption
    <2>2. IsFiniteSet(1..Len(a))
      BY <2>1, FS_Interval
    <2> QED
      BY <2>1, <2>2, FS_Subset
  <1>4. pair \in Bijection(listed, pairs)
    BY Fun_IsBij
  <1>5. IsFiniteSet(pairs) /\ Cardinality(pairs) = Cardinality(listed)
    <2> HIDE DEF pair, pairs
    <2> QED
      BY <1>3, <1>4, FS_Bijection DEF ExistsBijection
  <1>6. IsFiniteSet(1..n) /\ Cardinality(1..n) = n
    BY <1>1, FS_Interval
  <1>7. ASSUME IsInjective(Keys(rows)), KeysOf(rows) = {a[i].path : i \in listed},
               \A i \in listed : a[i].data = Get(rows, a[i].path, Nothing)
        PROVE  n = Cardinality(listed) /\ Range(rows) = pairs
    <2>1. \A i \in 1..n : rows[i] \in pairs
      <3> SUFFICES ASSUME NEW i \in 1..n PROVE rows[i] \in pairs
        OBVIOUS
      <3>1. PICK j \in listed : rows[i][1] = a[j].path
        <4>1. rows[i][1] \in KeysOf(rows)
          BY <1>2
        <4>2. rows[i][1] \in {a[j].path : j \in listed}
          BY <1>7, <4>1
        <4> QED
          BY <4>2
      <3>2. rows[i][2] = a[j].data
        BY <1>1, <1>7, <3>1, GetRow
      <3>3. rows[i] = <<a[j].path, a[j].data>>
        BY <1>1, <3>1, <3>2
      <3> QED
        BY <3>3
    <2>2. ASSUME NEW j \in listed PROVE \E i \in 1..n : rows[i] = <<a[j].path, a[j].data>>
      <3>1. PICK i \in 1..n : rows[i][1] = a[j].path
        <4>1. a[j].path \in {a[i].path : i \in listed}
          OBVIOUS
        <4>2. a[j].path \in {rows[i][1] : i \in 1..n}
          BY <1>2, <1>7, <4>1
        <4> QED
          BY <4>2
      <3>2. rows[i][2] = a[j].data
        BY <1>1, <1>7, <3>1, GetRow
      <3> QED
        BY <1>1, <3>1, <3>2
    <2>3. Range(rows) = pairs
      BY <1>2, <2>1, <2>2
    <2> DEFINE f == [i \in 1..n |-> rows[i]]
    <2>4. f \in Bijection(1..n, pairs)
      <3>1. f \in [1..n -> pairs]
        BY <2>1
      <3>2. \A i, k \in 1..n : f[i] = f[k] => i = k
        BY <1>1, <1>7 DEF IsInjective, Keys
      <3>3. \A p \in pairs : \E i \in 1..n : f[i] = p
        BY <2>2
      <3> HIDE DEF f, pairs
      <3> QED
        BY <3>1, <3>2, <3>3, Fun_IsBij
    <2>5. Cardinality(pairs) = Cardinality(1..n)
      <3> HIDE DEF f, pairs
      <3> QED
        BY <1>6, <2>4, FS_Bijection DEF ExistsBijection
    <2> QED
      BY <1>5, <1>6, <2>3, <2>5
  <1>8. ASSUME n = Cardinality(listed), Range(rows) = pairs
        PROVE  /\ IsInjective(Keys(rows)) /\ KeysOf(rows) = {a[i].path : i \in listed}
               /\ \A i \in listed : a[i].data = Get(rows, a[i].path, Nothing)
    <2> DEFINE f == [i \in 1..n |-> rows[i]]
    <2>1. f \in Surjection(1..n, pairs)
      <3>1. f \in [1..n -> pairs]
        BY <1>2, <1>8
      <3>2. \A p \in pairs : \E i \in 1..n : f[i] = p
        BY <1>2, <1>8
      <3> HIDE DEF f, pairs
      <3> QED
        BY <3>1, <3>2, Fun_IsSurj
    <2>2. f \in Injection(1..n, pairs)
      <3> HIDE DEF f, pairs
      <3> QED
        BY <1>5, <1>6, <1>8, <2>1, FS_Surjection
    <2>3. \A i, k \in 1..n : rows[i] = rows[k] => i = k
      <3>1. \A i, k \in 1..n : f[i] = f[k] => i = k
        <4> HIDE DEF f, pairs
        <4> QED
          BY <2>2, Fun_InjectionProperties
      <3> QED
        BY <3>1
    <2>4. \A i \in 1..n : \E j \in listed : rows[i] = <<a[j].path, a[j].data>>
      BY <1>2, <1>8
    <2>5. ASSUME NEW j \in listed PROVE \E i \in 1..n : rows[i] = <<a[j].path, a[j].data>>
      <3>1. <<a[j].path, a[j].data>> \in pairs
        OBVIOUS
      <3>2. <<a[j].path, a[j].data>> \in {rows[i] : i \in 1..n}
        BY <1>2, <1>8, <3>1
      <3> QED
        BY <3>2
    <2>6. IsInjective(Keys(rows))
      <3>1. ASSUME NEW i \in 1..n, NEW k \in 1..n, rows[i][1] = rows[k][1] PROVE i = k
        <4>1. PICK j \in listed : rows[i] = <<a[j].path, a[j].data>>
          BY <2>4
        <4>2. PICK l \in listed : rows[k] = <<a[l].path, a[l].data>>
          BY <2>4
        <4>3. j = l
          BY <3>1, <4>1, <4>2
        <4> QED
          BY <2>3, <4>1, <4>2, <4>3
      <3> QED
        BY <1>1, <3>1 DEF IsInjective, Keys
    <2>7. KeysOf(rows) = {a[i].path : i \in listed}
      BY <1>2, <2>4, <2>5
    <2>8. ASSUME NEW j \in listed PROVE a[j].data = Get(rows, a[j].path, Nothing)
      <3>1. PICK i \in 1..n : rows[i] = <<a[j].path, a[j].data>>
        BY <2>5
      <3> QED
        BY <1>1, <2>6, <3>1, GetRow
    <2> QED
      BY <2>6, <2>7, <2>8
  <1> QED
    BY <1>7, <1>8

\* The roots of the members are one if and only if they are the same.
LEMMA OneRoot ==
    ASSUME NEW a \in Archives, NEW names, names = {Name(a[i]) : i \in DOMAIN a}
    PROVE  Cardinality({name[1] : name \in names}) = 1 <=>
               DOMAIN a # {} /\ \A i, j \in DOMAIN a : a[i].root = a[j].root
  <1> DEFINE roots == {name[1] : name \in names}
             root == [i \in DOMAIN a |-> a[i].root]
  <1>1. roots = {a[i].root : i \in DOMAIN a}
    <2>1. \A i \in DOMAIN a : Name(a[i])[1] = a[i].root
      BY DEF Name
    <2>2. roots = {Name(a[i])[1] : i \in DOMAIN a}
      OBVIOUS
    <2> QED
      BY <2>1, <2>2
  <1>2. IsFiniteSet(DOMAIN a)
    <2>1. Len(a) \in Nat /\ DOMAIN a = 1..Len(a)
      BY ArchiveAssumption
    <2>2. IsFiniteSet(1..Len(a))
      BY <2>1, FS_Interval
    <2> QED
      BY <2>1, <2>2
  <1>3. root \in Surjection(DOMAIN a, roots)
    BY <1>1, Fun_IsSurj
  <1>4. IsFiniteSet(roots)
    <2> HIDE DEF root, roots
    <2> QED
      BY <1>2, <1>3, FS_Surjection
  <1>5. ASSUME Cardinality(roots) = 1
        PROVE  DOMAIN a # {} /\ \A i, j \in DOMAIN a : a[i].root = a[j].root
    <2>1. DOMAIN a # {}
      <3>1. DOMAIN a = {} => roots = {}
        BY <1>1
      <3> HIDE DEF roots
      <3> QED
        BY <1>5, <3>1, FS_EmptySet
    <2>2. ASSUME NEW i \in DOMAIN a, NEW j \in DOMAIN a PROVE a[i].root = a[j].root
      <3>1. a[i].root \in roots /\ a[j].root \in roots
        BY <1>1
      <3> HIDE DEF roots
      <3>2. IsFiniteSet({a[i].root}) /\ Cardinality({a[i].root}) = 1
        BY FS_Singleton
      <3>3. roots = {a[i].root}
        BY <1>4, <1>5, <3>1, <3>2, FS_Subset
      <3> QED
        BY <3>1, <3>3
    <2> QED
      BY <2>1, <2>2
  <1>6. ASSUME DOMAIN a # {}, \A i, j \in DOMAIN a : a[i].root = a[j].root
        PROVE  Cardinality(roots) = 1
    <2>1. PICK i \in DOMAIN a : TRUE
      BY <1>6
    <2>2. roots = {a[i].root}
      BY <1>1, <1>6
    <2> QED
      BY <2>2, FS_Singleton
  <1> QED
    BY <1>5, <1>6

\* After the last member what the loop requires and what CheckManifest requires is
\* together what an archive must be.
LEMMA Accepts ==
    ASSUME Scanned, next = Len(report) + 1, total <= MaxTotalSize
    PROVE  ManifestFits <=> WellFormed(report)
  <1> DEFINE listed == {i \in Regular : report[i].path # "manifest"}
             rowsOf(content) == Manifest[content]
  <1>1. Len(report) \in Nat /\ DOMAIN report = 1..Len(report) /\ next - 1 = Len(report)
    <2>1. report \in Archives
      BY DEF Scanned
    <2>2. Len(report) \in Nat /\ DOMAIN report = 1..Len(report)
      BY <2>1, ArchiveAssumption
    <2> QED
      BY <2>2
  <1>2. Regular = {i \in DOMAIN report : report[i].kind # "dir"}
    BY <1>1 DEF Regular
  <1>3. Cardinality({name[1] : name \in seen}) = 1 <=>
            DOMAIN report # {} /\ \A i, j \in DOMAIN report : report[i].root = report[j].root
    BY <1>1, OneRoot DEF Scanned
  <1>4. ASSUME NEW content \in DOMAIN Manifest
        PROVE  /\ IsInjective(Keys(Manifest[content]))
               /\ KeysOf(Manifest[content]) = {report[i].path : i \in listed}
               /\ \A i \in listed : report[i].data = Get(Manifest[content], report[i].path, Nothing)
               <=>
               /\ Len(Manifest[content]) = Cardinality(listed)
               /\ Range(Manifest[content]) = {<<report[i].path, report[i].data>> : i \in listed}
    <2>1. listed \in SUBSET DOMAIN report /\ report \in Archives
      BY <1>2 DEF Scanned
    <2>2. \A i, j \in listed : report[i].path = report[j].path => i = j
      BY DEF Scanned
    <2> HIDE DEF listed
    <2> QED
      BY <2>1, <2>2, RowsMatch
  <1>5. {report[i].path : i \in listed} = DOMAIN files \ {"manifest"}
    <2>1. DOMAIN files = {report[i].path : i \in Regular}
      BY DEF Scanned
    <2>2. \A p : p \in DOMAIN files \ {"manifest"} <=> \E i \in listed : p = report[i].path
      BY <2>1
    <2> QED
      BY <2>2
  <1>6. ASSUME NEW content \in DOMAIN Manifest,
               KeysOf(Manifest[content]) = {report[i].path : i \in listed}
        PROVE  (\A p \in KeysOf(Manifest[content]) : files[p] = Get(Manifest[content], p, Nothing))
               <=> \A i \in listed : report[i].data = Get(Manifest[content], report[i].path, Nothing)
    <2>1. \A i \in listed : files[report[i].path] = report[i].data
      BY DEF Scanned
    <2>2. \A i \in listed : report[i].path \in KeysOf(Manifest[content])
      BY <1>6
    <2>3. \A p \in KeysOf(Manifest[content]) : \E i \in listed : p = report[i].path
      BY <1>6
    <2> HIDE DEF listed
    <2> QED
      BY <2>1, <2>2, <2>3
  <1>7. ASSUME ManifestFits PROVE WellFormed(report)
    <2>1. PICK m \in Regular : report[m].path = "manifest"
      BY <1>7 DEF ManifestFits, Scanned
    <2> DEFINE rows == Manifest[report[m].data]
    <2>2. report[m].data \in DOMAIN Manifest /\ rows # <<>> /\ files["manifest"] = report[m].data
      BY <1>7, <2>1 DEF ManifestFits, ManifestParses, Scanned
    <2>3. Len(rows) = Cardinality(listed) /\
          Range(rows) = {<<report[i].path, report[i].data>> : i \in listed}
      <3>1. IsInjective(Keys(rows)) /\ KeysOf(rows) = {report[i].path : i \in listed}
        BY <1>5, <1>7, <2>2 DEF ManifestFits, ManifestParses
      <3>2. \A i \in listed : report[i].data = Get(rows, report[i].path, Nothing)
        BY <1>6, <1>7, <2>2, <3>1 DEF ManifestFits
      <3> QED
        BY <1>4, <2>2, <3>1, <3>2
    <2>4. \A i, j \in DOMAIN report :
              report[i].root = report[j].root /\ (report[i].path = report[j].path => i = j)
      <3>1. \A i, j \in DOMAIN report : report[i].root = report[j].root
        BY <1>3, <1>7 DEF ManifestFits
      <3>2. \A i, j \in DOMAIN report : Name(report[i]) = Name(report[j]) => i = j
        BY <1>1 DEF Scanned
      <3> QED
        BY <3>1, <3>2 DEF Name
    <2>5. m \in Regular \ listed
      BY <2>1
    <2> HIDE DEF rows
    <2> QED
      BY <1>1, <1>2, <2>2, <2>3, <2>4, <2>5 DEF rows, Scanned, WellFormed
  <1>8. ASSUME WellFormed(report) PROVE ManifestFits
    <2>1. PICK m \in Regular \ listed :
             /\ report[m].data \in DOMAIN Manifest
             /\ Len(Manifest[report[m].data]) = Cardinality(listed)
             /\ Manifest[report[m].data] # <<>>
             /\ Range(Manifest[report[m].data]) =
                    {<<report[i].path, report[i].data>> : i \in listed}
      BY <1>2, <1>8 DEF WellFormed
    <2> DEFINE rows == Manifest[report[m].data]
    <2>2. "manifest" \in DOMAIN files /\ files["manifest"] = report[m].data
      BY <2>1 DEF Scanned
    <2>3. /\ IsInjective(Keys(rows)) /\ KeysOf(rows) = {report[i].path : i \in listed}
          /\ \A i \in listed : report[i].data = Get(rows, report[i].path, Nothing)
      BY <1>4, <2>1
    <2>4. KeysOf(rows) = DOMAIN files \ {"manifest"}
      BY <1>5, <2>3
    <2>5. \A p \in KeysOf(rows) : files[p] = Get(rows, p, Nothing)
      BY <1>6, <2>1, <2>3
    <2>6. Cardinality({name[1] : name \in seen}) = 1
      BY <1>2, <1>3, <1>8, <2>1 DEF WellFormed
    <2> HIDE DEF listed
    <2> QED
      BY <2>1, <2>2, <2>3, <2>4, <2>5, <2>6 DEF ManifestFits, ManifestParses
  <1> QED
    BY <1>7, <1>8

\* Before anything is read.
LEMMA ReadInitially == Init => RInv
  <1> SUFFICES ASSUME Init PROVE RInv
    OBVIOUS
  <1>1. pc = "paths" /\ verified = "pending" /\ seen = {} /\ files = <<>> /\ total = 0
    BY DEF Init
  <1> QED
    BY <1>1
    DEF RInv, Unread, Undecided, Vouched, Past, Classified, Writing, AcceptedIffWellFormed

\* Before the first member nothing has been found out.
LEMMA ScanStarts ==
    ASSUME IInv, RInv, OpenArchive, Len(archive) <= MaxMembers
    PROVE  Scanned'
  <1>1. archive \in Archives /\ report' = archive /\ next' = 1
    BY DEF OpenArchive, IInv, TypeOK, Progress
  <1>2. seen' = {} /\ files' = <<>> /\ total' = 0
    BY DEF OpenArchive, RInv, Unread
  <1>3. 1..(next' - 1) = {} /\ next' - 1 = 0
    BY <1>1
  <1>4. Regular' = {}
    BY <1>3 DEF Regular
  <1>5. DOMAIN files' = {}
    BY <1>2
  <1>6. Bytes(archive)[0] = 0
    BY <1>1, BytesSum
  <1> QED
    BY <1>1, <1>2, <1>3, <1>4, <1>5, <1>6 DEF Scanned

\* A member that is admitted adds to what has been found out what it is.
LEMMA ScanGoesOn ==
    ASSUME IInv, RInv, ReadMember, pc' = "member"
    PROVE  Scanned'
  <1> DEFINE m == report[next]
  <1>1. /\ pc = "member" /\ Scanned /\ next <= Len(report) /\ report' = report
        /\ Admits(m) /\ seen' = seen \cup {Name(m)} /\ next' = next + 1
        /\ IF m.kind = "dir" THEN files' = files /\ total' = total
           ELSE /\ files' = [p \in DOMAIN files \cup {m.path} |->
                                IF p = m.path THEN m.data ELSE files[p]]
                /\ total' = total + m.size
    BY DEF ReadMember, RInv, Unverified, Refuse, GoTo
  <1>2. report \in Archives /\ Len(report) \in Nat /\ DOMAIN report = 1..Len(report)
    BY <1>1, ArchiveAssumption DEF Scanned
  <1>3. next \in 1..Len(report) /\ next - 1 \in Nat
    BY <1>1, <1>2 DEF IInv, TypeOK
  <1>4. /\ next' - 1 = next /\ 1..next = (1..(next - 1)) \cup {next}
        /\ next \notin 1..(next - 1)
    BY <1>1, <1>3
  <1>5. Regular' = {i \in 1..next : report[i].kind # "dir"}
    BY <1>1, <1>4 DEF Regular
  <1>6. Regular' = IF m.kind = "dir" THEN Regular ELSE Regular \cup {next}
    BY <1>4, <1>5 DEF Regular
  <1>7. seen' = {Name(report[i]) : i \in 1..next}
    <2>1. seen = {Name(report[i]) : i \in 1..(next - 1)}
      BY <1>1 DEF Scanned
    <2>2. \A x : x \in seen' <=> \E i \in (1..(next - 1)) \cup {next} : x = Name(report[i])
      BY <1>1, <2>1
    <2> QED
      BY <1>4, <2>2
  <1>8. \A i \in 1..next : report[i].safe /\ report[i].kind \in {"dir", "file"}
    BY <1>1, <1>4 DEF Scanned, Admits
  <1>9. \A i, j \in 1..next : Name(report[i]) = Name(report[j]) => i = j
    <2>1. \A i \in 1..(next - 1) : Name(report[i]) # Name(m)
      BY <1>1 DEF Scanned, Admits
    <2> QED
      BY <1>1, <1>4, <2>1 DEF Scanned
  <1>10. \A i \in Regular' : report[i].path # "" /\ report[i].size <= MaxFileSize
    BY <1>1, <1>6 DEF Scanned, Admits
  <1>11. \A i, j \in Regular' : report[i].path = report[j].path => i = j
    <2>1. m.kind # "dir" => \A i \in Regular : report[i].path # m.path
      BY <1>1 DEF Scanned, Admits
    <2> QED
      BY <1>1, <1>6, <2>1 DEF Scanned
  <1>12. DOMAIN files' = {report[i].path : i \in Regular'}
    <2>1. DOMAIN files = {report[i].path : i \in Regular}
      BY <1>1 DEF Scanned
    <2>2. DOMAIN files' = IF m.kind = "dir" THEN DOMAIN files ELSE DOMAIN files \cup {m.path}
      BY <1>1
    <2>3. m.kind # "dir" =>
              {report[i].path : i \in Regular \cup {next}} =
                  {report[i].path : i \in Regular} \cup {m.path}
      OBVIOUS
    <2> HIDE DEF m
    <2> QED
      BY <1>6, <2>1, <2>2, <2>3
  <1>13. \A i \in Regular' : files'[report[i].path] = report[i].data
    <2>1. m.kind # "dir" => m.path \notin DOMAIN files
      BY <1>1 DEF Admits
    <2>2. \A i \in Regular : report[i].path \in DOMAIN files /\ files[report[i].path] = report[i].data
      BY <1>1 DEF Scanned
    <2> QED
      BY <1>1, <1>6, <2>1, <2>2
  <1>14. total' = Bytes(report)[next]
    <2>1. Bytes(report)[next] = Bytes(report)[next - 1] + (IF m.kind = "dir" THEN 0 ELSE m.size)
      BY <1>2, <1>3, BytesSum
    <2>2. Bytes(report)[next - 1] \in Nat
      <3>1. next - 1 \in 0..Len(report)
        BY <1>2, <1>3
      <3> QED
        BY <1>2, <3>1, BytesSum
    <2>3. total = Bytes(report)[next - 1]
      BY <1>1 DEF Scanned
    <2> QED
      BY <1>1, <2>1, <2>2, <2>3
  <1>15. report' \in Archives /\ Len(report') <= MaxMembers
    BY <1>1 DEF Scanned
  <1>16. report' = report /\ next' - 1 = next
    BY <1>1, <1>4
  <1> HIDE DEF m
  <1>17. seen' = {Name(report'[i]) : i \in 1..(next' - 1)}
    BY <1>7, <1>16
  <1>18. /\ \A i \in 1..(next' - 1) : report'[i].safe /\ report'[i].kind \in {"dir", "file"}
         /\ \A i, j \in 1..(next' - 1) : Name(report'[i]) = Name(report'[j]) => i = j
         /\ total' = Bytes(report')[next' - 1]
    BY <1>8, <1>9, <1>14, <1>16
  <1>19. /\ \A i \in Regular' : report'[i].path # "" /\ report'[i].size <= MaxFileSize
         /\ \A i, j \in Regular' : report'[i].path = report'[j].path => i = j
         /\ DOMAIN files' = {report'[i].path : i \in Regular'}
         /\ \A i \in Regular' : files'[report'[i].path] = report'[i].data
    BY <1>10, <1>11, <1>12, <1>13, <1>16
  <1> QED
    BY <1>15, <1>17, <1>18, <1>19 DEF Scanned

\* A member that is not admitted is one that no well-formed archive has.
LEMMA RefusedMember ==
    ASSUME IInv, RInv, pc = "member", next <= Len(report), ~Admits(report[next])
    PROVE  ~WellFormed(report)
  <1> SUFFICES ASSUME WellFormed(report) PROVE Admits(report[next])
    OBVIOUS
  <1> DEFINE m == report[next]
  <1>1. Scanned
    BY DEF RInv
  <1>2. report \in Archives /\ Len(report) \in Nat /\ DOMAIN report = 1..Len(report)
    BY <1>1, ArchiveAssumption DEF Scanned
  <1>3. next \in 1..Len(report) /\ next - 1 \in 0..Len(report)
    BY <1>2 DEF IInv, TypeOK
  <1>4. \A i \in 1..(next - 1) : i \in 1..Len(report) /\ i # next
    BY <1>2, <1>3
  <1>5. m.safe /\ m.kind \in {"dir", "file"}
    BY <1>2, <1>3 DEF WellFormed
  <1>6. \A i \in 1..(next - 1) : report[i].path # m.path
    BY <1>2, <1>3, <1>4 DEF WellFormed
  <1>7. Name(m) \notin seen
    BY <1>1, <1>6 DEF Scanned, Name
  <1>8. m.kind # "dir" => m.path # "" /\ m.size <= MaxFileSize /\ m.path \notin DOMAIN files
    <2>1. m.kind # "dir" => m.path # "" /\ m.size <= MaxFileSize
      BY <1>2, <1>3 DEF WellFormed
    <2>2. m.path \notin DOMAIN files
      BY <1>1, <1>6 DEF Scanned, Regular
    <2> QED
      BY <2>1, <2>2
  <1>9. m.kind # "dir" => total + m.size <= MaxTotalSize
    <2>1. Bytes(report)[next] = Bytes(report)[next - 1] + (IF m.kind = "dir" THEN 0 ELSE m.size)
      BY <1>2, <1>3, BytesSum
    <2>2. Bytes(report)[next] <= Bytes(report)[Len(report)]
      BY <1>2, <1>3, BytesGrow
    <2>3. Bytes(report)[Len(report)] <= MaxTotalSize
      BY DEF WellFormed
    <2>4. Bytes(report)[next] \in Nat /\ Bytes(report)[Len(report)] \in Nat
      BY <1>2, <1>3, BytesSum
    <2>5. total = Bytes(report)[next - 1] /\ MaxTotalSize \in Nat
      BY <1>1, PreflightAssumption DEF Scanned
    <2> HIDE DEF m
    <2> QED
      BY <2>1, <2>2, <2>3, <2>4, <2>5
  <1> HIDE DEF m
  <1> QED
    BY <1>5, <1>7, <1>8, <1>9 DEF m, Admits

\* The verification decides by what the archive is, and looks at no other file.
LEMMA VerifyDecides ==
    ASSUME IInv, RInv,
           ReplaceInput \/ ValidatePaths \/ ParseSidecar \/ HashArchive \/ OpenArchive \/
             ReadMember \/ CheckManifest
    PROVE  RInv'
  <1>1. CASE ReplaceInput
    BY <1>1
    DEF RInv, Unread, Undecided, AcceptedIffWellFormed, ReplaceInput, verification, Reading
  <1>2. CASE ValidatePaths
    BY <1>2
    DEF RInv, Unread, Undecided, Vouched, Past, Classified, Writing, AcceptedIffWellFormed,
        ValidatePaths, inputs, verification, GoTo, Refuse
  <1>3. CASE ParseSidecar
    <2>1. pc' \in {"hash", "ended"} /\ verified' \in {"pending", "no"} /\ sidecar' = sidecar
      BY <1>3 DEF RInv, Undecided, ParseSidecar, GoTo, Unverified, Refuse, inputs
    <2>2. Vouched'
      <3>1. pc' = "hash" => Names(sidecar, expected')
        BY <1>3 DEF ParseSidecar, GoTo, Unverified, Refuse, Names
      <3> QED
        BY <2>1, <3>1 DEF Vouched, Past, Classified, Writing
    <2>3. verified' = "no" => ~Names(sidecar, archive)
      BY <1>3 DEF RInv, Undecided, ParseSidecar, Names
    <2>4. AcceptedIffWellFormed'
      BY <1>3, <2>1, <2>3 DEF AcceptedIffWellFormed, Writing, ParseSidecar, inputs
    <2>5. Unread' /\ Undecided'
      BY <1>3 DEF RInv, Unread, Undecided, ParseSidecar, GoTo, Unverified, Refuse
    <2> QED
      BY <2>1, <2>2, <2>4, <2>5 DEF RInv
  <1>4. CASE HashArchive
    <2>1. /\ pc' \in {"open", "ended"} /\ verified' \in {"pending", "no"}
          /\ sidecar' = sidecar /\ archive' = archive /\ quiet' = quiet /\ expected' = expected
      BY <1>4 DEF RInv, Undecided, HashArchive, GoTo, Unverified, Refuse, inputs
    <2>2. quiet' => Vouched'
      BY <1>4, <2>1
      DEF RInv, Vouched, Past, Classified, Writing, HashArchive, GoTo, Unverified, Refuse
    <2>3. quiet /\ verified' = "no" => ~Names(sidecar, archive)
      BY <1>4 DEF RInv, Undecided, Vouched, HashArchive, Names
    <2>4. AcceptedIffWellFormed'
      BY <2>1, <2>3 DEF AcceptedIffWellFormed, Writing
    <2>5. Unread' /\ Undecided'
      BY <1>4 DEF RInv, Unread, Undecided, HashArchive, GoTo, Unverified, Refuse
    <2> QED
      BY <2>1, <2>2, <2>4, <2>5 DEF RInv
  <1>5. CASE OpenArchive
    <2>1. /\ pc' \in {"member", "ended"} /\ verified' \in {"pending", "no"} /\ report' = archive
          /\ sidecar' = sidecar /\ archive' = archive /\ quiet' = quiet /\ expected' = expected
      BY <1>5 DEF RInv, Undecided, OpenArchive, GoTo, Unverified, Refuse, inputs
    <2>2. quiet' => Vouched'
      BY <1>5, <2>1 DEF RInv, Vouched, Past, Classified, Writing, OpenArchive
    <2>3. verified' = "no" => ~WellFormed(archive)
      BY <1>5 DEF RInv, Undecided, OpenArchive, WellFormed
    <2>4. AcceptedIffWellFormed'
      BY <2>1, <2>3 DEF AcceptedIffWellFormed, Writing
    <2>5. Unread' /\ Undecided'
      BY <1>5 DEF RInv, Unread, Undecided, OpenArchive, GoTo, Unverified, Refuse
    <2>6. pc' = "member" => Scanned'
      BY <1>5, ScanStarts DEF OpenArchive, GoTo, Unverified, Refuse
    <2> QED
      BY <2>2, <2>4, <2>5, <2>6 DEF RInv
  <1>6. CASE ReadMember
    <2>1. /\ pc' \in {"member", "ended"} /\ verified' \in {"pending", "no"} /\ report' = report
          /\ sidecar' = sidecar /\ archive' = archive /\ quiet' = quiet /\ expected' = expected
          /\ pc' = "member" => verified' = "pending"
      BY <1>6 DEF RInv, Undecided, ReadMember, GoTo, Unverified, Refuse, inputs
    <2>2. quiet' => Vouched'
      BY <1>6, <2>1 DEF RInv, Vouched, Past, Classified, Writing, ReadMember
    <2>3. verified' = "no" => ~WellFormed(report)
      BY <1>6, RefusedMember DEF RInv, Undecided, ReadMember
    <2>4. quiet => report = archive
      BY <1>6 DEF RInv, Vouched, ReadMember
    <2>5. AcceptedIffWellFormed'
      BY <2>1, <2>3, <2>4 DEF AcceptedIffWellFormed, Writing
    <2>6. Unread' /\ Undecided'
      BY <2>1 DEF Unread, Undecided
    <2> QED
      BY <1>6, <2>2, <2>5, <2>6, ScanGoesOn DEF RInv
  <1>7. CASE CheckManifest
    <2>1. /\ pc' \in {"classify", "ended"} /\ report' = report
          /\ sidecar' = sidecar /\ archive' = archive /\ quiet' = quiet /\ expected' = expected
      BY <1>7 DEF CheckManifest, GoTo, Unverified, Refuse, inputs
    <2>2. quiet' => Vouched'
      BY <1>7, <2>1 DEF RInv, Vouched, Past, Classified, Writing, CheckManifest
    <2>3. Scanned /\ next = Len(report) + 1 /\ total <= MaxTotalSize
      <3>1. Len(report) \in Nat
        BY ReportLength
      <3>2. Scanned /\ next > Len(report)
        BY <1>7 DEF RInv, CheckManifest
      <3> QED
        BY <3>1, <3>2 DEF IInv, TypeOK
    <2>4. ManifestFits <=> WellFormed(report)
      BY <2>3, Accepts
    <2>5. verified' = IF ManifestFits THEN "yes" ELSE "no"
      BY <1>7 DEF CheckManifest, ManifestFits, Unverified
    <2>6. quiet => report = archive
      BY <1>7 DEF RInv, Vouched, CheckManifest
    <2>7. AcceptedIffWellFormed'
      BY <2>1, <2>4, <2>5, <2>6 DEF AcceptedIffWellFormed, Writing
    <2> QED
      BY <2>1, <2>2, <2>7 DEF RInv, Unread, Undecided
  <1> QED
    BY <1>1, <1>2, <1>3, <1>4, <1>5, <1>6, <1>7

\* After it the analysis names what was compared.
LEMMA RestDecides ==
    ASSUME IInv, RInv,
           Classify \/ ClassifyFails \/ HashSidecar \/ WriteOutput \/ Interrupt \/ Kill
    PROVE  RInv'
  <1>1. /\ sidecar' = sidecar /\ archive' = archive /\ quiet' = quiet
        /\ report' = report /\ expected' = expected /\ verified' = verified
    BY DEF Classify, ClassifyFails, HashSidecar, WriteOutput, Stage, Move, Install, SyncParent,
           DropBackup, RemoveNew, Restore, CleanUp, Interrupt, Kill, WriteFrame, inputs, verification,
           LeftHalfDone
  <1>2. /\ pc \in {"classify", "sidecar-hash"} \/ Writing
        /\ pc' \in {"sidecar-hash", "ended"} \/ Writing'
    BY DEF Classify, ClassifyFails, HashSidecar, WriteOutput, Stage, Move, Install, SyncParent,
           DropBackup, RemoveNew, Restore, CleanUp, Interrupt, Kill, Writing, GoTo, Refuse, LeftHalfDone,
           WriteFrame
  <1>3. /\ pc' \notin {"paths", "sidecar", "hash", "open", "member", "classify"}
        /\ pc = "classify" => pc' \in {"sidecar-hash", "ended"}
        /\ pc = "sidecar-hash" => pc' = "stage"
    BY <1>2
    DEF Classify, ClassifyFails, HashSidecar, WriteOutput, Stage, Move, Install, SyncParent,
        DropBackup, RemoveNew, Restore, CleanUp, Interrupt, Kill, Writing, GoTo, Refuse, LeftHalfDone,
        WriteFrame
  <1>4. quiet' => Vouched'
    <2> SUFFICES ASSUME quiet PROVE Vouched'
      BY <1>1
    <2>1. Past /\ Names(sidecar, expected) /\ expected = archive /\ report = archive
      BY <1>2 DEF RInv, Vouched, Past, Classified
    <2>2. Classified' => analysis'.archive = archive
      <3>1. CASE Classify
        BY <2>1, <3>1 DEF Classify
      <3>2. CASE ClassifyFails
        BY <3>2 DEF ClassifyFails, Refuse, GoTo, Classified, Writing
      <3>3. CASE HashSidecar
        BY <3>3 DEF HashSidecar, RInv, Vouched, Classified, IInv, Progress
      <3>4. CASE WriteOutput \/ Interrupt \/ Kill
        <4>1. analysis' = analysis /\ Classified
          BY <3>4
          DEF WriteOutput, Stage, Move, Install, SyncParent, DropBackup, RemoveNew, Restore,
              CleanUp, Interrupt, Kill, WriteFrame, Classified, Writing, LeftHalfDone
        <4> QED
          BY <4>1 DEF RInv, Vouched
      <3> QED
        BY <3>1, <3>2, <3>3, <3>4
    <2>3. Writing' => analysis'.sidecar = sidecar
      <3>1. CASE Classify \/ ClassifyFails
        BY <3>1 DEF Classify, ClassifyFails, Refuse, GoTo, Writing
      <3>2. CASE HashSidecar
        BY <3>2 DEF HashSidecar, IInv, Progress, Classified
      <3>3. CASE WriteOutput \/ Interrupt \/ Kill
        <4>1. analysis' = analysis /\ Writing
          BY <3>3
          DEF WriteOutput, Stage, Move, Install, SyncParent, DropBackup, RemoveNew, Restore,
              CleanUp, Interrupt, Kill, WriteFrame, Writing, LeftHalfDone
        <4> QED
          BY <4>1 DEF RInv, Vouched
      <3> QED
        BY <3>1, <3>2, <3>3
    <2> QED
      BY <1>1, <2>1, <2>2, <2>3 DEF Vouched
  <1>5. AcceptedIffWellFormed'
    <2>1. quiet' /\ Writing' =>
              /\ report' = archive' /\ Names(sidecar', archive')
              /\ analysis'.archive = archive' /\ analysis'.sidecar = sidecar'
      BY <1>4 DEF Vouched, Past, Classified
    <2> QED
      BY <1>1, <2>1 DEF RInv, AcceptedIffWellFormed
  <1> QED
    BY <1>3, <1>4, <1>5 DEF RInv, Unread, Undecided

\* Every step keeps it.
LEMMA ReadStep == IInv /\ RInv /\ [Next]_vars => RInv'
  <1> SUFFICES ASSUME IInv, RInv, [Next]_vars PROVE RInv'
    OBVIOUS
  <1>1. CASE ReplaceInput \/ Verify
    BY <1>1, VerifyDecides DEF Verify
  <1>2. CASE Classify \/ ClassifyFails \/ HashSidecar \/ WriteOutput \/ Interrupt \/ Kill
    BY <1>2, RestDecides
  <1>3. CASE UNCHANGED vars
    <2>1. /\ archive' = archive /\ sidecar' = sidecar /\ quiet' = quiet /\ pc' = pc
          /\ expected' = expected /\ report' = report /\ next' = next /\ seen' = seen
          /\ files' = files /\ total' = total /\ verified' = verified /\ analysis' = analysis
      BY <1>3 DEF vars, inputs, verification
    <2>2. Scanned' <=> Scanned
      BY <2>1 DEF Scanned, Regular
    <2>3. Vouched' <=> Vouched
      BY <2>1 DEF Vouched, Past, Classified, Writing
    <2>4. (Unread /\ Undecided /\ AcceptedIffWellFormed)'
      BY <2>1 DEF RInv, Unread, Undecided, AcceptedIffWellFormed, Writing
    <2> QED
      BY <2>1, <2>2, <2>3, <2>4 DEF RInv
  <1> QED
    BY <1>1, <1>2, <1>3 DEF Next

\* Exactly the well-formed archives are accepted, whatever the order, the number and
\* the size of their members and whatever is replaced meanwhile; what is written names
\* the two files it comes from if neither was.
THEOREM AcceptedWellFormed == Spec => []AcceptedIffWellFormed
  <1>1. RInv => AcceptedIffWellFormed
    BY DEF RInv
  <1> QED
    BY <1>1, ReadInitially, ReadStep, Invariance, PTL DEF Spec
-----------------------------------------------------------------------------
(* What a READY verdict means. *)

\* The documents are what the members of the archive have, one each, and they parse.
Files == {i \in DOMAIN report : report[i].kind # "dir"}
FilesAreMembers ==
    /\ DOMAIN files = {report[i].path : i \in Files}
    /\ \A i \in Files : files[report[i].path] = report[i].data
Evidence ==
    /\ verified = "yes" => FilesAreMembers
    /\ Classified => DocumentsThere /\ Parses(files)

\* At the end of the loop every member has been passed.
LEMMA ScanComplete ==
    ASSUME Scanned, next = Len(report) + 1, Len(report) \in Nat
    PROVE  FilesAreMembers
  <1>1. DOMAIN report = 1..Len(report)
    BY ArchiveAssumption DEF Scanned
  <1>2. Regular = Files
    BY <1>1 DEF Regular, Files
  <1> QED
    BY <1>2 DEF Scanned, FilesAreMembers

\* Every step keeps it: it is established by the last check and by the classification.
LEMMA EvidenceStep == IInv /\ RInv /\ Evidence /\ [Next]_vars => Evidence'
  <1> SUFFICES ASSUME IInv, RInv, Evidence, [Next]_vars PROVE Evidence'
    OBVIOUS
  <1>1. CASE UNCHANGED <<report, files, verified, pc>>
    BY <1>1
    DEF Evidence, FilesAreMembers, Files, Classified, Writing, DocumentsThere
  <1>2. CASE ReplaceInput \/ UNCHANGED vars
    BY <1>1, <1>2 DEF ReplaceInput, vars, verification
  <1>3. CASE ValidatePaths \/ ParseSidecar \/ HashArchive \/ OpenArchive \/ ReadMember
    <2>1. verified' # "yes" /\ pc' \in {"sidecar", "hash", "open", "member", "ended"}
      BY <1>3
      DEF RInv, Undecided, ValidatePaths, ParseSidecar, HashArchive, OpenArchive, ReadMember,
          verification, GoTo, Unverified, Refuse
    <2> QED
      BY <2>1 DEF Evidence, Classified, Writing
  <1>4. CASE CheckManifest
    <2>1. UNCHANGED <<report, files>> /\ pc' \in {"classify", "ended"} /\ Scanned /\ next > Len(report)
      BY <1>4 DEF RInv, CheckManifest, GoTo, Unverified, Refuse
    <2>2. Len(report) \in Nat /\ next = Len(report) + 1
      <3>1. Len(report) \in Nat
        BY ReportLength
      <3> QED
        BY <2>1, <3>1 DEF IInv, TypeOK
    <2>3. FilesAreMembers'
      BY <2>1, <2>2, ScanComplete DEF FilesAreMembers, Files
    <2> QED
      BY <2>1, <2>3 DEF Evidence, Classified, Writing
  <1>5. CASE Classify
    <2>1. UNCHANGED <<report, files, verified>> /\ DocumentsThere /\ Parses(files)
      BY <1>5 DEF Classify, verification
    <2> QED
      BY <2>1 DEF Evidence, FilesAreMembers, Files, DocumentsThere
  <1>6. CASE ClassifyFails
    <2>1. UNCHANGED <<report, files, verified>> /\ pc' = "ended"
      BY <1>6 DEF ClassifyFails, verification, Refuse, GoTo
    <2> QED
      BY <2>1 DEF Evidence, FilesAreMembers, Files, Classified, Writing
  <1>7. CASE HashSidecar \/ WriteOutput \/ Interrupt \/ Kill
    <2>1. UNCHANGED <<report, files, verified>> /\ Classified
      BY <1>7
      DEF HashSidecar, WriteOutput, Stage, Move, Install, SyncParent, DropBackup, RemoveNew,
          Restore, CleanUp, Interrupt, Kill, WriteFrame, verification, Classified, Writing
    <2> QED
      BY <2>1 DEF Evidence, FilesAreMembers, Files, DocumentsThere
  <1> QED
    BY <1>2, <1>3, <1>4, <1>5, <1>6, <1>7 DEF Next, Verify

\* What the members of an archive say under the path of a document is what is
\* in the document.
LEMMA SaidIsDocument ==
    ASSUME FilesAreMembers, DocumentsThere, NEW d \in Range(Documents)
    PROVE  Said(d) = Range(Table[files[d]])
  <1> DEFINE At == {n \in DOMAIN report : report[n].kind # "dir" /\ report[n].path = d}
             Sets == {Range(Table[report[n].data]) : n \in At}
  <1>1. \A n \in At : report[n].data = files[d]
    BY DEF FilesAreMembers, Files
  <1>2. At # {}
    BY DEF FilesAreMembers, Files, DocumentsThere
  <1>3. Sets = {Range(Table[files[d]])}
    BY <1>1, <1>2
  <1>4. Said(d) = UNION Sets
    BY DEF Said
  <1> HIDE DEF Sets
  <1> QED
    BY <1>3, <1>4

\* One of some rows has this key and this value.
HasRow(rows, key, value) == \E row \in rows : row[1] = key /\ row[2] = value

\* A key that has a value has a row with it.
LEMMA GetSays ==
    ASSUME NEW rows, NEW key, NEW value, value # "", Get(rows, key, "") = value
    PROVE  HasRow(Range(rows), key, value)
  <1>1. PICK i \in DOMAIN rows : rows[i][1] = key
    BY DEF Get
  <1>2. PICK k \in DOMAIN rows : rows[k][1] = key /\ value = rows[k][2]
    BY <1>1 DEF Get
  <1>3. rows[k] \in Range(rows)
    BY DEF Range
  <1> QED
    BY <1>2, <1>3 DEF HasRow

\* Rows without a repeated key say one thing of each.
LEMMA OneSaying ==
    ASSUME NEW rows, IsInjective(Keys(rows)), NEW r \in Range(rows), NEW s \in Range(rows), r[1] = s[1]
    PROVE  r[2] = s[2]
  <1>1. PICK i \in DOMAIN rows : r = rows[i]
    BY DEF Range
  <1>2. PICK k \in DOMAIN rows : s = rows[k]
    BY DEF Range
  <1> QED
    BY <1>1, <1>2 DEF IsInjective, Keys

\* Where nothing blocks, no layer is over a protected root, and every required
\* property and query is there.
LEMMA NoBlockers ==
    ASSUME NEW docs, Blockers(docs) = {}
    PROVE  /\ \A i \in DOMAIN Table[docs["mounts"]] :
                 Table[docs["mounts"]][i].root \in ProtectedRoots => Table[docs["mounts"]][i].modules = {}
           /\ \A k \in RequiredProperties : Get(Table[docs["properties"]], k, "") # ""
           /\ \A k \in RequiredCommands : Get(Table[docs["status"]], k, "") = "0"
  <1>1. OverlayConflicts(Table[docs["mounts"]], Table[docs["modules"]]) = {}
    BY DEF Blockers
  <1>2. ASSUME NEW i \in DOMAIN Table[docs["mounts"]], Table[docs["mounts"]][i].root \in ProtectedRoots,
               NEW id \in Table[docs["mounts"]][i].modules
        PROVE  FALSE
    <2> DEFINE mounts == Table[docs["mounts"]]
               modules == Table[docs["modules"]]
               State(x) == IF x \notin KeysOf(modules) THEN "unknown-inventory"
                           ELSE IF ActiveModule(Get(modules, x, "")) THEN "active"
                           ELSE "inactive-but-mounted"
               On(n) == {<<x, mounts[n].root, State(x)>> : x \in mounts[n].modules}
               Roots == {n \in DOMAIN mounts : mounts[n].root \in ProtectedRoots}
    <2>1. OverlayConflicts(mounts, modules) = UNION {On(n) : n \in Roots}
      BY DEF OverlayConflicts
    <2>2. <<id, mounts[i].root, State(id)>> \in On(i)
      BY <1>2
    <2>3. On(i) \in {On(n) : n \in Roots}
      <3>1. i \in Roots
        BY <1>2
      <3> HIDE DEF On, Roots
      <3> QED
        BY <3>1
    <2> HIDE DEF On, State
    <2> QED
      BY <1>1, <2>1, <2>2, <2>3
  <1>3. \A k \in RequiredProperties : Get(Table[docs["properties"]], k, "") # ""
    BY DEF Blockers
  <1>4. \A k \in RequiredCommands : Get(Table[docs["status"]], k, "") = "0"
    BY DEF Blockers
  <1> QED
    BY <1>2, <1>3, <1>4

\* ... and the collection, the device and its security are as required.
LEMMA NoRuleBroken ==
    ASSUME NEW docs, Blockers(docs) = {}
    PROVE  LET summary == Table[docs["summary"]]
               properties == Table[docs["properties"]]
           IN  /\ Get(summary, "report_format", "") = "1"
               /\ Get(summary, "collector_mode", "") = "read-only-preflight"
               /\ Get(summary, "not_flash_ready", "") = "true" /\ Get(summary, "uid", "") = "0"
               /\ Get(summary, "identity_status", "") = "PASS"
               /\ Get(summary, "selinux_status", "") = "ENFORCING"
               /\ Get(summary, "boot_id", "") # "" /\ Get(summary, "ksud_path", "") # ""
               /\ Get(properties, "device", "") = "PJZ110" /\ Get(properties, "sdk", "") = "36"
               /\ Get(properties, "oplusrom", "") \in SupportedRoms
  <1> DEFINE summary == Table[docs["summary"]]
             properties == Table[docs["properties"]]
             Rules == {
                <<<<"device.collector_identity_failed">>, Get(summary, "identity_status", "") = "PASS">>,
                <<<<"device.unsupported_product">>, SupportedProduct(properties)>>,
                <<<<"device.unsupported_sdk">>, Get(properties, "sdk", "") = "36">>,
                <<<<"device.unsupported_oplus_rom">>, Get(properties, "oplusrom", "") \in SupportedRoms>>,
                <<<<"security.selinux_not_enforcing">>, Get(summary, "selinux_status", "") = "ENFORCING">>,
                <<<<"kernel.boot_id_missing">>, Get(summary, "boot_id", "") # "">>,
                <<<<"kernelsu.ksud_missing">>, Get(summary, "ksud_path", "") # "">>}
             Broken == {rule[1] : rule \in {r \in Rules : ~r[2]}}
             Mismatches == {<<"collector.summary_mismatch", key>> :
                              key \in {k \in KeysOf(ExpectedSummary) :
                                          Get(summary, k, "") # Get(ExpectedSummary, k, "")}}
  <1>1. Broken = {} /\ Mismatches = {}
    BY DEF Blockers
  <1>2. \A r \in Rules : r[2]
    <2> SUFFICES ASSUME NEW r \in Rules, ~r[2] PROVE FALSE
      OBVIOUS
    <2>1. r[1] \in Broken
      OBVIOUS
    <2> QED
      BY <1>1, <2>1
  <1>3. /\ Get(summary, "identity_status", "") = "PASS" /\ SupportedProduct(properties)
        /\ Get(properties, "sdk", "") = "36" /\ Get(properties, "oplusrom", "") \in SupportedRoms
        /\ Get(summary, "selinux_status", "") = "ENFORCING"
        /\ Get(summary, "boot_id", "") # "" /\ Get(summary, "ksud_path", "") # ""
    BY <1>2
  <1>4. \A k \in KeysOf(ExpectedSummary) : Get(summary, k, "") = Get(ExpectedSummary, k, "")
    <2> SUFFICES ASSUME NEW k \in KeysOf(ExpectedSummary), Get(summary, k, "") # Get(ExpectedSummary, k, "")
                 PROVE  FALSE
      OBVIOUS
    <2>1. <<"collector.summary_mismatch", k>> \in Mismatches
      OBVIOUS
    <2> QED
      BY <1>1, <2>1
  <1> HIDE DEF summary
  <1>5. ASSUME NEW key, NEW value, <<key, value>> \in Range(ExpectedSummary)
        PROVE  Get(summary, key, "") = value
    <2>1. DOMAIN ExpectedSummary = 1..4
      BY DEF ExpectedSummary
    <2>2. IsInjective(Keys(ExpectedSummary))
      BY <2>1 DEF IsInjective, Keys, ExpectedSummary
    <2>3. PICK i \in 1..4 : ExpectedSummary[i][1] = key /\ ExpectedSummary[i][2] = value
      BY <1>5, <2>1 DEF Range
    <2>4. key \in KeysOf(ExpectedSummary)
      BY <2>1, <2>3 DEF KeysOf, Keys, Range
    <2>5. Get(ExpectedSummary, ExpectedSummary[i][1], "") = ExpectedSummary[i][2]
      BY <2>1, <2>2, GetRow
    <2>6. Get(ExpectedSummary, key, "") = value
      BY <2>3, <2>5
    <2> QED
      BY <1>4, <2>4, <2>6
  <1>6. /\ <<"report_format", "1">> \in Range(ExpectedSummary)
        /\ <<"collector_mode", "read-only-preflight">> \in Range(ExpectedSummary)
        /\ <<"not_flash_ready", "true">> \in Range(ExpectedSummary)
        /\ <<"uid", "0">> \in Range(ExpectedSummary)
    <2>1. DOMAIN ExpectedSummary = 1..4
      BY DEF ExpectedSummary
    <2> QED
      BY <2>1 DEF ExpectedSummary, Range
  <1>7. /\ Get(summary, "report_format", "") = "1"
        /\ Get(summary, "collector_mode", "") = "read-only-preflight"
        /\ Get(summary, "not_flash_ready", "") = "true" /\ Get(summary, "uid", "") = "0"
    <2>1. Get(summary, "report_format", "") = "1"
      BY <1>5, <1>6
    <2>2. Get(summary, "collector_mode", "") = "read-only-preflight"
      BY <1>5, <1>6
    <2>3. Get(summary, "not_flash_ready", "") = "true"
      BY <1>5, <1>6
    <2>4. Get(summary, "uid", "") = "0"
      BY <1>5, <1>6
    <2> QED
      BY <2>1, <2>2, <2>3, <2>4
  <1> QED
    BY <1>3, <1>7 DEF SupportedProduct, summary

\* A verdict is READY only for an archive whose own members say that the device is
\* the supported one, in the state the analysis asks for, for any documents and
\* whatever is replaced meanwhile.
THEOREM ReadyMeansFit == Spec => []ReadyIsFit
  <1>1. IInv /\ Evidence => ReadyIsFit
    <2> SUFFICES ASSUME IInv, Evidence, Writing,
                        analysis.verdict = "READY_FOR_CONTROLLED_VALIDATION"
                 PROVE  ReadyIsFit
      BY DEF ReadyIsFit
    <2>1. Blockers(files) = {} /\ verified = "yes"
      BY DEF IInv, TypeOK, Progress, Classified, Verdict
    <2>2. FilesAreMembers /\ DocumentsThere /\ Parses(files)
      BY <2>1 DEF Evidence, Classified
    <2>3. {"summary", "properties", "status", "mounts"} \subseteq Range(Documents)
      <3>1. /\ Documents[1] = "summary" /\ Documents[2] = "properties" /\ Documents[3] = "status"
            /\ Documents[5] = "mounts" /\ DOMAIN Documents = 1..7
        BY DEF Documents
      <3> QED
        BY <3>1 DEF Range
    <2>4. /\ Said("summary") = Range(Table[files["summary"]])
          /\ Said("properties") = Range(Table[files["properties"]])
          /\ Said("status") = Range(Table[files["status"]])
          /\ Said("mounts") = Range(Table[files["mounts"]])
      BY <2>2, <2>3, SaidIsDocument
    <2>5. ASSUME NEW key, NEW value, value # "", Get(Table[files["summary"]], key, "") = value
          PROVE  Says("summary", key, value)
      <3>1. HasRow(Range(Table[files["summary"]]), key, value)
        BY <2>5, GetSays
      <3> QED
        BY <2>4, <3>1 DEF Says, HasRow
    <2>6. ASSUME NEW key, NEW value, value # "", Get(Table[files["properties"]], key, "") = value
          PROVE  Says("properties", key, value)
      <3>1. HasRow(Range(Table[files["properties"]]), key, value)
        BY <2>6, GetSays
      <3> QED
        BY <2>4, <3>1 DEF Says, HasRow
    <2>7. /\ Says("summary", "collector_mode", "read-only-preflight") /\ Says("summary", "uid", "0")
          /\ Says("summary", "report_format", "1") /\ Says("summary", "not_flash_ready", "true")
          /\ Says("summary", "identity_status", "PASS")
          /\ Says("summary", "selinux_status", "ENFORCING")
      BY <2>1, <2>5, NoRuleBroken
    <2>8. \A key \in {"boot_id", "ksud_path"} :
              \E row \in Said("summary") : row[1] = key /\ row[2] # ""
      <3>1. \A key \in {"boot_id", "ksud_path"} : Get(Table[files["summary"]], key, "") # ""
        BY <2>1, NoRuleBroken
      <3> SUFFICES ASSUME NEW key \in {"boot_id", "ksud_path"}
                   PROVE  \E row \in Said("summary") : row[1] = key /\ row[2] # ""
        OBVIOUS
      <3>2. PICK value : value = Get(Table[files["summary"]], key, "")
        OBVIOUS
      <3>3. value # "" /\ Says("summary", key, value)
        BY <2>5, <3>1, <3>2
      <3> QED
        BY <3>3 DEF Says
    <2>9. Says("properties", "device", "PJZ110") /\ Says("properties", "sdk", "36")
      BY <2>1, <2>6, NoRuleBroken
    <2>10. \E rom \in SupportedRoms : Says("properties", "oplusrom", rom)
      <3>1. Get(Table[files["properties"]], "oplusrom", "") \in SupportedRoms
        BY <2>1, NoRuleBroken
      <3> QED
        BY <2>6, <3>1, EvidenceAssumption
    <2>11. \A key \in RequiredProperties :
              \E row \in Said("properties") : row[1] = key /\ row[2] # ""
      <3>1. \A key \in RequiredProperties : Get(Table[files["properties"]], key, "") # ""
        BY <2>1, NoBlockers
      <3> SUFFICES ASSUME NEW key \in RequiredProperties
                   PROVE  \E row \in Said("properties") : row[1] = key /\ row[2] # ""
        OBVIOUS
      <3>2. PICK value : value = Get(Table[files["properties"]], key, "")
        OBVIOUS
      <3>3. value # "" /\ Says("properties", key, value)
        BY <2>6, <3>1, <3>2
      <3> QED
        BY <3>3 DEF Says
    <2>12. \A command \in RequiredCommands : Says("status", command, "0")
      <3>1. \A command \in RequiredCommands : Get(Table[files["status"]], command, "") = "0"
        BY <2>1, NoBlockers
      <3> SUFFICES ASSUME NEW command \in RequiredCommands PROVE Says("status", command, "0")
        OBVIOUS
      <3>2. Get(Table[files["status"]], command, "") = "0"
        BY <3>1
      <3>3. HasRow(Range(Table[files["status"]]), command, "0")
        BY <3>2, GetSays
      <3> QED
        BY <2>4, <3>3 DEF Says, HasRow
    <2>13. \A mount \in Said("mounts") : mount.root \in ProtectedRoots => mount.modules = {}
      BY <2>1, <2>4, NoBlockers DEF Range
    <2>14. \A path \in {"summary", "properties", "status"} : \A r, s \in Said(path) :
              r[1] = s[1] => r[2] = s[2]
      <3>1. /\ IsInjective(Keys(Table[files["summary"]]))
            /\ IsInjective(Keys(Table[files["properties"]]))
            /\ IsInjective(Keys(Table[files["status"]]))
        BY <2>2 DEF Parses, KeyedRows, PropertyRows
      <3> QED
        BY <2>4, <3>1, OneSaying
    <2> QED
      BY <2>7, <2>8, <2>9, <2>10, <2>11, <2>12, <2>13, <2>14 DEF ReadyIsFit
  <1>2. Init => Evidence
    BY DEF Init, Evidence, Classified, Writing
  <1> QED
    BY <1>1, <1>2, EvidenceStep, ReadInitially, ReadStep, Invariance, PTL DEF Spec
=============================================================================
