SPECIFICATION Spec
CONSTANTS
    Table <- TheTable
    Allowlisted = {"device", "sdk", "oplusrom", "display"}
    RequiredProperties = {"device", "sdk", "oplusrom"}
    RequiredCommands = {"ksud"}
    OptionalCommands = {"features"}
    ProtectedRoots = {"/vendor"}
    SupportedRoms = {"V16.1.0"}
    Archives <- TheArchives
    Replacements <- TheReplacements
    Sidecars <- TheSidecars
    Manifest <- TheManifest
    MaxMembers = 11
    MaxFileSize = 3
    MaxTotalSize = 11
    Nothing = nothing
    Torn = torn
    OldAnalysis = old
    NewAnalysis = new
    Faults = {"stage", "move", "install", "sync", "drop", "remove", "restore"}
    MaxFaults = 2
    MaxChanges = 1
CHECK_DEADLOCK FALSE
INVARIANT TypeOK
INVARIANT AcceptedIffWellFormed
INVARIANT ReadyIsFit
INVARIANT FailureKeepsOutput
PROPERTY OldOutputSurvives
