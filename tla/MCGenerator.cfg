SPECIFICATION Spec
CONSTANTS
    p1 = p1
    p2 = p2
    Procs = {p1, p2}
    CredentialWords = {"keyguard"}
    CameraWords = {"camera"}
    ProtectedKeys = {3}
    LongValues = {}
    Absent = absent
    Baseline <- TheBaseline
    TargetOrder <- TheOrder
    PermissionFiles = {"perms"}
    ProhibitedTargets = {"camera-file"}
    CatalogsOf <- TheCatalogs
    Selections <- TheSelections
    Live <- TheLive
    Old = old
    Nothing = nothing
    Torn = torn
    Faults = {"edit", "publish", "move", "install", "restore", "rmtree"}
    Env = {"kill", "interrupt", "capture"}
    MaxFaults = 2
CHECK_DEADLOCK FALSE
INVARIANT TypeOK
INVARIANT ProtectedSurvive
INVARIANT FailureKeepsOutput
INVARIANT PlanRuns
INVARIANT OutputIsReported
PROPERTY PublishedSurvives
