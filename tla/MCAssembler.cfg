SPECIFICATION Spec
CONSTANTS
    Targets = {"a", "b"}
    TargetOrder <- TheOrder
    Generations = {"g1", "g2", "g3", "g4"}
    BaselineOf <- TheBaselines
    ContentOf <- TheContents
    PlanOf <- ThePlans
    Devices = {"d1", "d2"}
    PropertiesOf <- TheProperties
    Required = {"device"}
    Altered = "altered"
    NoPlan = "none"
    Nothing = nothing
    Torn = torn
    OldPackage = old
    NewPackage = new
    Faults = {"stage", "move", "move-zip", "install", "install-zip", "undo", "drop"}
    Env = {"kill", "interrupt", "regenerate", "alter", "profile", "analysis"}
    MaxChanges = 2
    MaxFaults = 2
CHECK_DEADLOCK FALSE
INVARIANT TypeOK
INVARIANT MountedPayloadIsAudited
INVARIANT QuietPackageIsOneGeneration
INVARIANT PairMatches
PROPERTY OldPairSurvives
