SPECIFICATION FairSpec
CONSTANTS
    NRows = 2
    Plans = {p1}
    Ids = {i1, i2, i3}
    BaseId = base
    NoId = none
    NoPlan = noplan
    Baseline = stock
    Others = {other}
    Faults <- PlatformFaults
    Env = {"foreign", "reboot", "recovery-on"}
    Windows = {}
    MaxForeign = 1
    MaxBoot = 2
    MaxTx = 2
INVARIANT TypeOK
PROPERTY LayersAccountedFor
PROPERTY RolledBackIsBaseline
PROPERTY ApplySparesForeign
PROPERTY FailureSettles
