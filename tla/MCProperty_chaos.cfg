SPECIFICATION Spec
CONSTANTS
    k1 = k1
    k2 = k2
    k3 = k3
    Stages <- TheStages
    AllStages <- TheOrder
    PlanRows <- ServiceRows
    Keys = {k2, k3}
    Plans = {p1, p2}
    NoPlan = noplan
    Stock = stock
    Others = {other}
    Faults = {"set", "restore", "commit", "reverse", "flag"}
    Env <- AllEnv
    Windows = {}
    MaxBoot = 2
INVARIANT OldValuesAreNotOurs
PROPERTY UndoSparesForeign
