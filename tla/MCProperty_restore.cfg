SPECIFICATION Spec
CONSTANTS
    k1 = k1
    k2 = k2
    k3 = k3
    Stages <- TheStages
    AllStages <- TheOrder
    PlanRows <- ThreeRows
    Keys = {k1, k2, k3}
    Plans = {p1}
    NoPlan = noplan
    Stock = stock
    Others = {other}
    Faults = {}
    Env = {"reboot"}
    Windows = {}
    MaxBoot = 2
PROPERTY RollbackRestores
