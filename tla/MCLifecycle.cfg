SPECIFICATION Spec
CONSTANTS
    Plans <- ThePlans
    NoPlan = noplan
    Faults = {"apply", "undo", "mount", "detach", "verify", "count", "marker", "flag"}
    MaxBoots = 4
    MaxFaults = 1
    MaxRecoveryOff = 1
CHECK_DEADLOCK FALSE
INVARIANT TypeOK
INVARIANT RecoverySuppresses
INVARIANT BootLoopStops
INVARIANT SuccessfulBootIsWhole
INVARIANT RecoveryLeavesNothing
