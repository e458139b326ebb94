SPECIFICATION Spec
CONSTANTS
    Plans <- ThePlans
    NoPlan = noplan
    Faults = {}
    MaxBoots = 2
    MaxFaults = 0
    MaxRecoveryOff = 0
CHECK_DEADLOCK FALSE
INVARIANT OptionalPlanHarmless
