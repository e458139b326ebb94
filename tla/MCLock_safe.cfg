SPECIFICATION FairSpec
CONSTANTS
    a = a
    b = b
    c = c
    Procs = {a, b, c}
    Pid <- ReusedPid
    Absent = absent
    Unstamped = unstamped
    Races = {}
    Env <- AllEnv
    MaxBoot = 2
CHECK_DEADLOCK FALSE
INVARIANT TypeOK
INVARIANT MutualExclusion
PROPERTY ImplementsMutex
INVARIANT AloneIsServed
PROPERTY EveryCommandEnds
