SPECIFICATION Spec
CONSTANTS
    NRows = 2
    Plans = {p1, p2}
    Ids = {i1,i2,i3}
    BaseId = base
    NoId = none
    NoPlan = noplan
    Baseline = stock
    Others = {stock}
    Faults = {"bind", "umount", "commit", "reverse", "flag"}
    Env <- AllEnv
    Windows <- AllWindows
    MaxForeign = 1
    MaxBoot = 2
    MaxTx = 2
SYMMETRY Symmetry
VIEW Unexplained
INVARIANT CommitDescribesJournal
INVARIANT NoStacking
PROPERTY AppliedMeansInPlace
