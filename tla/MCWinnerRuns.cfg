CONSTANTS
    NPROC = 3
    NQENT = 5
    QUANTUM = 2
    CLKTICKS_PER_SEC = 3
    ULONG = 8
    Priorities <- MCPriorities
    LeftOvers <- MCLeftOvers
    ResidueOfZero <- MCResidueOfZero
    PAGES = 6
    UserPages = 1
    MaxTime = 1
    MaxSuicides = 1
SPECIFICATION Spec
INVARIANT
    WinnerRuns
CHECK_DEADLOCK FALSE
