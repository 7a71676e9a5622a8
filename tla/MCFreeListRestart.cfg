CONSTANTS
    DISKBLOCKTOTAL = 7
    FREEBLOCKMAX = 2
    Procs <- One
    Addr <- MCAddr
    FileWrites = TRUE
    MaxFaults = 2
    MaxReboots = 1
    p1 = p1
    p2 = p2
    a1 = a1
    a2 = a2
SPECIFICATION Spec
SYMMETRY Alike
INVARIANTS
    RestartFinds
    NoSecondOwner
CHECK_DEADLOCK FALSE
