CONSTANTS
    DISKBLOCKTOTAL = 9
    FREEBLOCKMAX = 3
    Procs <- Two
    Addr <- MCAddr
    FileWrites = FALSE
    MaxFaults = 1
    MaxReboots = 0
    p1 = p1
    p2 = p2
    a1 = a1
    a2 = a2
SPECIFICATION Spec
SYMMETRY AllAlike
INVARIANTS
    OnePlace
    DiskFollows
    LockGivenBack
CHECK_DEADLOCK FALSE
