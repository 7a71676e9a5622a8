CONSTANTS
    p1 = p1
    p2 = p2
    w1 = w1
    w2 = w2
    Procs <- MCProcs
    Pass <- MCPass
    NoPass = NoPass
    MAXUSERS = 2
    DISKBLOCKLEN = 3
    MaxCommands = 3
SPECIFICATION Spec
SYMMETRY Alike
INVARIANTS
    LoggedInExists
    FileFollows
    FileUsable
PROPERTY
    PasswordStays
CHECK_DEADLOCK FALSE
