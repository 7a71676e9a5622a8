CONSTANTS
    p1 = p1
    p2 = p2
    fileA = fileA
    fileB = fileB
    Procs <- MCProcs
    Name <- MCName
    Junk = Junk
    NoName = NoName
    DIRENTRIES = 2
    DISKBLOCKLEN = 1
    DISKBLOCKTOTAL = 4
    MaxCommands = 4
SPECIFICATION Spec
SYMMETRY Alike
INVARIANT SpaceReturned
CHECK_DEADLOCK FALSE
