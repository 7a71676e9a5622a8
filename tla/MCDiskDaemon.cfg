CONSTANTS
    BLOCKNUM = 2
    Val = {v1, v2}
    Zero = Zero
    Junk = Junk
    MAXTRIES = 2
    DOPEN_RETRY = 4
    MaxText = 1
    MaxRequests = 2
    MaxRestarts = 1
SPECIFICATION FairSpec
INVARIANTS
    Confirmed
    InStep
    ReadsRight
PROPERTY
    Answered
CHECK_DEADLOCK FALSE
