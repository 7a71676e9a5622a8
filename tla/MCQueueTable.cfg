CONSTANTS
    NPROC = 3
    NQENT = 8
    StrayPid <- MCStrayPid
    BadHandle <- MCBadHandle
SPECIFICATION Spec
INVARIANTS
    AllLinked
    Separate
PROPERTY
    FifoSpec
CHECK_DEADLOCK FALSE
