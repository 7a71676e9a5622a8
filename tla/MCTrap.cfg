CONSTANTS
    Val = {7, 64}
    SWAPAREAADDR = 99
    Codes = {1, 8, 17, 63, 73}
    IntRange = 64
    CharRange = 4
    MaxTicks = 2
    MaxTyped = 2
SPECIFICATION FairTrapSpec
INVARIANTS RegistersSurvive CallsOnce TicksCounted
PROPERTIES TickServed
CHECK_DEADLOCK FALSE
