SPECIFICATION FairSpec
CONSTANTS
    Bos = {b1, b2, b3}
    NULL = NULL
    InitialNextFronts = {NULL, Garbage}
    FlipErrors = TRUE
    SpuriousReturns = TRUE
    SignalThreads = {"poster", "other"}
    MaxEvents = 3
INVARIANTS
    OldFlipIsGarbage
    NeverBehind
    ExitRace
PROPERTIES
    SignalEndsProcess
CHECK_DEADLOCK FALSE
