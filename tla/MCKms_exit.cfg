SPECIFICATION Spec
CONSTANTS
    Bos = {b1, b2, b3}
    NULL = NULL
    InitialNextFronts = {NULL}
    FlipErrors = TRUE
    SpuriousReturns = FALSE
    SignalThreads = {"poster", "other"}
    MaxEvents = 3
INVARIANTS
    NoFlipPendingAtExit
CHECK_DEADLOCK FALSE
