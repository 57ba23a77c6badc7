SPECIFICATION Spec
CONSTANTS
    Bos = {b1, b2, b3}
    NULL = NULL
    InitialNextFronts = {NULL, Garbage}
    FlipErrors = TRUE
    SpuriousReturns = FALSE
    SignalThreads = {}
    MaxEvents = 3
INVARIANTS
    WaitsForPendingFlip
