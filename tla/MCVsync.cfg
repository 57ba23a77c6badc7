SPECIFICATION FairSpec
CONSTANTS
    Callers = {u1, u2}
    Callbacks = {cb}
    NoCallback = NoCallback
    Period = 2
    SleepErrors = {0, 2, 3}
    MayStop = TRUE
    MaxTime = 8
INVARIANTS
    NextVsyncNear
    AtMostOneLate
PROPERTIES
    StampsIncrease
    EnabledFires
    StopJoins
CHECK_DEADLOCK FALSE
