SPECIFICATION FairSpec
CONSTANTS
    Threads = {t1, t2}
    MaxClients = 3
    NULL = NULL
    Remote = Remote
INVARIANTS
    NeverCallsFreed
    NeverCallsNull
    KeepsVsync
    LiveClientKnown
PROPERTIES
    CreateClientReturns
    DestructionEnds
CHECK_DEADLOCK FALSE
