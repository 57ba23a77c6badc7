SPECIFICATION FairSpec
CONSTANTS
    Threads = {t1, t2, t3}
    Streams = {s1, s2}
    NULL = NULL
INVARIANTS
    PcmMatchesStandby
    WriteHasPcm
PROPERTIES
    CallReturns
