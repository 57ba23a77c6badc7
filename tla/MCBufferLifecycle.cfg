SPECIFICATION MCSpec
CONSTANTS
    Performers = {p1, p2}
    Mappers = {m1}
    SecondPerformer = p2
    NoDrm = NoDrm
    NoThread = NoThread
    MaxDrms = 2
    AllocThreads = {a1}
    Names = {n1, n2}
    Addresses = {h1}
    NoHandle = NoHandle
    MaxCount = 2
    MaxBuffers = 2
INVARIANTS
    RefsAccounted
    NamesHeld
    OneDrm
PROPERTIES
    DrmKept
    BufferReclaimed
CHECK_DEADLOCK FALSE
