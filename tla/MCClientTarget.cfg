SPECIFICATION Spec
CONSTANTS
    Primary = Primary
    Displays = {Primary, Other}
    Targets = {h1, h2, h3}
    NoTarget = NoTarget
    MaxLayerId = 0
    Slots = {s1, s2}
    Buffers = {b1, b2}
    NoBuffer = NoBuffer
    Fds = {f1, f2}
    NoFd = NoFd
    MaxClients = 2
INVARIANTS
    PostsWanted
    SlotsAccounted
    FencesSettled
PROPERTIES
    ForeignFdsKept
