SPECIFICATION Spec
CONSTANTS
    Primary = Primary
    Displays = {Primary, Other}
    Targets = {}
    NoTarget = NoTarget
    MaxLayerId = 2
    Threads = {t1, t2}
    Clients = {c1, c2}
    NoClient = NoClient
SYMMETRY Symmetry
INVARIANTS
    PresentGated
    AnswerFits
    SettledWereTold
    LayersAccounted
CHECK_DEADLOCK FALSE
