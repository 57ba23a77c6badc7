SPECIFICATION Spec
CONSTANTS
    Threads = {t1, t2}
    MaxClients = 3
    NULL = NULL
    Remote = Remote
INVARIANTS
    CreatedAfterDestroyed
CHECK_DEADLOCK FALSE
