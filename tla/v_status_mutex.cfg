SPECIFICATION Spec
CONSTANTS
    p1 = p1
    p2 = p2
    p3 = p3
    c1 = c1
    c2 = c2
    None = None
    Proc <- Three
    Pgid <- Chain
    Binder = {p1, p2, p3}
    First = p1
    Master = {}
    Client = {c1}
    Handler <- AllSelect
    Blocking = TRUE
    UserTimeout = FALSE
    Signals = FALSE
    SemFails = FALSE
    LateFork = FALSE
    ConcurrentStart = FALSE
    JunkLen = FALSE
    ScanFaults = FALSE
    SigpipeFatal = TRUE
    MaxCrashes = 0
INVARIANTS
    StatusMutex
CHECK_DEADLOCK FALSE
