SPECIFICATION Spec
CONSTANTS
    p1 = p1
    p2 = p2
    p3 = p3
    c1 = c1
    c2 = c2
    None = None
    Proc <- Three
    Pgid <- Forked
    Binder = {p1, p3}
    First = p1
    Master = {}
    Client = {}
    Handler <- AllSelect
    Blocking = TRUE
    UserTimeout = FALSE
    Signals = TRUE
    SemFails = TRUE
    LateFork = TRUE
    ConcurrentStart = FALSE
    JunkLen = FALSE
    ScanFaults = FALSE
    SigpipeFatal = FALSE
    MaxCrashes = 0
INVARIANTS
    SocketInv
    NoneStranded
PROPERTIES
    ServiceKept
CHECK_DEADLOCK FALSE
