SPECIFICATION Spec
CONSTANTS
    p1 = p1
    p2 = p2
    p3 = p3
    c1 = c1
    c2 = c2
    None = None
    Proc <- Three
    Pgid <- Forked
    Binder = {p1, p2, p3}
    First = p3
    Master = {}
    Client = {c1}
    Handler <- AllSelect
    Blocking = TRUE
    UserTimeout = FALSE
    Signals = TRUE
    SemFails = FALSE
    LateFork = FALSE
    ConcurrentStart = FALSE
    JunkLen = FALSE
    ScanFaults = FALSE
    SigpipeFatal = FALSE
    MaxCrashes = 1
INVARIANTS
    OneVersionPerGroup
    SocketInv
    IInv
PROPERTIES
    SessionsSurvive
    ServiceKept
CHECK_DEADLOCK FALSE
