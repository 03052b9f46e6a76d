SPECIFICATION Spec
CONSTANTS
    p1 = p1
    p2 = p2
    p3 = p3
    c1 = c1
    c2 = c2
    None = None
    Proc <- Three
    Pgid <- Forked
    Binder = {p1, p3}
    First = p1
    Master = {}
    Client = {c1}
    Handler <- AllPoll
    Blocking = TRUE
    UserTimeout = TRUE
    Signals = TRUE
    SemFails = FALSE
    LateFork = FALSE
    ConcurrentStart = TRUE
    JunkLen = TRUE
    ScanFaults = TRUE
    SigpipeFatal = TRUE
    MaxCrashes = 1
INVARIANTS
    TypeOK
    IInv
CHECK_DEADLOCK FALSE
