SPECIFICATION FairSpec
CONSTANTS
    p1 = p1
    p2 = p2
    p3 = p3
    c1 = c1
    c2 = c2
    None = None
    Proc <- Two
    Pgid <- Chain
    Binder = {p1, p2}
    First = p1
    Master = {}
    Client = {c1}
    Handler <- AllPoll
    Blocking = FALSE
    UserTimeout = TRUE
    Signals = FALSE
    SemFails = FALSE
    LateFork = FALSE
    ConcurrentStart = FALSE
    JunkLen = FALSE
    ScanFaults = FALSE
    SigpipeFatal = TRUE
    MaxCrashes = 0
PROPERTIES
    OldVersionEnds
CHECK_DEADLOCK FALSE
