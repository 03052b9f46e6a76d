SPECIFICATION FairSpec
CONSTANTS
    p1 = p1
    p2 = p2
    p3 = p3
    c1 = c1
    c2 = c2
    None = None
    Proc <- Three
    Pgid <- Forked
    Binder = {p1, p3}
    First = p1
    Master = {p2}
    Client = {c1}
    Handler <- EpollThenPoll
    Blocking = FALSE
    UserTimeout = TRUE
    Signals = FALSE
    SemFails = FALSE
    LateFork = FALSE
    ConcurrentStart = FALSE
    JunkLen = FALSE
    ScanFaults = FALSE
    SigpipeFatal = TRUE
    MaxCrashes = 0
INVARIANTS
    GroupInv
PROPERTIES
    OldVersionEnds
    UpdateCompletes
    ClientsAccepted
CHECK_DEADLOCK FALSE
