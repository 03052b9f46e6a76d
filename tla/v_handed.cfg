SPECIFICATION Spec
CONSTANTS
    pa = pa
    pb = pb
    c1 = c1
    c2 = c2
    r1 = r1
    r2 = r2
    None = None
    Port = {pa, pb}
    Taken = {pb}
    Client = {c1}
    Requester = {r1, r2}
    Modes <- Epoll
    Asks <- AnyAsk
    Doors <- Heir
    Closes = FALSE
    OpensFiles = FALSE
    MaxFd = 12
INVARIANTS
    HandedRight
CHECK_DEADLOCK FALSE
