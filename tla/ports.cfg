SPECIFICATION Spec
CONSTANTS
    pa = pa
    pb = pb
    c1 = c1
    c2 = c2
    r1 = r1
    r2 = r2
    None = None
    Port = {pa, pb}
    Taken = {pb}
    Client = {c1}
    Requester = {r1}
    Modes <- Three
    Asks <- OneEach
    Doors <- Heir
    Closes = TRUE
    OpensFiles = TRUE
    MaxFd = 11
INVARIANTS
    TypeOK
    ListsTrue
PROPERTIES
    NothingSpurious
    NothingMissed
    CountRight
    EndsDone
CHECK_DEADLOCK FALSE
