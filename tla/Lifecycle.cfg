CONSTANTS
    NumWorkers = 2
    Service = {s1, s2}
    Kind = {"event", "ready", "command"}
    Client = {c1}
    MaxEvents = 2
SPECIFICATION FairSpec
INVARIANTS
    TypeOK
    PoolDrains
    UsersGone
    RemovedOnce
PROPERTIES
    CloseReturns
    EventsSent
CHECK_DEADLOCK FALSE
