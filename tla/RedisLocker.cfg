CONSTANTS
    Proc = {p1, p2}
    LockTimeout = 4
    TryTime = 1
    Skew = 1
    Span = 1
    MaxTime = 7
    NIL = NIL
SPECIFICATION FairSpec
INVARIANTS
    TypeOK
    MutualExclusion
    HolderKeepsKey
    StaleKeyExpires
    LockInv
PROPERTIES
    ImplementsLockService
    LockReturns
