CONSTANTS
    Caller = {k1, k2}
    None = None
    QueueSize = 1
    Timeout = 0
    Tries = 2
    Word = 64
    MaxAge = 1
SPECIFICATION FairSpec
INVARIANTS
    TypeOK
    NoLostCall
PROPERTIES
    CallsSettle
