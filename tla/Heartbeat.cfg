CONSTANTS
    EC = {e1, e2, e3}
    None = None
    Interval = 0
    Timeout = 1
    Nap = 1
    Word = 64
    MaxTime = 2
    MaxFaults = 2
SPECIFICATION FairSpec
INVARIANTS
    TypeOK
    CleanedOnce
    JudgedIsCurrent

    
CHECK_DEADLOCK FALSE
