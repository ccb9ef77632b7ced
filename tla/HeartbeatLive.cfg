CONSTANTS
    EC = {e1, e2}
    None = None
    Interval = 1
    Timeout = 3
    Nap = 1
    Word = 64
    MaxTime = 8
    MaxFaults = 0
SPECIFICATION Spec
INVARIANTS
    OnlyExpiredRemoved
CHECK_DEADLOCK FALSE
