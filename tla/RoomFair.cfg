CONSTANTS
    c1 = c1
    c2 = c2
    c3 = c3
    e1 = e1
    e2 = e2
    Client = {c1, c2}
    EC = {e1}
    Home <- OneHome
    Agent = {a1, a2}
    None = None
    MaxStreams = 1
    MaxSubs = 1
    MaxTokens = 1
    MaxFaults = 0
    MaxCrashes = 0
SPECIFICATION FairSpec
PROPERTIES
    EventuallyReleased
    EventuallyShown
CHECK_DEADLOCK FALSE
