CONSTANTS
    c1 = c1
    c2 = c2
    c3 = c3
    e1 = e1
    e2 = e2
    Client = {c1, c3}
    EC = {e1, e2}
    Home <- TwoHomes
    Agent = {a1, a2}
    None = None
    MaxStreams = 1
    MaxSubs = 2
    MaxTokens = 1
    MaxFaults = 2
    MaxCrashes = 1
SPECIFICATION RegistrySpec
SYMMETRY SymmAgents
INVARIANTS
    BridgeNeverLeaks
    NoDanglingStream
CHECK_DEADLOCK FALSE
