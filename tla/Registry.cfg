CONSTANTS
    c1 = c1
    c2 = c2
    c3 = c3
    e1 = e1
    e2 = e2
    Client = {c1, c2, c3}
    EC = {e1, e2}
    Home <- TwoHomes
    Agent = {a1, a2}
    None = None
    MaxStreams = 1
    MaxSubs = 3
    MaxTokens = 1
    MaxFaults = 0
    MaxCrashes = 0
SPECIFICATION RegistrySpec
SYMMETRY SymmHomes
INVARIANTS
    RegistryTypeOK
    BridgeCountExact
CHECK_DEADLOCK FALSE
