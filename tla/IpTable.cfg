CONSTANTS
    Top = 5
    Value = {v1, v2}
    None = None
    Default = Default
    MaxLines = 4
SPECIFICATION Spec
INVARIANTS
    TypeOK
    Ordered
    LookupExact
    LostOnlyToNested
    Classified
CHECK_DEADLOCK FALSE
