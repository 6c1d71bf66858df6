\* Sessions that flush before they commit.
SPECIFICATION Spec
CONSTANTS
    s1 = s1
    s2 = s2
    a = a
    b = b
    empty = empty
    v = v
    Null = Null
    Absent = Absent
    Sessions <- TwoSessions
    Keys <- ThreeKeys
    FalsyKeys <- TheEmptyKey
    Values <- OneValue
    Applications <- Flushing
INVARIANTS
    OnlyEditsReachStore
