\* Applications of several kinds.
SPECIFICATION Spec
CONSTANTS
    s1 = s1
    s2 = s2
    a = a
    b = b
    empty = empty
    v = v
    Null = Null
    Absent = Absent
    Sessions <- TwoSessions
    Keys <- ThreeKeys
    FalsyKeys <- TheEmptyKey
    Values <- OneValue
    Applications <- Various
INVARIANTS
    TypeOK
    NoEditIsLost
    OthersAreLeftAlone
    ViewIsStored
PROPERTIES
    ImplementsPartialUpdate
