\* Applications of several kinds, with two sessions.
SPECIFICATION FairSpec
CONSTANTS
    s1 = s1
    s2 = s2
    r1 = r1
    r2 = r2
    r3 = r3
    v1 = v1
    v2 = v2
    parent = parent
    child = child
    base = base
    derived = derived
    Nobody = Nobody
    NoRow = NoRow
    Sessions <- TwoSessions
    Rows <- ThreeRows
    Values <- TwoValues
    Tables <- TwoTables
    Classes <- TwoClasses
    ClassOf <- TheClasses
    Mapped <- TheTables
    Named <- TheNames
    Checked <- TwoClasses
    Applications <- Various
INVARIANTS
    TypeOK
    FlushedIsVisible
    NoDuplicates
    UnseenIsHandled
PROPERTIES
    WritesBecomeVisible
    ImplementsConsistentRows
