\* Several new rows in one flush.
SPECIFICATION Spec
CONSTANTS
    s1 = s1
    s2 = s2
    r1 = r1
    r2 = r2
    r3 = r3
    v1 = v1
    v2 = v2
    parent = parent
    child = child
    base = base
    derived = derived
    Nobody = Nobody
    NoRow = NoRow
    Sessions <- OneSession
    Rows <- ThreeRows
    Values <- TwoValues
    Tables <- TwoTables
    Classes <- TwoClasses
    ClassOf <- TheClasses
    Mapped <- TheTables
    Named <- TheNames
    Checked <- TwoClasses
    Applications <- Batching
INVARIANTS
    ValuesAreUnique
