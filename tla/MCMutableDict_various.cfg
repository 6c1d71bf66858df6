\* Applications of several kinds.
SPECIFICATION Spec
CONSTANTS
    r1 = r1
    o1 = o1
    o2 = o2
    o3 = o3
    a = a
    b = b
    v = v
    Null = Null
    Absent = Absent
    NoObj = NoObj
    NoKey = NoKey
    Keys <- TwoKeys
    Values <- OneValue
    FalsyKeys <- NoKeys
    Rows <- OneRow
    Obj <- ThreeObj
    Applications <- Various
SYMMETRY Identities
INVARIANTS
    TypeOK
    NoNestedEditIsLost
    OnlyEditsAreSent
    EditedRowsAreFlagged
    OwnersAreCurrent
    MarksAreOnRoots
