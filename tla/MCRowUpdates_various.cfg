SPECIFICATION Spec
CONSTANTS
    x = x
    ts = ts
    data = data
    label = label
    a = a
    b = b
    empty = empty
    v = v
    Null = Null
    Absent = Absent
    Rows <- TwoRows
    Columns <- TwoColumns
    Stamped <- OneStamped
    Data = data
    Label = label
    Keys <- ThreeKeys
    FalsyKeys <- TheEmptyKey
    Values <- OneValue
    Applications <- Various
INVARIANTS
    TypeOK
    HeldIsStored
    NoneIsRefused
PROPERTIES
    EditsArrive
    OthersSurvive
    RowsAreWhole
    ImplementsEditedRows
