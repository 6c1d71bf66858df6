\* A column of each type, in one or two sessions, next to other clients or not.
SPECIFICATION Spec
CONSTANTS
    s1 = s1
    s2 = s2
    NaiveZone = NaiveZone
    NoZone <- NaiveZone
    Micros = 2
    Day = 2
    Items <- Numbers
    Single <- Rounded
    Dimensions = 2
    Sessions <- TwoSessions
    Applications <- Various
    MaxLength = 2
INVARIANTS
    TypeOK
    WritesAreTrue
    NoChangeIsLost
    IsReadable
    NumbersAreAccepted
PROPERTIES
    ReadsAreTrue
    ImplementsSharedColumn
