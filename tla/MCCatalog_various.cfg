\* Applications that create, inspect, read and copy tables.
SPECIFICATION Spec
CONSTANTS
    t = t
    u = u
    id = id
    x = x
    doc = doc
    other = other
    NoSchema = NoSchema
    NoRelation = NoRelation
    NotAsked = NotAsked
    Doc <- doc
    Names <- TwoNames
    Columns <- TwoColumns
    Schemas <- TwoSchemas
    Applications <- Various
    MaxChanges = 2
INVARIANTS
    TypeOK
    AnswersAreTrue
    AllAreCreated
    NothingIsRejected
PROPERTIES
    CopiesAreEqual
    CopiesAreMade
