\* Two threads whose contexts nest, three contexts deep.
SPECIFICATION Spec
CONSTANTS
    t1 = t1
    t2 = t2
    partitioned = partitioned
    clustered = clustered
    on = on
    off = off
    Threads <- TwoThreads
    Options <- TwoOptions
    Settings <- TwoSettings
    Unset = Unset
    MaxPatches = 3
    Nested = TRUE
INVARIANTS
    TypeOK
    TablesGetOptions
PROPERTY ImplementsScopedOptions
