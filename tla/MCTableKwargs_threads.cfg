\* Two threads that open and close contexts as they like.
SPECIFICATION Spec
CONSTANTS
    t1 = t1
    t2 = t2
    partitioned = partitioned
    clustered = clustered
    on = on
    off = off
    Threads <- TwoThreads
    Options <- TwoOptions
    Settings <- TwoSettings
    Unset = Unset
    MaxPatches = 3
    Nested = FALSE
INVARIANT TablesGetOptions
