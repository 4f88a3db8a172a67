SPECIFICATION Spec
CONSTANTS
    v1 = v1
    v2 = v2
    t = t
    u = u
    Keys = {once, again}
    Overwritten = {again}
    Values <- TwoValues
    Blocks = {b}
    Signers = {1, 2}
    Writers <- TwoThreads
    Shards = 2
    MaxDBSize = 1
    LastIndex = 4
    MaxFaults = 1
SYMMETRY Symmetry
INVARIANTS
    TypeOK
    CountMatches
    ReadsLatest
PROPERTIES
    WrittenOnce
    ImplementsStore
CHECK_DEADLOCK FALSE
