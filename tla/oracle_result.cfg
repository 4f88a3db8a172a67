SPECIFICATION FairSpec
CONSTANTS
    Nodes = {1, 2, 3, 4}
    Honest = {1, 2, 3}
    Client = 1
    Receipts = {r1, r2}
    Values = {1, 2}
    Other = r2
    MapSize = 1
    None = none
    MaxSubmits = 3
    MaxLost = 1
    MaxCrashes = 1
INVARIANTS
    TypeOK
    CountMatches
    ResultBacked
PROPERTIES
    EventuallyReady
CONSTRAINT OtherPushes
CHECK_DEADLOCK FALSE
