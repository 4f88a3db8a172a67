SPECIFICATION FairSpec
CONSTANTS
    NodeCount = 4
    LastMessage = 3
    RoundOf <- Rounds001
    Block = 3
    FirstBlock = 2
    LastBlock = 5
    HWM = 1
    MaxDelayed = 2
    MaxDeferred = 2
    MaxKnown = 3
    MaxActive = 2
    KeyBefore <- OneDigit
    FirstKey = 0
    MaxFaults = 2
ACTION_CONSTRAINT FewOrders
INVARIANTS
    TypeOK
    StillAccepted
    NoneLost
PROPERTY
    EventuallyDelivered
    ImplementsDelivery
CHECK_DEADLOCK FALSE
