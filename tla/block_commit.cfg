SPECIFICATION FairSpec
CONSTANTS
    N = 4
    Faulty <- Four
    Unstable <- Nobody
    BlockID = 3
    Seed = 2
    Proven <- OneTwoFour
    ByzShares <- LyingShare
    Failing <- One
    MaxRestarts = 0
ACTION_CONSTRAINT AllInOrder
INVARIANTS
    WinnerHeld
    DefaultJustified
PROPERTIES
    ImplementsBlockAgreement
    EventuallyCommitted
CHECK_DEADLOCK FALSE
