SPECIFICATION Spec
CONSTANTS
    N = 4
    Faulty <- Nobody
    Unstable <- Three
    BlockID = 3
    Seed = 1
    Proven <- OneTwoFour
    ByzShares <- NoShares
    Failing <- Nobody
    MaxRestarts = 1
ACTION_CONSTRAINT SlowRestarts
INVARIANTS
    TypeOK
    SharesAgree
CHECK_DEADLOCK FALSE
