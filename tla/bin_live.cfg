CONSTANTS
    a = a
    b = b
    c = c
    d = d
    Nodes <- FourNodes
    Faulty <- Nobody
    Unstable <- OnlyD
    MaxRound = 1
    CommonCoinRound = 4
    Inputs <- OneOrTwoTrue
    Coins <- ChangingCoin
    ByzMessages <- ByzNothing
    MaxRestarts = 1
SPECIFICATION FairSpec
CHECK_DEADLOCK FALSE
INVARIANT BVJustification
PROPERTY UnanimousTermination
ACTION_CONSTRAINT InOrder
