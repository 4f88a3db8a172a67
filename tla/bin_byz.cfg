CONSTANTS
    a = a
    b = b
    c = c
    d = d
    Nodes <- FourNodes
    Faulty <- OnlyD
    Unstable <- Nobody
    MaxRound = 1
    CommonCoinRound = 1
    Inputs <- OnlyCFalse
    Coins <- ChangingCoin
    ByzMessages <- ByzZeroThenFalse
    MaxRestarts = 0
SPECIFICATION Spec
CHECK_DEADLOCK FALSE
INVARIANTS TypeOK Agreement NoVotesAhead OneAUXPerRound DecisionLocks
PROPERTY ImplementsAgreement
ACTION_CONSTRAINT CStalls
