CONSTANTS
    a = a
    b = b
    c = c
    d = d
    Nodes <- FourNodes
    Faulty <- Nobody
    Unstable <- Nobody
    MaxRound = 2
    CommonCoinRound = 4
    Inputs <- AAndDFalse
    Coins <- ChangingCoin
    ByzMessages <- ByzNothing
    MaxRestarts = 0
SPECIFICATION FairSpec
ACTION_CONSTRAINT AUXLate
CHECK_DEADLOCK FALSE
PROPERTY DecisionSpreads
