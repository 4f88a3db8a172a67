SPECIFICATION FairSpec
CONSTANTS
    N = 4
    Proposers = {1, 4}
    Faulty = {4}
    Unstable = {1, 2}
    Refusing = {}
    Hashes = {1, 2}
    MaxCrashes = 1
INVARIANTS
    TypeOK
    ProofsAgree
    ProofBacked
    SignsOnce
    HeldMatchesProof
PROPERTY
    EventuallyProven
CHECK_DEADLOCK FALSE
