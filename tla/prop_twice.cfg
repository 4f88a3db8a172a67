SPECIFICATION Spec
CONSTANTS
    N = 4
    Proposers = {1}
    Faulty = {4}
    Unstable = {1}
    Refusing = {3}
    Hashes = {1, 2}
    MaxCrashes = 2
INVARIANTS
    SignsOnce
CHECK_DEADLOCK FALSE
