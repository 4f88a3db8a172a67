SPECIFICATION FairSpec
CONSTANTS
    MaxBlock = 3
    MaxLag = 2
    MaxCrashes = 2
    MaxFailures = 1
    MayExit = TRUE
INVARIANTS
    TypeOK
    Pipeline
    OneProcesses
PROPERTIES
    ExecutedInOrder
    EventuallyExecuted
    
CHECK_DEADLOCK FALSE
