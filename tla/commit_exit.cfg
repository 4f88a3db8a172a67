SPECIFICATION FairSpec
CONSTANTS
    MaxBlock = 2
    MaxLag = 1
    MaxCrashes = 1
    MaxFailures = 0
    MayExit = TRUE
PROPERTIES
    ThreadsExit
CHECK_DEADLOCK FALSE
