SPECIFICATION FairSpec
CONSTANTS
    MaxThreads = 2
    MaxGiven = 1
    MaxStarts = 1
    LoopMayFail = FALSE
CHECK_DEADLOCK FALSE
PROPERTIES StopAlwaysReturns
