SPECIFICATION FairSpec
CONSTANTS
    MaxThreads = 3
    MaxGiven = 2
    MaxStarts = 1
    LoopMayFail = TRUE
CHECK_DEADLOCK FALSE
INVARIANTS TypeOK LoopsReady RoundRobin
PROPERTIES StopReturns
