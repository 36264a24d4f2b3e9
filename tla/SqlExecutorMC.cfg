SPECIFICATION FairSpec
CONSTANTS
    Job = {j1, j2, j3}
    PingBeforeUse = TRUE
    MaxStarts = 2
    MaxOutages = 2
    MaxWrites = 2
CHECK_DEADLOCK FALSE
ACTION_CONSTRAINT SubmittedInOrder
INVARIANTS TypeOK JobsInOrder OneFailurePerOutage SessionClean AllOrNothing
PROPERTIES Implements StopReturns EveryJobAnswered
