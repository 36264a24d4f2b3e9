SPECIFICATION FairSpec
CONSTANTS
    Kinds = {"close", "post", "sql", "large", "badLine", "badHeader", "bare"}
    MaxSent = 2
    MaxAhead = 1
    KeepAlive = TRUE
    MaxServed = 2
    MaxReplies = 1
CHECK_DEADLOCK FALSE
INVARIANTS TypeOK AnswersInOrder OwesNothing EndIsLast
PROPERTIES EveryRequestEnds
