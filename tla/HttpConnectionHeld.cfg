SPECIFICATION Spec
CONSTANTS
    Kinds = {"sql"}
    MaxSent = 1
    MaxAhead = 1
    KeepAlive = TRUE
    MaxServed = 2
    MaxReplies = 2
CHECK_DEADLOCK FALSE
INVARIANTS HeldUntilResult
