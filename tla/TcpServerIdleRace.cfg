SPECIFICATION Spec
CONSTANTS
    Fd = {f1}
    Conn = {c1}
    Loop = {l1}
    None = none
    IdleClose = TRUE
    AddMayFail = FALSE
    MayStop = FALSE
CHECK_DEADLOCK FALSE
INVARIANTS CloseOnLiveChannel
