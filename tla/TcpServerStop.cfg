SPECIFICATION Spec
CONSTANTS
    Fd = {f1}
    Conn = {c1}
    Loop = {l1}
    None = none
    IdleClose = FALSE
    AddMayFail = FALSE
    MayStop = TRUE
CHECK_DEADLOCK FALSE
INVARIANTS DestroyCallbackAlive
