SPECIFICATION FairSpec
CONSTANTS
    Fd = {f1, f2}
    Conn = {c1, c2, c3}
    Loop = {l1}
    None = none
    IdleClose = TRUE
    AddMayFail = TRUE
    MayStop = TRUE
CHECK_DEADLOCK FALSE
ACTION_CONSTRAINT FirstUseInOrder
INVARIANTS TypeOK ChannelConnAlive PendingExact FdOwnedOnce DeleteHitsOwn MetricsExact
PROPERTIES CloseCompletes
