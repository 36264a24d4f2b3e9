SPECIFICATION FairSpec
CONSTANTS
    Fd = {f1, f2}
    Remote = {r1}
    Owner = owner
    WakeFd = wakeFd
    None = none
    WakeCap = 1
    MaxCalls = 4
    EarlyShutdown = TRUE
    MayFail = TRUE
CHECK_DEADLOCK FALSE
INVARIANTS TypeOK NoLostWakeup TaskFIFO CallbackOnce WriteOnLiveChannel
PROPERTIES WorkHandled ShutdownStops
