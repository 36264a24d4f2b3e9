SPECIFICATION Spec
CONSTANTS
    Fd = {0, 1, 2}
    NoFd = noFd
    MaxNode = 2
    MaxSize = 2
CHECK_DEADLOCK FALSE
INVARIANTS TablesMatchMap
PROPERTIES NoStaleEvent Implements
