SPECIFICATION Spec
CONSTANTS
    kCheapPrepend = 1
    kInitialSize = 2
    ExtraSize = 2
    MaxBytes = 9
INVARIANTS TypeOK Contents MemoryBounded
