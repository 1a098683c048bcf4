SPECIFICATION AllocSpec
CONSTANTS
    t1 = t1
    t2 = t2
    NULL = NULL
    Threads <- TwoThreads
    Serialized = TRUE
    Window = 3
    IntBits = 12
    LongBits = 24
    MinDigits = 3
    DEFAULT_SEQ_START_NUMBER = 100
INVARIANTS
    AllocTypeOK
    KeysDistinct
