SPECIFICATION Spec
CONSTANTS
    c1 = c1
    c2 = c2
    NULL = NULL
    Callers <- OneCaller
    Msg <- Frame
    SEND_MSG_TICKER_TIMEOUT = 2
    MaxReqId = 101
    Serialized = TRUE
    MaxWire = 2
    IntBits = 16
    LongBits = 16
    MinDigits = 8
    DEFAULT_SEQ_START_NUMBER = 100
INVARIANTS
    ReplyIsOwn
CHECK_DEADLOCK FALSE
