SPECIFICATION Spec
CONSTANTS
    Fds <- TwoFds
    listen_sd = 4
    Msg <- Frame
    MaxWire = 2
    Events <- OneEvent
    Registrations <- SubscribeOnly
    Publishers = {p1}
    Modes <- AsyncAndTimed
    Foreign <- NoRequests
    MaxRequests = 0
    MaxSeq = 2
    NULL = NULL
    IntBits = 12
    LongBits = 24
    MinDigits = 3
    DEFAULT_SEQ_START_NUMBER = 100
INVARIANTS
    TablesAgree
    RegistryIsOwn
    AckBeforeReturn
    SkippedWaitIsReported
CHECK_DEADLOCK FALSE
