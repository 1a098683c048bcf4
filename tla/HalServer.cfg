SPECIFICATION FairSpec
CONSTANTS
    Fds <- OneFd
    listen_sd = 4
    Msg <- Frame
    MaxWire = 2
    Events <- OneEvent
    Registrations <- SampleActions
    Publishers = {p1}
    Modes <- NotificationTypes
    Foreign <- EveryKind
    MaxRequests = 1
    MaxSeq = 2
    NULL = NULL
    IntBits = 12
    LongBits = 24
    MinDigits = 3
    DEFAULT_SEQ_START_NUMBER = 100
INVARIANTS
    HalTypeOK
    RequestNotDropped
PROPERTIES
    PublishReturns
    ServerStopEndsLoop
CHECK_DEADLOCK FALSE
