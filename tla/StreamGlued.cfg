SPECIFICATION StreamSpec
CONSTANTS
    NULL = NULL
    Sides <- ClientOnly
    Builds <- StrictBuilds
    Msgs <- TwoMsgs
    SocketBuffer = 10
    MAX_BUFFER_SIZE = 10
INVARIANTS
    GluedFramesDelivered
