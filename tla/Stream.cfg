SPECIFICATION StreamFairSpec
CONSTANTS
    NULL = NULL
    Sides <- BothSides
    Builds <- AllBuilds
    Msgs <- TwoMsgs
    SocketBuffer = 7
    MAX_BUFFER_SIZE = 7
INVARIANTS
    StreamTypeOK
    SendsWithinMessage
    DeliveredAreEnvelopes
    WholeBufferDelivered
PROPERTIES
    ParseReturns
