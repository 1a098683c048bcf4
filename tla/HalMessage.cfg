SPECIFICATION Spec
CONSTANTS
    NULL = NULL
    Files <- SomeFiles
    ConfigPaths <- SomePaths
    Names <- OneName
    Values <- EdgeValues
    Notifications <- ThreeAndOne
    Answers <- SomeAnswers
    EventValues <- SomeEventValues
    MaxParams = 2
    MaxCalls = 2
    MaxEvents = 4
    SchemaValidation = TRUE
    IntBits = 8
    LongBits = 16
    MinDigits = 3
    DEFAULT_SEQ_START_NUMBER = 100
INVARIANTS
    MessageTypeOK
    ExactValuesArrive
    ReplyTellsOutcome
    ConfigLoaded
    SubscribedAsAsked
    ValidatorHasSchema
    EventsAcknowledged
CHECK_DEADLOCK FALSE
