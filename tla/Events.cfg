CONSTANTS
    CQS <- MCQueues
    EQ_SIZE = 3
    CLOSING = TRUE
    MAX_CPLS = 3
SPECIFICATION LiveSpec
INVARIANTS IInv OneEventPerQueue OneInterrupt FullOnlyWhenUnreported
PROPERTIES EventsAreService
CHECK_DEADLOCK FALSE
