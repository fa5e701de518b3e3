CONSTANTS
    CAPTURE_DEPTH = 2
    HEADER_FIFO_DEPTH = 2
    TUSER_FIFO_DEPTH = 2
    PN_LIMIT = 3
    BACKPRESSURE = FALSE
    RUNTS = FALSE
    LAST_KEEPS <- MCLastKeeps
    MAX_BEATS = 3
    MAX_FRAMES = 4
SPECIFICATION LiveSpec
INVARIANTS IInv TuserFollowsFrame TagMeetsItsFrame
PROPERTIES LineOfSealedFrames
CHECK_DEADLOCK FALSE
