CONSTANTS
    CAPTURE_DEPTH = 2
    HEADER_FIFO_DEPTH = 2
    TUSER_FIFO_DEPTH = 2
    PN_LIMIT = 3
    BACKPRESSURE = FALSE
    RUNTS = TRUE
    LAST_KEEPS <- MCLastKeeps
    MAX_BEATS = 3
    MAX_FRAMES = 2
SPECIFICATION Spec
INVARIANT FramesAccountedFor
CHECK_DEADLOCK FALSE
