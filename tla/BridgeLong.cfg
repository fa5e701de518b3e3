CONSTANTS
    PLAIN_CAP = 2
    LEN_CAP = 2
    META_QUEUE_DEPTH = 2
    LAST_KEEPS <- MCLastKeeps
    MAX_BEATS = 5
    MAX_FRAMES = 1
SPECIFICATION LiveSpec
PROPERTIES FrameCompletes
CHECK_DEADLOCK FALSE
