CONSTANTS
    PLAIN_CAP = 2
    LEN_CAP = 2
    META_QUEUE_DEPTH = 2
    LAST_KEEPS <- MCLastKeeps
    MAX_BEATS = 3
    MAX_FRAMES = 4
SPECIFICATION LiveSpec
INVARIANTS NoLengthDropped LengthsInOrder CipherAligned FramesPacked IInv
PROPERTIES FrameCompletes
CHECK_DEADLOCK FALSE
