CONSTANTS
    CAPTURE_DEPTH = 3
    LAST_KEEPS <- MCLastKeeps
    MAX_PAYLOAD = 3
    MAX_FRAMES = 3
SPECIFICATION LiveSpec
INVARIANTS ReleasedWhole
PROPERTIES CapturedIsReleased
CHECK_DEADLOCK FALSE
