CONSTANTS
    READERS = {r1, r2}
    POLLING = TRUE
    SIZE = 4
    CQ_SIZE = 4
    MIN_REFILL = 2
    MAX_FRAMES = 5
    MAX_POSTED = 2
SPECIFICATION LiveSpec
INVARIANTS IInv NoCompletionDropped AssertionsHold BuffersOwned RingKeptFull NoLostWakeup RecvGetsPacket
PROPERTIES RingIsLine
CHECK_DEADLOCK FALSE
