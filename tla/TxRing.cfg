CONSTANTS
    TASKS = {t1, t2}
    SIZE = 4
    CQ_SIZE = 2
    MAX_CALLS = 5
    MAX_POSTED = 2
SPECIFICATION LiveSpec
INVARIANTS IInv NoCompletionDropped AssertionsHold BuffersOwned
PROPERTIES RingIsLine CallsFinish
CHECK_DEADLOCK FALSE
