CONSTANTS
    DEVICE_EQS = 2
    DEVICE_CQS = 3
    DEVICE_TXQS = 2
    DEVICE_RXQS = 1
    MQNIC_MAX_EQ = 1
    MQNIC_MAX_TXQ = 1
    MQNIC_MAX_RXQ = 8
    MAX_POSTED = 2
SPECIFICATION MCSpec
INVARIANTS IInv NoMixedConfiguration NothingLost EventsHaveHandlers InterruptKept PathsOpen
CHECK_DEADLOCK FALSE
