CONSTANTS
    OFFSETS <- MCOffsets
    STRAY <- MCStray
    TYPES = {"port", "sched"}
    VERSIONS <- MCVersions
SPECIFICATION Spec
INVARIANTS ListIsChain FindIsNth
PROPERTIES Terminates
CHECK_DEADLOCK FALSE
