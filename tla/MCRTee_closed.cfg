\* Our own standard output may be closed early.
CONSTANTS
    Bytes = 6
    Capacity = 3
    Chunk = 2
    Codes <- SomeCodes
SPECIFICATION TeeSpec
CHECK_DEADLOCK FALSE
PROPERTY CannotDeadlock
