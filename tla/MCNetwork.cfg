\* All four arms of the three backends.
CONSTANTS
    Backends = {"linux", "bsd", "windows", "trackw"}
    Thread = {t1, t2}
    Slots = {1, 2}
    Inet <- SomeInet
    Paths <- SomePaths
    Names <- SomeNames
    SunPath = 3
    Durations <- SomeDurations
    Micro = 2
    Milli = 4
    MaxMillis = 3
    Datagrams = {1, 2}
    Buffer = 1
    \* Linux and BSD: callers that race for one path; a dead one leaves its socket.
    Caller = {"l1", "l2"}
    Leftovers = {"nothing", "file"}
    Posix = TRUE
    Retries = 0
    UnlinkWorks = TRUE
    Serial = FALSE
    RefusesFull = TRUE
    MaxNodes = 4
SPECIFICATION NetworkSpec
\* Operations end.
CHECK_DEADLOCK FALSE
INVARIANTS
    SocketsAreOwned
    SocketsStayHome
    ConversionsAreFaithful
    ReachableIsNarrow
    ProbeProtects
    LonelyCallSucceeds
PROPERTIES
    ReadEnds
