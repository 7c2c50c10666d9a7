\* wait_any with all three loops: children polled with interruptions, waited
\* for in one call or in two chunks, or asked one after the other.  The other
\* parts' values are in MCLiveness.
CONSTANTS
    N = 3
    Backends = {"portable", "linux", "windows"}
    Timeouts = {0, 5}
    TICK = 2
    MILLI = 2
    Cap = 8
    MAXIMUM_WAIT_OBJECTS = 2
    MaxTime = 8
    \* rpar: three commands and a signal.
    Commands = 3
    MaxSignals = 1
    \* rtee: short writes, and a command that outruns the pipe.
    Bytes = 6
    Capacity = 3
    Chunk = 2
    Codes = {0, 3, 256}
    \* A pseudo console: output for half a pipe more than the pipe takes.
    Output = 3
    Room = 2
    Sizes = {1, 40000}
    \* unix_listen on Windows: repeated probes, and unlinks that are refused.
    Caller = {"l1", "l2"}
    Leftovers = {"nothing", "dead"}
    Posix = FALSE
    Retries = 2
    UnlinkWorks = FALSE
    Serial = FALSE
    RefusesFull = TRUE
    MaxNodes = 3
    \* The mock network: two listeners or sockets and a connection between them.
    Dialer = {"t"}
    Addr <- MockAddr
    MaxListeners = 2
    MaxConns = 1
    Writers = {"client"}
    Chunks = {0, 2}
    MaxBytes = 2
    MaxWaiting = 1
    ReadBuf = 1
    FirstPort = 5
    LastPort = 6
SPECIFICATION PartsSpec
\* Calls and programs end.
CHECK_DEADLOCK FALSE
INVARIANTS
    SomeIsRetrievable
    NoneIsTimeout
    PolledAreOurs
    Prompt
    RParIsHonest
    RTeeIsHonest
    ListenerIsSafe
    TerminalIsWhole
PROPERTIES
    ImplementsContract
    MockKeepsItsWord
    ProgramsEnd
    WaitsEnd
    ReadsEnd
