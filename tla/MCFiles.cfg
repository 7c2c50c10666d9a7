\* write_atomic with two processes, one of them with two threads, that
\* overwrite one name; two threads in a directory; three handles.
CONSTANTS
    p = p
    q = q
    t1 = t1
    t2 = t2
    t3 = t3
    Process <- Processes
    Thread <- Threads
    Of <- Threads_Of
    Bytes = 2
    Existed = TRUE
    InThisDir = TRUE
    MaxCalls = 2
    MaxFiles = 3
    Backends = {"linux", "trackp", "windows", "mock"}
    Kernels = {TRUE, FALSE}
    Worker <- Pair
    Names = {"a", "b"}
    Paths <- MCPaths
    Options <- MCOptions
    Targets <- MCTargets
    Trees <- MCTrees
    MaxNodes = 7
    MaxOps = 3
    FirstCap = 1
    LastCap = 4
    Secs <- MCSecs
    Ticks <- MCTicks
    EpochDiff = 5
    Second = 4
    TickSecond = 2
    Rels <- MCRels
    Systems = {"linux", "windows", "trackw", "mock"}
    OpenModes <- MCOpenModes
    Handles <- MCHandles
    Lengths = {1, 3}
    MaxU32 = 2
    MaxBytes = 3
SPECIFICATION FilesSpec
SYMMETRY Symmetry
\* The other parts make a bounded number of calls.
CHECK_DEADLOCK FALSE
INVARIANTS
    WholeAtRel
    AckedIsDurable
    NoLitter
    Confined
    NamesAreKept
    LookupsAreExact
    BytesAreKept
PROPERTIES
    ImplementsAtomicFile
