\* Windows, where rename opens what it renames without naming the link.
CONSTANTS
    Backends = {"windows"}
    Kernels = {TRUE}
    Worker = {t1}
    Names = {"a", "b"}
    Paths <- MCPaths
    Options = {}
    Targets <- MCTargets
    Trees <- MCTrees
    MaxNodes = 7
    MaxOps = 3
    FirstCap = 1
    LastCap = 4
    Secs = {}
    Ticks = {}
    EpochDiff = 5
    Second = 4
    TickSecond = 2
    Rels = {}
SPECIFICATION DirsSpec
CHECK_DEADLOCK FALSE
INVARIANT RenameMovesTheEntry
