\* Two threads that spawn at the same time, in the default build.
CONSTANTS
    Handle = {h1, h2}
    Pid = {k1, k2}
    Cmds <- Typical
    Codes = {259}
    MaxBorn = 3
    TrackW = FALSE
    Adopter = Adopter
    NoStatus = NoStatus
SPECIFICATION Spec
CHECK_DEADLOCK FALSE
SYMMETRY Symmetry
INVARIANTS
    GroupsHold
    SpawnIsClean
PROPERTIES
    DetachedOutlives
    ImplementsContract
