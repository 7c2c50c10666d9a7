\* The default arm of make_pipe: two threads spawn, one of them with a pipe.
CONSTANTS
    Handle = {h1, h2}
    Pid = {k1, k2}
    Cmds <- Typical
    Codes = {259}
    MaxBorn = 2
    TrackW = FALSE
    Adopter = Adopter
    NoStatus = NoStatus
SPECIFICATION Spec
CHECK_DEADLOCK FALSE
INVARIANT ParentEndNeverLeaks
