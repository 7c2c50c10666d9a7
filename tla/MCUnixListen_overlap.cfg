\* Two callers find the same stale socket.
CONSTANTS
    Caller = {l1, l2}
    Leftovers <- Stale
    Posix = TRUE
    Retries = 0
    UnlinkWorks = TRUE
    Serial = FALSE
    RefusesFull = FALSE
    MaxNodes = 4
SPECIFICATION ListenSpec
INVARIANT OneLiveListener
