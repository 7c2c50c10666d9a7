\* rel leads into a subdirectory.
CONSTANTS
    p = p
    q = q
    t1 = t1
    t2 = t2
    t3 = t3
    Process <- OneProcess
    Thread <- Pair
    Of <- Pair_Of
    Bytes = 1
    Existed = TRUE
    InThisDir = FALSE
    MaxCalls = 1
    MaxFiles = 3
SPECIFICATION Spec
INVARIANT AckedIsDurableEverywhere
