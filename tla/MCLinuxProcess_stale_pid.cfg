\* A signal sent through a handle whose status is already stashed.
CONSTANTS
    Pid <- TwoPids
    Handle = {h1}
    ExitCodes <- OneCode
    Deaths <- KillDeath
    SignalsSent <- KillOnly
    JoinTargets <- NoTargets
    ParentGroup <- TheGroup
    MaxBorn = 2
SPECIFICATION Spec
INVARIANT KillSingleNeverHitsOthers
