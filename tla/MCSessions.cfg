\* Two Linux children among strangers, terminals, command lines, secrets,
\* messages.
CONSTANTS
    Pid <- TwoPids
    Handle = {h1, h2}
    ExitCodes <- OneCode
    Deaths <- KillDeath
    SignalsSent <- KillAndStop
    JoinTargets <- GroupsOfChildren
    ParentGroup <- TheGroup
    MaxBorn = 3
    \* A console that is given up and another one; a group that has the terminal.
    MaxConsoles = 2
    Group = {10, 11}
    Own = 10
    \* A signal and a change by somebody else, at any moment of a call.
    Secrets = {1, 2}
    MaxSignals = 1
    MaxMeddling = 1
SPECIFICATION PartsSpec
SYMMETRY Symmetry
\* An operation on the credential store ends, a list of arguments is full.
CHECK_DEADLOCK FALSE
INVARIANTS
    UnreapedIsTheChild
    StatusIsTrue
    KillSingleHitsTheChild
    KillTreeStaysInTheGroup
    ProbesAreTruthful
    TerminalIsGivenBack
    SecretIsTrue
    EncodingsSurvive
