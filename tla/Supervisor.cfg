CONSTANTS
    Servers = {s1, s2}
    NoServer = NoServer
    MaxRetries = 2
    External = {}
    UserCommands <- MCMost
    NmcliFails = TRUE
    HealthEnabled = FALSE
    AutoConnects = TRUE
    Wakes = FALSE
    DbusCap = 1
    DeferCap = 1
    RetryCap = 3
    ConnectAttempts = 2
SPECIFICATION Spec
SYMMETRY Symmetry
INVARIANTS
    FlagsFollowControl
    DeferredDrained
    AttemptShown
PROPERTIES
    ConnectedOnNmWord
CHECK_DEADLOCK FALSE
