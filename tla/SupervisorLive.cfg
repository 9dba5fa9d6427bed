CONSTANTS
    Servers = {s1, s2}
    NoServer = NoServer
    MaxRetries = 1
    External = {s1, s2}
    UserCommands <- MCNone
    NmcliFails = FALSE
    HealthEnabled = TRUE
    AutoConnects = FALSE
    Wakes = TRUE
    DbusCap = 1
    DeferCap = 1
    RetryCap = 3
    ConnectAttempts = 1
SPECIFICATION FairSpec
PROPERTIES
    HonestConnected
    TunnelNoticed
    
