CONSTANTS
    Servers = {s1}
    NoServer = NoServer
    MaxRetries = 3
    QueueCap = 2
    MaxThreads = 2
    InOrder = TRUE
SPECIFICATION DeskSpec
INVARIANTS
    RetryBudget
    
PROPERTIES
    QuitHeard
    ConnectedOnEvidence
    AttemptsClimb
CHECK_DEADLOCK FALSE
