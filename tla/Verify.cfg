CONSTANTS
    None = None
    Servers <- MCServers
    AllLinks <- MCLinks
    Edits <- MCEdits
    MaxMoves = 3
SPECIFICATION Spec
INVARIANTS
    OnlyTheTunnel
    BackendsAgree
    PassIsTrue
    
