SPECIFICATION MonitorSpec
CONSTANTS
    Window = 2
    MaxEntries = 2
    Backoff = 3
    ChannelCap = 1
    BusCap = 5
    MaxPaths = 2
    Prompt = TRUE
INVARIANTS
    NoEcho
    LastWordTold
PROPERTIES
    MonitorListens
