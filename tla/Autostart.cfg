CONSTANTS
    Procs = {"daemon", "cli"}
    Configs <- MCConfigs
    Default <- MCDefault
    None = None
    Overlap = FALSE
    MaxEdits = 1
SPECIFICATION StartSpec

    
PROPERTIES
    AtomicSaves
