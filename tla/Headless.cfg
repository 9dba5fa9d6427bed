CONSTANTS
    Sections <- MCSections
    MaxFaults = 1
    MaxRuns = 2
SPECIFICATION Spec

    
PROPERTIES
    OpensOnlyOnPurpose
    Settles
CHECK_DEADLOCK FALSE
