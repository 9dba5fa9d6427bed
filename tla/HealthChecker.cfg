SPECIFICATION FairSpec
CONSTANTS
    N = 3
    FailureThreshold = 3
    DegradedThreshold = 2
    MaxConns = 2
    CountCap = 4
INVARIANT DeadOnEvidence
INVARIANT MissMeansAllFailed
PROPERTY FailuresNoticed
