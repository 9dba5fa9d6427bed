CONSTANTS
    c1 = c1
    c2 = c2
    Conns <- MCConns
    NoConn = NoConn
    LineKinds <- MCLineKinds
    MaxLines <- MCMaxLines
    MaxCommands = 2
    MaxConns = 1
    QueueCap = 1
    Worst = 2
    Limit = 3
    OwnWork = TRUE
SPECIFICATION FairSpec
INVARIANT AnswersMatch
 
PROPERTY RejectedWhenFull
CHECK_DEADLOCK FALSE
PROPERTY StatusAnswered
