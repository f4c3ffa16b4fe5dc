SPECIFICATION FairSpec
CONSTANTS
    ProcInputs <- MCProcInputs
    TaskInputs <- MCTaskInputs
    Double <- MiniDoubles
    Plus <- RoundedSum
    Per <- RoundedQuotient
    Ticks = 2
    Exact = 64
    Grain = 1
    Low = 0
    Infinity = 64
    Bandwidth = 2
    ConnectionSetup = 1
    MaxProcs = 4
    MaxTasks = 5
    Speeds = {1, 2}
    Weights = {1, 3}
INVARIANTS
    QueueIsHeap
PROPERTIES
    ImplementsLoop
