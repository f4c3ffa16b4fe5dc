SPECIFICATION FairSpec
CONSTANTS
    ProcInputs <- MCProcInputs
    TaskInputs <- MCTaskInputs
    Double <- MiniDoubles
    Plus <- RoundedSum
    Per <- RoundedQuotient
    Ticks = 2
    Exact = 6
    Grain = 8
    Low = 0
    Infinity = 32
    Bandwidth = 2
    ConnectionSetup = 1
    MaxProcs = 3
    MaxTasks = 5
    Speeds = {0, 1, 3}
    TaskKinds <- MixedTasks
INVARIANTS
    NoIdleWhileWaiting
    FinishOrder
    GrahamBound
    TiesDoNotMatter
