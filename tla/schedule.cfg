SPECIFICATION FairSpec
CONSTANTS
    ProcInputs <- MCProcInputs
    TaskInputs <- MCTaskInputs
    Double <- MiniDoubles
    Plus <- RoundedSum
    Per <- RoundedQuotient
    Ticks = 2
    Exact = 64
    Grain = 1
    Low = 0
    Infinity = 64
    Bandwidth = 2
    ConnectionSetup = 1
    MaxProcs = 3
    MaxTasks = 5
    Speeds = {1, 2}
    TaskKinds <- MixedTasks
INVARIANTS
    TypeOK
    EachTaskOnce
    BackToBack
    NoIdleWhileWaiting
    StartsInListOrder
    FinishOrder
    TiesDoNotMatter
PROPERTIES
    ImplementsPool
    Terminates
