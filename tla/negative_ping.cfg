SPECIFICATION FairSpec
CONSTANTS
    ProcInputs <- MCProcInputs
    TaskInputs <- MCTaskInputs
    Double <- MiniDoubles
    Plus <- RoundedSum
    Per <- RoundedQuotient
    Ticks = 2
    Exact = 64
    Grain = 1
    Low = 24
    Infinity = 64
    Bandwidth = 2
    ConnectionSetup <- NegativePing
    MaxProcs = 3
    MaxTasks = 4
    Speeds <- NegativeMips
    TaskKinds <- UnevenTasks
PROPERTIES
    ImplementsPool
