SPECIFICATION SimFairSpec
CONSTANTS
    ProcInputs <- MCProcInputs
    TaskInputs <- MCTaskInputs
    ArgInputs <- MCArgInputs
    Double <- MiniDoubles
    Plus <- RoundedSum
    Per <- RoundedQuotient
    Ticks = 2
    Exact = 64
    Grain = 1
    Low = 0
    Infinity = 64
    Bandwidth = 2
    ConnectionSetup = 1
    MaxProcs = 2
    MaxTasks = 4
    Speeds = {1, 2}
    TaskKinds <- TwoUserTasks
INVARIANTS
    TimesAreFinishTimes
    PriorityServed
    FirstWaveByRank
PROPERTIES
    PointersStayValid
    CallReturns
