SPECIFICATION RowFairSpec
CONSTANTS
    ProcInputs <- MCProcInputs
    TaskInputs <- MCTaskInputs
    ArgInputs <- MCArgInputs
    JobInputs <- MCJobInputs
    Double <- MiniDoubles
    Plus <- RoundedSum
    Per <- RoundedQuotient
    Ticks = 2
    Exact = 300
    Grain = 1
    Low = 0
    Infinity = 300
    Bandwidth = 2
    ConnectionSetup = 1
    SizeBits = 10
    UserIdBits = 1
    BitsPerNumber = 1
    RandomizeCount = 2
    One = 2
    MaxProcs = 3
    Speeds = {1, 2}
    ProblemSizes = {0, 1, 2, 3}
    Slices = {1, 2, 3, 4}
    MaxTasks = 5
INVARIANTS
    RowTypeOK
    ProductIsPaidFor
    OneProcessorDoesItAll
    RunsAgree
PROPERTIES
    ImplementsSweep
    RowEnds
