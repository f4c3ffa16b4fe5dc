SPECIFICATION FairSpec
CONSTANTS
    SizeBits = 3
    MaxSize = 6
    OptionInputs <- MCSweepInputs
    SliceLists <- MCSliceLists
    MaxRandomize = 3
INVARIANTS
    FileIsTheSweep
    EarlierResultsKept
    LogFollowsSweep
    MeanOfRuns
PROPERTIES
    RowsSurvive
