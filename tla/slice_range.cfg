SPECIFICATION FairSpec
CONSTANTS
    SizeBits = 4
    MaxSize = 12
    OptionInputs <- MCRangeInputs
    SliceLists = {}
    MaxRandomize = 0
INVARIANTS
    TypeOK
    SweepIsProgression
PROPERTIES
    Ends
