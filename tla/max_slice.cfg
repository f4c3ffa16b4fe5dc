SPECIFICATION Spec
CONSTANTS
    SizeBits = 3
    MaxSize = 6
    OptionInputs <- MCRangeInputs
    SliceLists = {}
    MaxRandomize = 0
INVARIANTS
    MaxSliceIsSwept
