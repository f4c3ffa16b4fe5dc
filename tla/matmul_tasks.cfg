SPECIFICATION Spec
CONSTANTS
    SizeBits = 10
    UserIdBits = 2
    BitsPerNumber = 2
    MaxSize = 150
    JobInputs <- MCJobInputs
INVARIANTS
    ReserveIsExact
    TilesTheProduct
    TransferVolume
