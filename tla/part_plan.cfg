SPECIFICATION FairSpec
CONSTANTS
    FileSizes <- Sizes
    PartSizes <- Asked
    PartNumberUpperLimit = 3
    PartSizeLowerLimit = 1
    ByteSquares = 1
    WordBytes = 4
    Poly = {1, 4, 6, 7}
    Content <- Pattern
INVARIANTS
    TypeOK
    PlanCoversFile
    PartSizeIsLeast
    CombinedCrcIsOfFile
PROPERTIES
    PartSizeIsFound
