CONSTANTS
    TotalBlocks = 4
    BlockSize = 4
    Word = 64
    Sizes = {1, 4, 5, 12, 17}
SPECIFICATION Spec
INVARIANT WritesInsideTable
