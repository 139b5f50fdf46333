CONSTANTS
    TotalBlocks = 3
    BlockSize = 4
    Word = 64
    Sizes = {0, 1, 9}
SPECIFICATION LoopSpec
INVARIANT ScanInvariant
PROPERTIES
    LoopsImplementHeap
    LoopsTerminate
