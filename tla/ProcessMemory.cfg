CONSTANTS
    TotalBlocks = 5
    BlockSize = 4
    Word = 64
    Sizes = {1, 5}
    Processes = {0, 1}
    MaxAllocations = 2
    ImageBlocks = 1
    StackBlocks = 1
    MaxKernelRuns = 2
    None = None
SPECIFICATION MemSpec
VIEW MemView
INVARIANTS
    MemTypeOK
    Disjoint
    TableEncodes
    WritableIsOwned
    OwnedIsWritable
    OneOwner
PROPERTY ExitReleases
