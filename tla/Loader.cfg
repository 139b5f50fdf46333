CONSTANTS
    PageSize = 2
    Word = 64
    ProgramAddress = 16
    StackEnd = 10
    StackSize = 4
    ImageAddress = 32
    StackAddress = 48
    MaxProcesses = 2
    Programs <- SomePrograms
SPECIFICATION LoaderSpec
INVARIANTS
    LoaderTypeOK
    NothingLeft
    CompleteProcess
    FilesClosed
    SegmentsInPlace
    WritesOwnPages
    BoundsEnclose
CHECK_DEADLOCK FALSE
