CONSTANTS
    Clusters = 5
    SlotsPerCluster = 2
    MaxPath = 5
    Volumes <- AllVolumes
    Paths <- SomePaths
    MaxFiles = 2
    TotalBlocks = 21
SPECIFICATION FilesSpec
INVARIANTS
    FilesTypeOK
    OnlyPathsLost
    OpensNamedItem
    ExistingFilesFound
PROPERTY FailuresChangeNothing
CHECK_DEADLOCK FALSE
