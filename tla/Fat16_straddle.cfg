CONSTANTS
    SectorSize = 2
    SectorsPerCluster = 2
    DataSector = 3
    ClusterIds = {2, 3, 4087}
    EndMarks = {65529, 65535}
    Strays = {0, 3}
    MaxClusters = 3
    MaxSize = 9
    MaxItems = 2
    MaxPos = 14
SPECIFICATION FatSpec
INVARIANT LooksLikeOneFile
