SPECIFICATION FairSpec
CONSTANTS
    k1 = k1
    k2 = k2
    k3 = k3
    k4 = k4
    k5 = k5
    nums = nums
    stored = stored
    common = common
    rootPath = rootPath
    longPath = longPath
    e1 = e1
    e2 = e2
    Keys <- MCKeys
    Nums = nums
    Paths <- MCPaths
    CommonPaths <- MCCommonPaths
    ChildCount <- MCChildCount
    Requests <- MCRequests
    Readers <- MCReaders
    Entropy <- MCEntropy
    BucketMin = 3
    CountMax = 4
    DataMax = 9
    PaddedSizes <- MCPaddedSizes
    NoContent = {"None", "Unknown"}
INVARIANTS
    TypeOK
    BackupShape
    PathsRecoverable
    RefusedForCause
PROPERTIES
    SealedBackupSpec
    CallsReturn
\* an encryption that returned and scans that ended have nothing left to do
CHECK_DEADLOCK FALSE
