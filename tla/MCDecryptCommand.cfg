SPECIFICATION FairSpec
CONSTANTS
    f = f
    k44 = k44
    k48 = k48
    k87 = k87
    kown = kown
    DerivPaths <- MCPaths
    CommonPaths <- MCCommon
    Purpose <- MCPurpose
    Envelopes <- MCEnvelopes
    Ordering <- MCOrdering
    Kinds = {"Ledger", "BitBox02"}
    NoDevice = "NoDevice"
    XpubAt <- MCXpubAt
    FileKeys = {f}
    NoFile = NoFile
    BadFile = BadFile
    Backups <- MCBackups
INVARIANTS
    NeverSilent
    StopHonoured
    XpubOfItsPath
    AskedInOrder
PROPERTIES
    KeyHuntSpec
    CommandEnds
\* the process exits
CHECK_DEADLOCK FALSE
