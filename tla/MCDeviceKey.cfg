SPECIFICATION FairSpec
CONSTANTS
    k44 = k44
    k48 = k48
    k87 = k87
    kown = kown
    DerivPaths <- MCPaths
    CommonPaths <- MCCommon
    Purpose <- MCPurpose
    Envelopes <- MCEnvelopes
    Ordering <- MCOrdering
    Kinds = {"Ledger", "BitBox02"}
    NoDevice = "NoDevice"
    XpubAt <- MCXpubAt
    NoPath = 0
    MaxRuns = 3
INVARIANTS
    RightOutcome
    ReportedKept
PROPERTY CommandReturns
\* the commands of the model are bounded
CHECK_DEADLOCK FALSE
