SPECIFICATION FairSpec
CONSTANTS
    a = a
    a2 = a2
    b = b
    c = c
    nums = nums
    bare = bare
    p = p
    q = q
    PublicKeys <- MCPublicKeys
    XOnly <- MCXOnly
    NumsX = "xn"
    Paths = {p, q}
    CommonPaths = {q}
    OriginPath <- MCOriginPath
    DeviceKeyAt <- MCDeviceKeyAt
    Contents <- MCContents
    KnownContents = {"Bip138", "Bip380", "String"}
    Parsed <- MCParsed
    CommandLines <- MCCommandLines
    Documents <- MCDocuments
    Holders <- MCHolders
PROPERTY NotedLevelsPeelOff
\* the command and its holder come to an end
CHECK_DEADLOCK FALSE
