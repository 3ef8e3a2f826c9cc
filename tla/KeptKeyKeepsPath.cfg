SPECIFICATION Spec
CONSTANTS
    a = a
    a2 = a2
    b = b
    c = c
    nums = nums
    p = p
    q = q
    r = r
    PublicKeys <- MCPublicKeys
    XOnly <- MCXOnly
    NumsX = "xn"
    Paths = {p, q, r}
    CommonPaths = {q}
    NoOrigin = NoOrigin
    OriginPath <- MCOriginPath
    Contents <- MCContents
    KnownContents = {"Bip380", "Bip329", "String"}
    Parsed <- MCParsed
    Payloads <- MCPayloads
    KeySets <- MCKeySets
    PathSets <- MCPathSets
    Foreign <- MCForeign
    MaxCalls = 5
PROPERTY KeptKeyKeepsPath
\* the calls of the model are bounded
CHECK_DEADLOCK FALSE
