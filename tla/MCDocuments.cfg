SPECIFICATION DocumentsSpec
CONSTANTS
    a = a
    a2 = a2
    b = b
    nums = nums
    p = p
    q = q
    archived = archived
    none = none
    PublicKeys <- MCPublicKeys
    XOnly <- MCXOnly
    NumsX = "xn"
    Paths = {p, q}
    CommonPaths = {q}
    NoOrigin = NoOrigin
    Contents <- MCContents
    KnownContents = {"String", "Bip380", "Bip388", "Bip329"}
    Parsed <- MCParsed
    Roots <- MCRoots
    Steps = {0, 1}
    Receive = 0
    Change = 1
    Descriptors <- MCDescriptors
    Metas = {archived, none}
    NoMeta = none
    HandMade <- MCHandMade
    Labels = {"Bip380", "Bip388", "Bip329", "String", "Unknown"}
    MaxSets = 2
    MaxDocuments = 2
INVARIANTS
    PolicyStandsForIt
    SameDescriptorBack
    DocumentKeys
\* the documents of the model are bounded
CHECK_DEADLOCK FALSE
