SPECIFICATION DecodersSpec
CONSTANTS
    Base = 12
    UsizeMax = 20735
    Magic <- MCMagic
    ChildSize = 2
    SecretSize = 2
    NonceSize = 2
    Sources <- MCSources
    Trailers <- MCTrailers
    Strings <- MCStrings
    Upgrade = 6
    NamedBips = {5}
    MinSize = 10
    WideMax = 200000
    Lists <- MCLists
    Plaintexts <- MCPlaintexts
INVARIANTS
    TypeOK
    BackupOrRefusal
    InspectAgrees
    ItemsReadBack
    OneEncoding
    PaddedSizes
PROPERTY DecodersReturn
\* a call returns
CHECK_DEADLOCK FALSE
