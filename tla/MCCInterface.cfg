SPECIFICATION InterfaceSpec
CONSTANTS
    Null = Null
    k1 = k1
    k2 = k2
    k3 = k3
    nums = nums
    data = data
    tag = tag
    NumsKey = nums
    ListMax = 2
    FullBuckets = {2}
    Encryptions <- MCEncryptions
    Decryptions <- MCDecryptions
    MaxCalls = 4
\* the client stops after MaxCalls calls, or after one that does not come back
CHECK_DEADLOCK FALSE
INVARIANTS Accounted ReadBack RecipientsRead
PROPERTIES FailureChangesNothing
