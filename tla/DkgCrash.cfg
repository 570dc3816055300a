SPECIFICATION FairSpec
CONSTANTS
    v1 = v1
    v2 = v2
    v3 = v3
    Validators = {v1, v2, v3}
    Stranger = stranger
    NoKey = NoKey
    SharesNum = 3
    SecurityThreshold = 1
    U32 = 16
    MaxShares = 1
    Faulty = {v3}
    Faults = {}
    Watchers = {v1}
    MaxBlockMsgs = 1
    MaxChain = 4
    MaxBlocks = 1
    MaxRestarts = 1
CHECK_DEADLOCK FALSE
INVARIANTS
    ReplicasAgree
    KeyAgreement
PROPERTIES
    GeneratesOneKey
    EventuallySuccess
