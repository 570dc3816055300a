SPECIFICATION Spec
CONSTANTS
    v1 = v1
    v2 = v2
    v3 = v3
    Validators = {v1, v2, v3}
    Stranger = stranger
    NoKey = NoKey
    SharesNum = 3
    SecurityThreshold = 1
    U32 = 16
    MaxShares = 1
    Faulty = {v3}
    Faults = {"bad_shares"}
    Watchers = {}
    MaxBlockMsgs = 1
    MaxChain = 4
    MaxBlocks = 0
    MaxRestarts = 0
SYMMETRY Symmetry
CHECK_DEADLOCK FALSE
INVARIANTS
    SharesAreConsistent
