SPECIFICATION Spec
CONSTANTS
    P = 5
    Threshold = 2
    SharesNum = 4
    Polys <- MCPolys
    Blindings <- MCBlindings
    Randomness = {2, 3}
    Alphas = {1, 3}
    MaxReceived = 4
    Damage = TRUE
    WrongIndices = {1, 2, 3, 4, 5}
CHECK_DEADLOCK FALSE
INVARIANTS
    TypeOK
    VerifiedSharesCombine
    BuildDecrypts
    FewSharesPrepare
    BatchVerifyIsConjunction
