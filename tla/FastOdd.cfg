SPECIFICATION Spec
CONSTANTS
    P = 5
    Threshold = 2
    SharesNum = 3
    Polys <- MCPolys
    Blindings <- MCBlindings
    Randomness = {2, 3}
    Alphas = {1, 3}
    MaxReceived = 3
    Damage = FALSE
    WrongIndices = {}
CHECK_DEADLOCK FALSE
INVARIANTS
    BuildDecrypts
