SPECIFICATION Spec
CONSTANTS
    P = 13
    Threshold = 2
    SharesNum = 4
    SecretPolynomials <- MCPolynomials
    Slopes = {7}
    Keys <- MCKeys
    Randomness = 5
    RecoveryPoints <- MCRecoveryPoints
    MaxRefreshes = 1
CHECK_DEADLOCK FALSE
INVARIANTS
    RefreshKeepsSecret
    VerifiedUpdatedSharesCombine
    RecoveredShareCombines
    RecoveryRestoresShare
