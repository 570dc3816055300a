SPECIFICATION Spec
CONSTANTS
    P = 5
    Threshold = 2
    SharesNum = 4
    Blindings <- MCBlindings
    Randomness = {3}
    Damage = TRUE
CHECK_DEADLOCK FALSE
INVARIANTS
    TypeOK
    AnyVerifiedSharesCombine
    PositionalCheckSuffices
    PrecomputedSharesAgree
    DecryptionOutcome
