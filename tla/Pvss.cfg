SPECIFICATION Spec
CONSTANTS
    P = 5
    Threshold = 2
    SharesNum = 3
    NumValidators = 4
    SessionKeys <- MCSessionKeys
    Coefficients = {0, 1, 3}
    MaxDealers = 3
    Randomness = {0, 2}
    Damage = TRUE
CHECK_DEADLOCK FALSE
INVARIANTS
    TypeOK
    FullCheckOfAggregate
    AggregateIsOfFinalKey
    AggregateDecrypts
    RefreshedSharesDecrypt
    RecoveredFromAggregate
