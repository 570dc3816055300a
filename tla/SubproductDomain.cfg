SPECIFICATION Spec
CONSTANTS
    P = 7
    Points = {0, 1, 2, 5, 6}
    Coefficients = {0, 1, 3}
    MaxPoints = 5
    MaxCoefficients = 5
CHECK_DEADLOCK FALSE
INVARIANTS
    DivisionIsEuclidean
    TreeEvaluates
    LagrangeFromTree
    InterpolateInverts
    ToeplitzIsProduct
