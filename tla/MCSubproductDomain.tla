------------------------ MODULE MCSubproductDomain --------------------------
(***************************************************************************)
(* The functions of SubproductDomain against reference definitions, for    *)
(* every order in which a caller may add distinct points to its domain.    *)
(***************************************************************************)
EXTENDS SubproductDomain

CONSTANTS
    Points,           \* the points to choose from
    Coefficients,     \* the coefficients of the polynomial
    MaxPoints,        \* bound: points in the domain
    MaxCoefficients   \* bound: coefficients of the polynomial

\* NewtonFails below is stated for at most two steps of the iteration, which
\* five coefficients and eight points do not exceed; the derivative of a product
\* of as many factors as the field has elements would lose its leading coefficient.
ASSUME InputAssumption ==
    /\ Points \subseteq Field
    /\ Coefficients \subseteq Field
    /\ MaxPoints \in 0 .. 8
    /\ MaxCoefficients \in 0 .. 5
    /\ MaxPoints < P

VARIABLES
    u,   \* the points of the domain
    f    \* a polynomial, without leading zeros

vars == <<u, f>>

Init ==
    /\ u = <<>>
    /\ f \in {p \in UNION {[1 .. n -> Coefficients] : n \in 0 .. MaxCoefficients} :
                p = Truncate(p)}

AddPoint ==
    /\ Len(u) < MaxPoints
    /\ \E x \in Points \ Range(u) : u' = Append(u, x)
    /\ UNCHANGED f

Next == AddPoint

Spec == Init /\ [][Next]_vars

-----------------------------------------------------------------------------
\* The iteration fails in its second step if the first one ends in a zero:
\* the points of the divisor sum to zero.
NewtonFails(func, points) ==
    /\ Len(func) - Len(points) >= 3
    /\ Len(points) >= 2
    /\ SumTo(points, Len(points)) = 0

TreeFails(func, points) ==
    /\ Len(points) >= 2
    /\ \/ NewtonFails(func, FirstHalf(points))
       \/ NewtonFails(func, SecondHalf(points))

\* fast_divide_monic by the product of the x - u[i] gives the quotient and
\* the remainder of Euclid's division, also at equal and neighbouring degrees,
\* and panics only on the zero that the Newton iteration cannot go on from.
DivisionIsEuclidean ==
    u # <<>> =>
        LET m == SubproductTree(u)
            division == FastDivideMonic(f, m)
        IN  IF NewtonFails(f, u) THEN division.remainder = Panic
            ELSE /\ f = PolyAdd(PolyMul(division.quotient, m),
                                division.remainder)
                 /\ Len(division.remainder) < Len(m)
                 /\ \A i \in 1 .. Len(u) :
                       Evaluate(division.remainder, u[i]) = Evaluate(f, u[i])

\* SubproductTree::evaluate gives f at every point in the order of the
\* points; it panics only if f vanishes at one of them, or if the points of a
\* half sum to zero, which depends on their order.
TreeEvaluates ==
    u # <<>> /\ Len(f) <= Len(u) =>
        TreeEvaluate(f, u) =
            IF TreeFails(f, u) \/ \E i \in 1 .. Len(u) : Evaluate(f, u[i]) = 0
            THEN Panic
            ELSE [i \in 1 .. Len(u) |-> Evaluate(f, u[i])]

\* inverse_lagrange_coefficients gives each point the product of its
\* differences to the others, what prepare_combine_fast inverts.
LagrangeFromTree ==
    u # <<>> =>
        InverseLagrangeCoefficients(u) =
            IF TreeFails(u, u) THEN Panic
            ELSE [k \in 1 .. Len(u) |->
                    ProductTo([j \in 1 .. Len(u) |->
                        IF j = k THEN 1 ELSE Sub(u[k], u[j])], Len(u))]

\* Interpolating the values of f at more points than its degree gives f back,
\* leading zeros apart.
InterpolateInverts ==
    u # <<>> /\ Len(f) <= Len(u) /\ ~TreeFails(u, u) =>
        Truncate(Interpolate(u, [i \in 1 .. Len(u) |-> Evaluate(f, u[i])])) = f

\* toeplitz_mul, with the points as its vector: element i is the sum of the
\* f[i + 1 + k] v[k], also where the polynomial fills the matrix exactly.
ToeplitzIsProduct ==
    u # <<>> /\ f # <<>> =>
        LET product == ToeplitzMul(f, u, Len(u))
        IN  \A i \in 1 .. Len(product) :
                product[i] = SumTo([k \in 1 .. Len(u) |->
                                Mul(Coefficient(f, i + k), u[k])], Len(u))
=============================================================================
