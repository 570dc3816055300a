-------------------------- MODULE SubproductDomain --------------------------
(***************************************************************************)
(* Fast polynomial division, evaluation and interpolation over a           *)
(* subproduct tree (subproductdomain/src/lib.rs).  A function that panics  *)
(* returns Panic, which is the value of no other call.                     *)
(***************************************************************************)
EXTENDS PrimeField, SequencesExt

Panic == <<-1>>

-----------------------------------------------------------------------------
(***************************************************************************)
(* ark_poly's DensePolynomial.  Its operations drop leading zeros, so the  *)
(* zero polynomial they return has no coefficients; degree asserts that    *)
(* there are none to drop, and addition and subtraction ask for degrees.   *)
(***************************************************************************)
Coefficient(p, i) == IF i \in DOMAIN p THEN p[i] ELSE 0

IsZero(p) == \A i \in DOMAIN p : p[i] = 0

Truncate(p) ==
    SubSeq(p, 1, CHOOSE n \in 0 .. Len(p) :
                    /\ n > 0 => p[n] # 0
                    /\ \A i \in n + 1 .. Len(p) : p[i] = 0)

DegreeDefined(p) == IsZero(p) \/ p[Len(p)] # 0

Degree(p) == IF IsZero(p) THEN 0 ELSE Len(p) - 1

Longer(p, q) == IF Len(p) >= Len(q) THEN Len(p) ELSE Len(q)

PolyAdd(p, q) ==
    Truncate([i \in 1 .. Longer(p, q) |->
                 Add(Coefficient(p, i), Coefficient(q, i))])

PolySub(p, q) ==
    Truncate([i \in 1 .. Longer(p, q) |->
                 Sub(Coefficient(p, i), Coefficient(q, i))])

PolyMul(p, q) ==
    Truncate([i \in 1 .. Len(p) + Len(q) - 1 |->
                 SumTo([j \in 1 .. i |->
                    Mul(Coefficient(p, j), Coefficient(q, i + 1 - j))], i)])

Resize(p, n) == [i \in 1 .. n |-> Coefficient(p, i)]

-----------------------------------------------------------------------------
(***************************************************************************)
(* Division.                                                               *)
(***************************************************************************)

\* ark_std::log2 rounds up.
Log2(n) == CHOOSE k \in 0 .. n : 2^k >= n /\ \A j \in 0 .. k - 1 : 2^j < n

\* One step of the iteration: 2 a - func a^2 mod x^acc.  resize keeps a zero
\* that cutting the series leaves in front, and the next step then fails.
NewtonStep(func, a, acc) ==
    IF a = Panic \/ ~DegreeDefined(a) THEN Panic
    ELSE LET next == PolySub(PolyAdd(a, a), PolyMul(func, PolyMul(a, a)))
         IN  SubSeq(next, 1, IF Len(next) <= acc THEN Len(next) ELSE acc)

\* Seeded fault: one iteration too few.
InverseModXlShort(func, length) ==
    LET inv[k \in Nat] ==
            IF k = 0 THEN <<Inv(func[1])>>
            ELSE NewtonStep(func, inv[k - 1], 2^k)
    IN  IF length <= 2 THEN inv[0] ELSE inv[Log2(length) - 1]

\* The inverse of func mod x^length.  The constant coefficient is the leading
\* one of a monic divisor, so it has the inverse fast_divide_monic unwraps.
InverseModXl(func, length) ==
    LET inv[k \in Nat] ==
            IF k = 0 THEN <<Inv(func[1])>>
            ELSE NewtonStep(func, inv[k - 1], 2^k)
    IN  inv[Log2(length)]

\* rev: x^m f(1/x), for a polynomial of degree at most m.
Rev(f, m) == Reverse(Resize(f, m + 1))

\* func - product: ark asks for the degrees unless one of the two is zero.
Subtract(func, product) ==
    IF DegreeDefined(func) THEN PolySub(func, product)
    ELSE IF IsZero(product) THEN func
    ELSE Panic

\* Seeded fault: the quotient is not turned round again.
FastDivideMonicReversed(func, divisor) ==
    IF Len(func) < Len(divisor) THEN [quotient |-> <<0>>, remainder |-> func]
    ELSE LET diff == Len(func) - Len(divisor)
             inverse == InverseModXl(Reverse(divisor), diff + 1)
             q == Resize(PolyMul(Reverse(func), inverse), diff + 1)
             r == Subtract(func, PolyMul(divisor, q))
         IN  IF inverse = Panic \/ r = Panic
             THEN [quotient |-> Panic, remainder |-> Panic]
             ELSE [quotient |-> q, remainder |-> r]

FastDivideMonic(func, divisor) ==
    IF Len(func) < Len(divisor) THEN [quotient |-> <<0>>, remainder |-> func]
    ELSE LET diff == Len(func) - Len(divisor)
             inverse == InverseModXl(Reverse(divisor), diff + 1)
             q == Rev(Resize(PolyMul(Reverse(func), inverse), diff + 1), diff)
             r == Subtract(func, PolyMul(divisor, q))
         IN  IF inverse = Panic \/ r = Panic
             THEN [quotient |-> Panic, remainder |-> Panic]
             ELSE [quotient |-> q, remainder |-> r]

-----------------------------------------------------------------------------
(***************************************************************************)
(* The tree over the points u: m is the product of the x - u[i], and each  *)
(* half of the points has a subtree.  A leaf is one point.  The points say *)
(* how the tree is built, so its m is all that is kept of it, and u stands *)
(* for the tree in the functions on it.  SubproductTree::new without a     *)
(* point calls itself without a point for ever: there is no empty domain.  *)
(***************************************************************************)
Domains == Seq(Field) \ {<<>>}

Half(u) == Len(u) \div 2

FirstHalf(u) == SubSeq(u, 1, Half(u))

SecondHalf(u) == SubSeq(u, Half(u) + 1, Len(u))

\* SubproductTree::new(u).m.
SubproductTree(u) ==
    LET m[v \in Domains] ==
            IF Len(v) = 1 THEN <<Neg(v[1]), 1>>
            ELSE PolyMul(m[FirstHalf(v)], m[SecondHalf(v)])
    IN  m[u]

\* What evaluate may be given at a node: a polynomial, or a failed division.
Dividends == Seq(Field) \cup {Panic}

\* The answers of the two halves, u.split_at(n), side by side.
Joined(t_0, t_1) == IF t_0 = Panic \/ t_1 = Panic THEN Panic ELSE t_0 \o t_1

\* SubproductTree::evaluate: f at each point, by its remainders down the
\* tree.  Indexing the coefficients of a zero remainder panics at a leaf.
TreeEvaluate(f, u) ==
    LET t[v \in Domains] == [g \in Dividends |->
            IF g = Panic \/ ~DegreeDefined(g) \/ Degree(g) >= Len(v) THEN Panic
            ELSE IF Len(v) = 1 THEN IF g = <<>> THEN Panic ELSE <<g[1]>>
            ELSE LET m_0 == SubproductTree(FirstHalf(v))
                     m_1 == SubproductTree(SecondHalf(v))
                 IN  Joined(t[FirstHalf(v)][FastDivideMonic(g, m_0).remainder],
                            t[SecondHalf(v)][FastDivideMonic(g, m_1).remainder])]
    IN  t[u][f]

\* Seeded fault: the coefficient at power i is multiplied by i + 1.
DerivativeOffByOne(f) == [i \in 1 .. Len(f) - 1 |-> Mul(i + 1, f[i + 1])]

Derivative(f) == [i \in 1 .. Len(f) - 1 |-> Mul(i, f[i + 1])]

\* The derivative of m at each point, the product of its differences to the
\* other points.
InverseLagrangeCoefficients(u) ==
    IF Len(u) = 1 THEN <<1>>
    ELSE TreeEvaluate(Derivative(SubproductTree(u)), u)

\* Seeded fault: each half is multiplied by its own product.
LinearCombineSameSide(u, c) ==
    LET r[v \in Domains] == [d \in Polynomials(Len(v)) |->
            IF Len(v) = 1 THEN <<d[1]>>
            ELSE PolyAdd(PolyMul(SubproductTree(FirstHalf(v)),
                                 r[FirstHalf(v)][SubSeq(d, 1, Half(v))]),
                         PolyMul(SubproductTree(SecondHalf(v)),
                                 r[SecondHalf(v)][SubSeq(d, Half(v) + 1, Len(v))]))]
    IN  r[u][c]

\* The sum of the c[i] m / (x - u[i]).
LinearCombine(u, c) ==
    LET r[v \in Domains] == [d \in Polynomials(Len(v)) |->
            IF Len(v) = 1 THEN <<d[1]>>
            ELSE PolyAdd(PolyMul(SubproductTree(SecondHalf(v)),
                                 r[FirstHalf(v)][SubSeq(d, 1, Half(v))]),
                         PolyMul(SubproductTree(FirstHalf(v)),
                                 r[SecondHalf(v)][SubSeq(d, Half(v) + 1, Len(v))]))]
    IN  r[u][c]

\* The polynomial with the values v at the points u, as many as there are.
Interpolate(u, v) ==
    LET s == InverseLagrangeCoefficients(u)
    IN  IF s = Panic THEN Panic
        ELSE LinearCombine(u, [i \in 1 .. Len(u) |-> Mul(Inv(s[i]), v[i])])

-----------------------------------------------------------------------------
(***************************************************************************)
(* Toeplitz matrices.  Vectors are counted from 0 in the comments.         *)
(***************************************************************************)

\* Seeded fault: the leading coefficient is not wrapped round.
BuildCirculantUnwrapped(f, n) ==
    IF ~DegreeDefined(f) \/ Degree(f) > n THEN Panic
    ELSE [i \in 1 .. 2 * n |-> IF i >= n + 2 THEN Coefficient(f, i - n) ELSE 0]

\* f_1, f_2, ... from position n + 1 of 2 n; a coefficient at n goes to the
\* positions 0 and n.
BuildCirculant(f, n) ==
    IF ~DegreeDefined(f) \/ Degree(f) > n THEN Panic
    ELSE [i \in 1 .. 2 * n |->
        IF i >= n + 2 THEN Coefficient(f, i - n)
        ELSE IF i \in {1, n + 1} /\ n = Len(f) - 1 THEN f[Len(f)]
        ELSE 0]

\* The transforms, the product at each point of the domain and the inverse
\* transform are the cyclic convolution of the two vectors.
CyclicConvolution(a, b) ==
    LET n == Len(a)
    IN  [i \in 1 .. n |->
            SumTo([j \in 1 .. n |-> Mul(a[j], b[((i - j) % n) + 1])], n)]

\* toeplitz_mul, for an f with a coefficient and at most size elements v: their
\* reverse, behind zeros up to half the domain, convolved with the circulant.
ToeplitzMul(f, v, size) ==
    LET circulant_size ==
            DomainSizeFor(2 * (IF size >= Len(f) - 1 THEN size ELSE Len(f) - 1))
        toeplitz_size == circulant_size \div 2
        padding == toeplitz_size - Len(v)
        tmp == [i \in 1 .. circulant_size |->
                   IF i > padding /\ i <= toeplitz_size
                   THEN v[toeplitz_size + 1 - i] ELSE 0]
        circulant == BuildCirculant(f, toeplitz_size)
    IN  IF circulant = Panic THEN Panic
        ELSE SubSeq(CyclicConvolution(tmp, circulant), 1, toeplitz_size)
=============================================================================
