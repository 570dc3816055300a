---------------------- MODULE MCSubproductDomainProofs -----------------------
(***************************************************************************)
(* The functions of SubproductDomain have the properties that the runs     *)
(* check of them, for every prime, set of points and set of coefficients   *)
(* within the assumption on the inputs.  What does not depend on where the *)
(* functions panic is proved without a bound in PolynomialProofs.          *)
(***************************************************************************)
EXTENDS MCSubproductDomain, PolynomialProofs

\* Different points.
DistinctPoints(v) == \A j, k \in 1 .. Len(v) : v[j] = v[k] => j = k

-----------------------------------------------------------------------------
(***************************************************************************)
(* The second coefficient of the tree's polynomial.                        *)
(***************************************************************************)

LEMMA SumSplit ==
  ASSUME NEW h, NEW g, NEW n \in Nat, NEW m \in Nat,
         \A i \in 1 .. n + m : h[i] \in Field, \A i \in 1 .. m : g[i] = h[n + i]
  PROVE  SumTo(h, n + m) = Add(SumTo(h, n), SumTo(g, m))
<1> DEFINE S == {k \in 0 .. m : SumTo(h, n + k) = Add(SumTo(h, n), SumTo(g, k))}
<1>0. SumTo(h, n) \in Field
  BY SumInField
<1>1. 0 \in S
  <2>1. SumTo(g, 0) = 0 /\ Add(SumTo(h, n), 0) = SumTo(h, n) /\ n + 0 = n
    BY <1>0, SumUnfolds, AddLaws
  <2>2. 0 \in 0 .. m
    OBVIOUS
  <2> QED BY <2>1, <2>2
<1>2. ASSUME NEW k \in 0 .. m - 1, k \in S
      PROVE  k + 1 \in S
  <2>1. /\ n + k \in Nat /\ k \in Nat /\ k + 1 \in 1 .. m /\ k + 1 \in 0 .. m
        /\ n + (k + 1) = (n + k) + 1 /\ (n + k) + 1 \in 1 .. n + m
    OBVIOUS
  <2>2. SumTo(h, (n + k) + 1) = Add(SumTo(h, n + k), h[(n + k) + 1])
    BY <2>1, SumUnfolds
  <2>3. SumTo(g, k + 1) = Add(SumTo(g, k), g[k + 1])
    BY <2>1, SumUnfolds
  <2>4. g[k + 1] = h[(n + k) + 1] /\ g[k + 1] \in Field
    BY <2>1
  <2>5. SumTo(g, k) \in Field
    <3>1. \A i \in 1 .. k : g[i] \in Field
      <4> TAKE i \in 1 .. k
      <4>1. i \in 1 .. m /\ n + i \in 1 .. n + m
        BY <2>1
      <4> QED BY <4>1
    <3> QED BY <2>1, <3>1, SumInField
  <2>6. SumTo(h, n + k) = Add(SumTo(h, n), SumTo(g, k))
    BY <1>2
  <2>7. SumTo(h, n + (k + 1)) = Add(SumTo(h, n), SumTo(g, k + 1))
    BY <1>0, <2>1, <2>2, <2>3, <2>4, <2>5, <2>6, AddLaws
  <2> QED BY <2>1, <2>7
<1> HIDE DEF S
<1>3. 0 .. m \subseteq S
  BY <1>1, <1>2, InductionUpTo
<1>4. m \in 0 .. m
  OBVIOUS
<1> QED BY <1>3, <1>4 DEF S

\* The second coefficient of a product of monic polynomials.
LEMMA SecondOfProduct ==
  ASSUME NEW p, Monic(p), Len(p) >= 2, NEW q, Monic(q), Len(q) >= 2
  PROVE  Coefficient(PolyMul(p, q), Len(p) + Len(q) - 2) = Add(p[Len(p) - 1], q[Len(q) - 1])
<1> DEFINE n == Len(p)
           m == Len(q)
           diff == m - 1
           Q == SeriesOf(Reverse(q))
           D == SeriesOf(Reverse(p))
<1>1. /\ p \in Seq(Field) /\ n \in Nat /\ n >= 2 /\ p[n] = 1 /\ p[n - 1] \in Field
      /\ q \in Seq(Field) /\ m \in Nat /\ m >= 2 /\ q[m] = 1 /\ q[m - 1] \in Field
  <2>1. /\ p \in Seq(Field) /\ n \in Nat /\ n >= 2 /\ p[n] = 1
        /\ q \in Seq(Field) /\ m \in Nat /\ m >= 2 /\ q[m] = 1
    BY SeqIsPolynomial DEF Monic
  <2>2. n - 1 \in 1 .. Len(p) /\ m - 1 \in 1 .. Len(q)
    BY <2>1
  <2> QED BY <2>1, <2>2, SeqIsPolynomial
<1>2. ASSUME NEW r \in Seq(Field), NEW i \in Nat, i + 1 <= Len(r)
      PROVE  SeriesOf(Reverse(r)) \in Series /\ SeriesOf(Reverse(r))[i] = r[Len(r) - i]
  <2>1. /\ Reverse(r) \in Seq(Field) /\ Len(Reverse(r)) = Len(r) /\ Len(r) \in Nat
        /\ \A j \in 1 .. Len(r) : Reverse(r)[j] = r[Len(r) + 1 - j]
    BY ReverseIs, SeqIsPolynomial
  <2>2. i + 1 \in Int /\ i + 1 \in 1 .. Len(r) /\ Len(r) + 1 - (i + 1) = Len(r) - i
    BY <1>2, <2>1
  <2>3. SeriesOf(Reverse(r)) \in Series /\ SeriesOf(Reverse(r))[i] = Coefficient(Reverse(r), i + 1)
    BY <2>1, SeriesIs
  <2>4. Coefficient(Reverse(r), i + 1) = Reverse(r)[i + 1]
    BY <2>1, <2>2, CoefficientIs
  <2> QED BY <2>1, <2>2, <2>3, <2>4
<1>3. /\ D \in Series /\ D[0] = 1 /\ D[1] = p[n - 1]
  <2>1. 0 \in Nat /\ 0 + 1 <= n /\ 1 \in Nat /\ 1 + 1 <= n /\ n - 0 = n
    BY <1>1
  <2> QED BY <1>1, <1>2, <2>1
<1>4. /\ Q \in Series /\ Q[0] = 1 /\ Q[1] = q[m - 1]
      /\ \A i \in 0 .. diff : Q[i] = q[diff + 1 - i]
  <2>1. 0 \in Nat /\ 0 + 1 <= m /\ 1 \in Nat /\ 1 + 1 <= m /\ m - 0 = m
        /\ \A i \in 0 .. diff : i \in Nat /\ i + 1 <= m /\ diff + 1 - i = m - i
    BY <1>1
  <2> QED BY <1>1, <1>2, <2>1
<1> HIDE DEF Q
<1>5. Coefficient(PolyMul(p, q), Len(p) + diff - 1) = Times(SeriesOf(Reverse(p)), Q)[1]
  <2>1. /\ Len(p) # 0 /\ diff \in Nat /\ Len(q) = diff + 1 /\ 1 \in 0 .. diff
    BY <1>1
  <2> HIDE DEF diff
  <2> QED BY <1>1, <1>4, <2>1, ReversedProduct
<1> HIDE DEF D
<1>6. Times(D, Q)[1] = Add(q[m - 1], p[n - 1])
  <2>1. Times(D, Q)[0 + 1] = Add(Mul(D[0], Q[0 + 1]), Times(After(D), Q)[0])
    BY <1>3, <1>4, TimesIs
  <2>2. After(D) \in Series /\ After(D)[0] = D[0 + 1]
    BY <1>3, AfterIs
  <2>3. Times(After(D), Q)[0] = Mul(After(D)[0], Q[0])
    BY <1>4, <2>2, TimesIs
  <2>4. 0 + 1 = 1
    OBVIOUS
  <2>5. Mul(1, q[m - 1]) = q[m - 1] /\ Mul(p[n - 1], 1) = p[n - 1]
    BY <1>1, MulLaws
  <2> QED BY <1>3, <1>4, <2>1, <2>2, <2>3, <2>4, <2>5
<1>7. Len(p) + diff - 1 = Len(p) + Len(q) - 2
  BY <1>1
<1> QED BY <1>1, <1>5, <1>6, <1>7, AddCommutes DEF D

LEMMA TreeSecond ==
  ASSUME NEW v \in Domains
  PROVE  SubproductTree(v)[Len(v)] = Neg(SumTo(v, Len(v)))
<1> DEFINE S == {w \in Domains : SubproductTree(w)[Len(w)] = Neg(SumTo(w, Len(w)))}
<1>1. ASSUME NEW w \in Domains, Len(w) = 1
      PROVE  w \in S
  <2>1. SubproductTree(w) = <<Neg(w[1]), 1>>
    BY <1>1, TreeUnfolds
  <2>2. SubproductTree(w)[1] = Neg(w[1])
    BY <2>1
  <2>3. w[1] \in Field
    <3>1. 1 \in 1 .. Len(w)
      BY <1>1
    <3> QED BY <3>1, DomainLength
  <2>4. SumTo(w, 0 + 1) = Add(SumTo(w, 0), w[0 + 1]) /\ SumTo(w, 0) = 0
    BY SumUnfolds
  <2>5. SumTo(w, 1) = w[1]
    BY <2>3, <2>4, AddLaws
  <2> QED BY <1>1, <2>2, <2>5
<1>2. ASSUME NEW w \in Domains, Len(w) # 1, FirstHalf(w) \in S, SecondHalf(w) \in S
      PROVE  w \in S
  <2> DEFINE a == FirstHalf(w)  b == SecondHalf(w)
             p == SubproductTree(a)  q == SubproductTree(b)  m == SubproductTree(w)
             s == SumTo(a, Len(a))  t == SumTo(b, Len(b))
  <2>1. /\ a \in Domains /\ b \in Domains /\ Len(w) \in Nat
        /\ Half(w) \in 1 .. Len(w) - 1
        /\ Len(a) = Half(w) /\ Len(b) = Len(w) - Half(w)
        /\ \A i \in 1 .. Half(w) : a[i] = w[i]
        /\ \A i \in 1 .. Len(w) - Half(w) : b[i] = w[Half(w) + i]
        /\ \A i \in 1 .. Len(w) : w[i] \in Field
        /\ \A i \in 1 .. Len(a) : a[i] \in Field
        /\ \A i \in 1 .. Len(b) : b[i] \in Field
    BY <1>2, Halves, DomainLength
  <2>2. /\ Monic(p) /\ Len(p) = Len(a) + 1 /\ Monic(q) /\ Len(q) = Len(b) + 1
        /\ m \in Seq(Field) /\ Len(m) = Len(w) + 1
    BY <2>1, TreeIs DEF Monic
  <2>3. m = PolyMul(p, q)
    BY <1>2, TreeUnfolds
  <2>4. p[Len(a)] = Neg(s) /\ q[Len(b)] = Neg(t)
    BY <1>2
  <2>5. s \in Field /\ t \in Field
    <3>1. Len(a) \in Nat /\ Len(b) \in Nat
      BY <2>1, DomainLength
    <3>2. s \in Field
      <4> HIDE DEF a
      <4> QED BY <2>1, <3>1, SumInField
    <3>3. t \in Field
      <4> HIDE DEF b
      <4> QED BY <2>1, <3>1, SumInField
    <3> QED BY <3>2, <3>3
  <2>6. SumTo(w, Len(w)) = Add(s, t)
    <3> DEFINE n == Len(a)  k == Len(b)
    <3>1. n \in Nat /\ k \in Nat /\ n + k = Len(w)
      BY <2>1
    <3>2. \A i \in 1 .. n + k : w[i] \in Field
      BY <2>1, <3>1
    <3>3. \A i \in 1 .. k : b[i] = w[n + i]
      BY <2>1
    <3>4. SumTo(w, n + k) = Add(SumTo(w, n), SumTo(b, k))
      <4> HIDE DEF n, k
      <4> QED BY <3>1, <3>2, <3>3, SumSplit
    <3>5. SumTo(w, n) = SumTo(a, n)
      <4>1. \A i \in 1 .. n : w[i] = a[i]
        BY <2>1
      <4> QED BY <3>1, <4>1, SameSum
    <3> QED BY <3>1, <3>4, <3>5
  <2> HIDE DEF a, b, p, q, m, s, t
  <2>7. m[Len(w)] = Add(Neg(s), Neg(t))
    <3>1. Len(p) >= 2 /\ Len(q) >= 2 /\ Len(p) + Len(q) - 2 = Len(w)
          /\ Len(p) - 1 = Len(a) /\ Len(q) - 1 = Len(b) /\ Len(w) \in Int
          /\ Len(w) \in 1 .. Len(m)
      BY <2>1, <2>2
    <3>2. Coefficient(PolyMul(p, q), Len(p) + Len(q) - 2) = Add(p[Len(p) - 1], q[Len(q) - 1])
      BY <2>2, <3>1, SecondOfProduct
    <3>3. Coefficient(m, Len(w)) = m[Len(w)]
      BY <2>2, <3>1, CoefficientIs
    <3> QED BY <2>3, <2>4, <3>1, <3>2, <3>3
  <2>8. Add(Neg(s), Neg(t)) = Neg(Add(s, t))
    <3>1. s \in Int /\ t \in Int /\ -s \in Int /\ -t \in Int /\ s + t \in Int
          /\ (-s) + (-t) = -(s + t)
      BY <2>5, FieldIsInt
    <3>2. Neg(s) = Residue(-s) /\ Neg(t) = Residue(-t) /\ Add(s, t) = Residue(s + t)
      BY <3>1, Reduced
    <3>3. Residue(-t) \in Int
      BY <3>1, Reduced, FieldIsInt
    <3>4. Add(Residue(-s), Residue(-t)) = Residue((-s) + (-t))
      <4>1. Add(Residue(-s), Residue(-t)) = Residue((-s) + Residue(-t))
        BY <3>1, <3>3, Reduced
      <4>2. Add(-s, Residue(-t)) = Residue((-s) + (-t))
        BY <3>1, Reduced
      <4>3. Add(-s, Residue(-t)) = Residue((-s) + Residue(-t))
        BY <3>1, <3>3, Reduced
      <4> QED BY <4>1, <4>2, <4>3
    <3>5. Neg(Residue(s + t)) = Residue(-(s + t))
      <4>0. Residue(s + t) \in Int
        <5>1. Residue(s + t) \in Field
          BY <3>1, Reduced
        <5> QED BY <5>1, FieldIsInt
      <4>1. Residue(s + t) \in Int /\ 0 \in Int /\ 0 - (s + t) = -(s + t) /\ 0 - (s + t) \in Int
        BY <3>1, <4>0
      <4>2. Neg(Residue(s + t)) = Residue(-Residue(s + t))
        BY <4>1, Reduced
      <4>3. Sub(0, Residue(s + t)) = Residue(0 - Residue(s + t))
        BY <4>1, Reduced
      <4>4. Sub(0, Residue(s + t)) = Residue(0 - (s + t))
        BY <3>1, <4>1, Reduced
      <4>5. 0 - Residue(s + t) = -Residue(s + t)
        BY <4>1
      <4> QED BY <4>1, <4>2, <4>3, <4>4, <4>5
    <3> QED BY <3>1, <3>2, <3>4, <3>5
  <2> QED BY <2>6, <2>7, <2>8 DEF m
<1> HIDE DEF S
<1>3. v \in S
  BY <1>1, <1>2, TreeInduction
<1> QED BY <1>3 DEF S
-----------------------------------------------------------------------------
(***************************************************************************)
(* Where the functions panic.                                              *)
(***************************************************************************)

\* A product of at least two different factors x - a is no power of x.
LEMMA TreeIsNoPower ==
  ASSUME NEW v \in Domains, DistinctPoints(v), Len(v) >= 2
  PROVE  \E j \in 1 .. Len(v) : SubproductTree(v)[j] # 0
<1> DEFINE m == SubproductTree(v)
           n == Len(v)
<1>1. /\ n \in Nat \ {0} /\ \A i \in 1 .. n : v[i] \in Field
      /\ m \in Seq(Field) /\ Len(m) = n + 1 /\ m[n + 1] = 1
      /\ \A x \in Field : Evaluate(m, x) = Vanishing(v, x)
  BY TreeIs, DomainLength DEF Monic
<1> HIDE DEF m
<1> SUFFICES ASSUME \A j \in 1 .. n : m[j] = 0
             PROVE  FALSE
  BY DEF m
<1>2. PICK k \in 1 .. n : v[k] # 0
  <2>1. 1 \in 1 .. n /\ 2 \in 1 .. n
    BY <1>1
  <2>2. v[1] # v[2]
    BY <2>1 DEF DistinctPoints
  <2> QED BY <2>1, <2>2
<1> DEFINE x == v[k]
           t == [i \in 1 .. n + 1 |-> Mul(m[i], Power(x, i - 1))]
<1>3. x \in Field /\ x # 0 /\ Power(x, n) \in Field /\ Power(x, n) # 0
  BY <1>1, <1>2, PowerUnfolds, PowerNonzero
<1>4. \A i \in 1 .. n + 1 : t[i] = IF i = n + 1 THEN Power(x, n) ELSE 0
  <2> TAKE i \in 1 .. n + 1
  <2>1. i - 1 \in Nat /\ (i # n + 1 => i \in 1 .. n) /\ (n + 1) - 1 = n
    BY <1>1
  <2>2. Power(x, i - 1) \in Field
    BY <1>3, <2>1, PowerUnfolds
  <2>3. i = n + 1 => t[i] = Mul(1, Power(x, n))
    BY <1>1, <2>1
  <2>4. i # n + 1 => t[i] = Mul(0, Power(x, i - 1))
    BY <2>1
  <2> QED BY <1>3, <2>2, <2>3, <2>4, MulLaws
<1>5. Evaluate(m, x) = SumTo(t, n + 1)
  BY <1>1 DEF Evaluate
<1> HIDE DEF t
<1>6. SumTo(t, n + 1) = Power(x, n)
  <2>1. n + 1 \in Nat /\ n + 1 \in 1 .. n + 1
    BY <1>1
  <2> QED BY <1>3, <1>4, <2>1, SumSingle
<1>7. Evaluate(m, x) = 0
  BY <1>1, <1>3, VanishingAtPoint
<1> QED BY <1>3, <1>5, <1>6, <1>7

\* fast_divide_monic by the product of the x - v[i] panics exactly when the
\* iteration takes a second step and the points sum to zero.
LEMMA DivisionPanics ==
  ASSUME NEW v \in Domains, DistinctPoints(v),
         NEW g \in Seq(Field), Trimmed(g), Len(g) - Len(v) <= 4
  PROVE  FastDivideMonic(g, SubproductTree(v)).remainder = Panic <=> NewtonFails(g, v)
<1> DEFINE m == SubproductTree(v)
           n == Len(v)
           l == Len(g)
           d == Reverse(m)
           r == FastDivideMonic(g, m).remainder
           sum == SumTo(v, n)
<1>1. /\ n \in Nat \ {0} /\ l \in Nat /\ Monic(m)
      /\ m \in Seq(Field) /\ Len(m) = n + 1 /\ m[n + 1] = 1 /\ m[n] = Neg(sum)
      /\ n >= 2 => \E j \in 1 .. n : m[j] # 0
      /\ l - n <= 4
  BY TreeIs, DomainLength, TreeSecond, TreeIsNoPower, SeqIsPolynomial DEF Monic
<1>2. sum \in Field /\ (Neg(sum) = 0 <=> sum = 0)
  <2>1. sum \in Field
    BY <1>1, DomainLength, SumInField
  <2>2. 0 \in Field /\ Neg(sum) = Sub(0, sum) /\ Sub(0, 0) = 0
    BY <2>1, Closed, SubLaws
  <2> QED BY <2>1, <2>2, SubLaws
<1> HIDE DEF m
<1>3. /\ d \in Seq(Field) /\ Len(d) = n + 1
      /\ \A i \in 1 .. n + 1 : d[i] = m[n + 2 - i]
  BY <1>1, ReverseIs
<1>4. CASE l < n + 1
  <2>1. r = g
    BY <1>1, <1>4, DivisionShape
  <2>2. ~(l - n >= 3)
    BY <1>1, <1>4
  <2> QED BY <2>1, <2>2, PanicIsNoPolynomial DEF NewtonFails, m
<1>5. CASE l >= n + 1
  <2> DEFINE diff == l - Len(m)
             inverse == InverseModXl(Reverse(m), diff + 1)
             q == QuotientBy(g, inverse, diff)
  <2>1. r = Panic <=> inverse = Panic
    <3>1. /\ inverse = Panic => r = Panic
          /\ inverse # Panic => q \in Seq(Field) /\ r = PolySub(g, PolyMul(m, q))
      BY <1>1, <1>5, DivisionShape, TrimmedDefined DEF Subtract
    <3> HIDE DEF inverse, q, r
    <3>2. inverse # Panic => r \in Seq(Field)
      <4> HAVE inverse # Panic
      <4>1. PolyMul(m, q) \in Seq(Field)
        BY <1>1, <3>1, PolyMulIs
      <4> QED BY <3>1, <4>1, PolySubIs
    <3> QED BY <3>1, <3>2, PanicIsNoPolynomial
  <2>2. diff + 1 = l - n /\ l - n \in {1, 2, 3, 4}
    BY <1>1, <1>5
  <2>3. inverse = InverseModXl(d, l - n)
    BY <2>2
  <2> HIDE DEF inverse, r
  <2>4. d # <<>> /\ Len(d) # 0 /\ d[1] = 1
    <3>1. 1 \in 1 .. n + 1 /\ n + 2 - 1 = n + 1 /\ n + 1 # 0
      BY <1>1
    <3> QED BY <1>1, <1>3, <3>1
  <2>5. Coefficient(d, 2) = Neg(sum)
    <3>1. 2 \in Int /\ 2 \in 1 .. n + 1 /\ n + 2 - 2 = n
      BY <1>1
    <3>2. Coefficient(d, 2) = d[2]
      BY <1>3, <3>1, CoefficientIs
    <3> QED BY <1>1, <1>3, <3>1, <3>2
  <2>6. sum = 0 => (n >= 2 <=> \E i \in Nat : i >= 3 /\ Coefficient(d, i) # 0)
    <3> HAVE sum = 0
    <3>1. ASSUME n >= 2
          PROVE  \E i \in Nat : i >= 3 /\ Coefficient(d, i) # 0
      <4>1. PICK j \in 1 .. n : m[j] # 0
        BY <1>1, <3>1
      <4>2. j # n
        BY <1>1, <1>2, <4>1
      <4>3. /\ n + 2 - j \in Nat /\ n + 2 - j >= 3 /\ n + 2 - j \in 1 .. n + 1
            /\ n + 2 - j \in Int /\ n + 2 - (n + 2 - j) = j
        BY <1>1, <4>1, <4>2
      <4>4. Coefficient(d, n + 2 - j) = m[j]
        BY <1>3, <4>3, CoefficientIs
      <4> QED BY <4>1, <4>3, <4>4
    <3>2. ASSUME NEW i \in Nat, i >= 3, Coefficient(d, i) # 0
          PROVE  n >= 2
      <4>1. i \in Int /\ i \in 1 .. n + 1
        BY <1>3, <3>2, CoefficientIs
      <4> QED BY <1>1, <3>2, <4>1
    <3> QED BY <3>1, <3>2
  <2> HIDE DEF d, n, l, sum
  <2>7. CASE l - n \in {1, 2}
    <3>1. inverse # Panic
      BY <1>3, <2>3, <2>4, <2>7, ShortInverse
    <3>2. ~(l - n >= 3)
      BY <2>7
    <3> QED BY <2>1, <3>1, <3>2 DEF NewtonFails, r, m, n, l
  <2>8. CASE l - n \in {3, 4}
    <3>1. inverse = Panic
            <=> Coefficient(d, 2) = 0 /\ \E i \in Nat : i >= 3 /\ Coefficient(d, i) # 0
      BY <1>3, <2>3, <2>4, <2>8, ShortInverse
    <3>2. l - n >= 3
      BY <2>8
    <3>3. r = Panic <=> sum = 0 /\ n >= 2
      BY <1>2, <2>1, <2>5, <2>6, <3>1
    <3> QED BY <3>2, <3>3 DEF NewtonFails, r, m, n, l, sum
  <2> QED BY <2>2, <2>7, <2>8
<1> QED BY <1>1, <1>4, <1>5
\* The halves of different points, and how a node of the tree divides.
LEMMA HalvesDiffer ==
  ASSUME NEW v \in Domains, DistinctPoints(v), Len(v) # 1
  PROVE  DistinctPoints(FirstHalf(v)) /\ DistinctPoints(SecondHalf(v))
<1> DEFINE a == FirstHalf(v)
           b == SecondHalf(v)
           h == Half(v)
<1>1. /\ Len(v) \in Nat /\ h \in 1 .. Len(v) - 1
      /\ Len(a) = h /\ Len(b) = Len(v) - h
      /\ \A i \in 1 .. h : a[i] = v[i]
      /\ \A i \in 1 .. Len(v) - h : b[i] = v[h + i]
  BY Halves
<1> HIDE DEF a, b, h
<1>2. DistinctPoints(a)
  <2> SUFFICES ASSUME NEW j \in 1 .. Len(a), NEW k \in 1 .. Len(a), a[j] = a[k]
               PROVE  j = k
    BY DEF DistinctPoints
  <2>1. j \in 1 .. Len(v) /\ k \in 1 .. Len(v) /\ v[j] = v[k]
    BY <1>1
  <2> QED BY <2>1 DEF DistinctPoints
<1>3. DistinctPoints(b)
  <2> SUFFICES ASSUME NEW j \in 1 .. Len(b), NEW k \in 1 .. Len(b), b[j] = b[k]
               PROVE  j = k
    BY DEF DistinctPoints
  <2>1. h + j \in 1 .. Len(v) /\ h + k \in 1 .. Len(v) /\ v[h + j] = v[h + k]
    BY <1>1
  <2>2. h + j = h + k
    BY <2>1 DEF DistinctPoints
  <2> QED BY <1>1, <2>2
<1> QED BY <1>2, <1>3 DEF a, b

\* A division at the root: it panics with the iteration, and evaluation at the
\* half it is for panics with it, and otherwise only at a zero.
LEMMA BranchPanics ==
  ASSUME NEW w \in Domains, DistinctPoints(w), Len(w) <= 4,
         NEW g \in Seq(Field), Trimmed(g), Len(g) - Len(w) <= 4
  PROVE  TreeEvaluate(RemainderBy(g, w), w) = Panic
           <=> NewtonFails(g, w) \/ \E k \in 1 .. Len(w) : Evaluate(g, w[k]) = 0
<1> DEFINE r == RemainderBy(g, w)
           m == SubproductTree(w)
<1>1. r = Panic <=> NewtonFails(g, w)
  BY DivisionPanics DEF RemainderBy
<1>2. Monic(m) /\ Len(m) = Len(w) + 1 /\ Len(w) \in Nat \ {0} /\ r = FastDivideMonic(g, m).remainder
  BY TreeIs, DomainLength DEF RemainderBy
<1> HIDE DEF m
<1>3. CASE r = Panic
  <2>1. r \in Dividends
    BY <1>3 DEF Dividends
  <2>2. TreeEvaluate(r, w) = NodeValue(w, r, TreeEvaluate(RemainderBy(r, FirstHalf(w)), FirstHalf(w)),
                                   TreeEvaluate(RemainderBy(r, SecondHalf(w)), SecondHalf(w)))
    BY <2>1, EvaluationUnfolds
  <2> HIDE DEF r
  <2>3. TreeEvaluate(r, w) = Panic
    BY <1>3, <2>2 DEF NodeValue
  <2> QED BY <1>1, <1>3, <2>3 DEF r
<1>4. CASE r # Panic
  <2>1. /\ r \in Seq(Field) /\ Trimmed(r)
        /\ \A k \in 1 .. Len(w) : Evaluate(r, w[k]) = Evaluate(g, w[k])
    BY <1>4, RemainderIs
  <2>2. Len(r) < Len(m)
    BY <1>2, <1>4, TrimmedDefined, DivisionIsEuclids
  <2>3. Len(r) <= Len(w)
    BY <1>2, <2>1, <2>2, SeqIsPolynomial
  <2> HIDE DEF r
  <2>4. ASSUME NEW k \in 1 .. Len(w), Evaluate(g, w[k]) = 0
        PROVE  TreeEvaluate(r, w) = Panic
    BY <2>1, <2>4, TreeEvaluateGivesValues DEF Proper
  <2>5. ASSUME \A k \in 1 .. Len(w) : Evaluate(g, w[k]) # 0
        PROVE  TreeEvaluate(r, w) # Panic
    BY <2>1, <2>3, <2>5, SmallTreeSucceeds
  <2> QED BY <1>1, <1>4, <2>4, <2>5 DEF r
<1> QED BY <1>3, <1>4

LEMMA TreePanics ==
  ASSUME NEW v \in Domains, DistinctPoints(v), Len(v) <= 8,
         NEW g \in Seq(Field), Trimmed(g), Len(g) <= Len(v)
  PROVE  TreeEvaluate(g, v) = Panic
           <=> TreeFails(g, v) \/ \E k \in 1 .. Len(v) : Evaluate(g, v[k]) = 0
<1> DEFINE a == FirstHalf(v)
           b == SecondHalf(v)
           x == TreeEvaluate(RemainderBy(g, a), a)
           y == TreeEvaluate(RemainderBy(g, b), b)
<1>1. /\ g # Panic /\ DegreeDefined(g) /\ ~(Degree(g) >= Len(v))
      /\ TreeEvaluate(g, v) = NodeValue(v, g, x, y)
  <2>1. g \in Dividends /\ g # Panic
    BY PanicIsNoPolynomial DEF Dividends
  <2>2. Len(v) \in Nat \ {0}
    BY DomainLength
  <2>3. DegreeDefined(g) /\ ~(Degree(g) >= Len(v))
    BY <2>2, TrimmedDegree
  <2> QED BY <2>1, <2>3, EvaluationUnfolds
<1>2. ASSUME NEW k \in 1 .. Len(v), Evaluate(g, v[k]) = 0
      PROVE  TreeEvaluate(g, v) = Panic
  BY <1>2, TreeEvaluateGivesValues DEF Proper
<1>3. CASE Len(v) = 1
  <2>1. ~TreeFails(g, v)
    BY <1>3 DEF TreeFails
  <2>2. CASE g = <<>>
    <3>1. Len(g) = 0 /\ g \in Polynomials(Len(g))
      BY <2>2, SeqIsPolynomial
    <3>2. v[1] \in Field /\ 1 \in 1 .. Len(v)
      BY <1>3, DomainLength
    <3>3. Evaluate(g, v[1]) = 0
      BY <3>1, <3>2, EmptyPolynomial
    <3> QED BY <1>2, <3>2, <3>3
  <2>3. CASE g # <<>>
    <3>1. TreeEvaluate(g, v) = <<g[1]>>
      BY <1>1, <1>3, <2>3 DEF NodeValue
    <3>2. g[1] \in Field
      <4>1. Len(g) \in Nat \ {0}
        BY <2>3, SeqIsPolynomial, EmptySeq
      <4>2. 1 \in 1 .. Len(g)
        BY <4>1
      <4> QED BY <4>2, SeqIsPolynomial
    <3>3. TreeEvaluate(g, v) # Panic
      <4>1. <<g[1]>> \in Seq(Field)
        BY <3>2, SingleOfField
      <4> QED BY <3>1, <4>1, PanicIsNoPolynomial
    <3> QED BY <1>2, <2>1, <3>3
  <2> QED BY <2>2, <2>3
<1>4. CASE Len(v) # 1
  <2>1. /\ a \in Domains /\ b \in Domains /\ Len(v) \in Nat
        /\ Half(v) \in 1 .. Len(v) - 1
        /\ Len(a) = Half(v) /\ Len(b) = Len(v) - Half(v)
        /\ \A i \in 1 .. Half(v) : a[i] = v[i]
        /\ \A i \in 1 .. Len(v) - Half(v) : b[i] = v[Half(v) + i]
        /\ DistinctPoints(a) /\ DistinctPoints(b)
    BY <1>4, Halves, HalvesDiffer
  <2>2. Half(v) <= 4 /\ Len(v) - Half(v) <= 4 /\ Len(v) >= 2
    BY <2>1 DEF Half
  <2>3. Len(a) <= 4 /\ Len(b) <= 4 /\ Len(g) - Len(a) <= 4 /\ Len(g) - Len(b) <= 4
    <3>1. Len(g) \in Nat
      BY SeqIsPolynomial
    <3> QED BY <2>1, <2>2, <3>1
  <2>4. TreeFails(g, v) <=> NewtonFails(g, a) \/ NewtonFails(g, b)
    BY <2>2 DEF TreeFails
  <2>5. x = Panic <=> NewtonFails(g, a) \/ \E k \in 1 .. Len(a) : Evaluate(g, a[k]) = 0
    <3> HIDE DEF a
    <3> QED BY <2>1, <2>3, BranchPanics
  <2>6. y = Panic <=> NewtonFails(g, b) \/ \E k \in 1 .. Len(b) : Evaluate(g, b[k]) = 0
    <3> HIDE DEF b
    <3> QED BY <2>1, <2>3, BranchPanics
  <2>7. (\E k \in 1 .. Len(v) : Evaluate(g, v[k]) = 0)
           <=> \/ \E k \in 1 .. Len(a) : Evaluate(g, a[k]) = 0
               \/ \E k \in 1 .. Len(b) : Evaluate(g, b[k]) = 0
    <3> HIDE DEF a, b
    <3>1. ASSUME NEW k \in 1 .. Len(a) PROVE k \in 1 .. Len(v) /\ a[k] = v[k]
      BY <2>1
    <3>2. ASSUME NEW k \in 1 .. Len(b)
          PROVE  Half(v) + k \in 1 .. Len(v) /\ b[k] = v[Half(v) + k]
      BY <2>1
    <3>3. ASSUME NEW k \in 1 .. Len(v), k > Half(v)
          PROVE  k - Half(v) \in 1 .. Len(b) /\ b[k - Half(v)] = v[k]
      <4>1. k - Half(v) \in 1 .. Len(b) /\ Half(v) + (k - Half(v)) = k
        BY <2>1, <3>3
      <4> QED BY <2>1, <4>1
    <3>4. ASSUME NEW k \in 1 .. Len(v), ~(k > Half(v))
          PROVE  k \in 1 .. Len(a) /\ a[k] = v[k]
      BY <2>1, <3>4
    <3> QED BY <3>1, <3>2, <3>3, <3>4
  <2>8. TreeEvaluate(g, v) = Panic <=> x = Panic \/ y = Panic
    <3>1. x = Panic \/ y = Panic => TreeEvaluate(g, v) = Panic
      <4> HIDE DEF x, y
      <4> QED BY <1>1, <1>4 DEF NodeValue
    <3>2. ASSUME x # Panic, y # Panic
          PROVE  TreeEvaluate(g, v) # Panic
      <4>1. x \in Seq(Field) /\ y \in Seq(Field)
        <5>1. ASSUME NEW z \in Domains
              PROVE  TreeEvaluate(RemainderBy(g, z), z) \in Dividends
          <6>1. RemainderBy(g, z) \in Dividends
            BY RemainderIs
          <6> QED BY <6>1, EvaluationUnfolds
        <5> QED BY <2>1, <3>2, <5>1 DEF Dividends
      <4> HIDE DEF x, y
      <4>2. TreeEvaluate(g, v) = x \o y
        BY <1>1, <1>4, <3>2 DEF NodeValue
      <4>3. x \o y \in Seq(Field)
        BY <4>1, ConcatOfField
      <4> QED BY <4>2, <4>3, PanicIsNoPolynomial
    <3> QED BY <3>1, <3>2
  <2> QED BY <2>4, <2>5, <2>6, <2>7, <2>8
<1> QED BY <1>3, <1>4

\* inverse_lagrange_coefficients evaluates the derivative of the product, which
\* has as many coefficients as there are points and vanishes at none of them.
LEMMA LagrangePanics ==
  ASSUME NEW v \in Domains, DistinctPoints(v), Len(v) <= 8, Len(v) < P
  PROVE  InverseLagrangeCoefficients(v) = Panic <=> TreeFails(v, v)
<1> DEFINE m == SubproductTree(v)
           g == Derivative(m)
           n == Len(v)
<1>1. n \in Nat \ {0} /\ n \in Int
  BY DomainLength
<1>2. CASE n = 1
  <2>1. InverseLagrangeCoefficients(v) = <<1>>
    BY <1>2 DEF InverseLagrangeCoefficients
  <2>2. <<1>> \in Seq(Field)
    BY Closed, SingleOfField
  <2>3. ~TreeFails(v, v)
    BY <1>2 DEF TreeFails
  <2> QED BY <2>1, <2>2, <2>3, PanicIsNoPolynomial
<1>3. CASE n # 1
  <2>1. InverseLagrangeCoefficients(v) = TreeEvaluate(g, v)
    BY <1>3 DEF InverseLagrangeCoefficients
  <2>2. g \in Seq(Field) /\ Trimmed(g) /\ Len(g) = n
    BY <1>1, DerivativeOfTree
  <2>3. \A k \in 1 .. n : Evaluate(g, v[k]) # 0
    <3> TAKE k \in 1 .. n
    <3>1. Evaluate(g, v[k]) = Spread(v, k)
      BY TreeIs DEF Slope
    <3> QED BY <3>1, SpreadIs DEF DistinctPoints
  <2>4. TreeFails(g, v) <=> TreeFails(v, v)
    <3> HIDE DEF g
    <3> QED BY <2>2 DEF TreeFails, NewtonFails
  <2> HIDE DEF g
  <2>5. Len(g) <= n
    BY <1>1, <2>2
  <2> QED BY <2>1, <2>2, <2>3, <2>4, <2>5, TreePanics
<1> QED BY <1>2, <1>3
-----------------------------------------------------------------------------
(***************************************************************************)
(* The invariants.                                                         *)
(***************************************************************************)

TypeOK ==
    /\ u \in Seq(Points) /\ Len(u) <= MaxPoints
    /\ f \in Seq(Coefficients) /\ Len(f) <= MaxCoefficients

IInv == TypeOK /\ DistinctPoints(u) /\ Trimmed(f)

LEMMA PointsInField == Seq(Points) \subseteq Seq(Field) /\ Seq(Coefficients) \subseteq Seq(Field)
BY InputAssumption

LEMMA InitInv == Init => IInv
<1> SUFFICES ASSUME Init PROVE IInv
  OBVIOUS
<1>1. PICK n \in 0 .. MaxCoefficients : f \in [1 .. n -> Coefficients]
  BY DEF Init
<1>2. n \in Nat /\ n <= MaxCoefficients
  BY InputAssumption
<1>3. f \in Seq(Coefficients) /\ Len(f) = n
  BY <1>1, <1>2
<1>4. Trimmed(f)
  <2>1. f \in Seq(Field)
    BY <1>3, PointsInField
  <2>2. f = Truncate(f)
    BY DEF Init
  <2>3. Truncate(f) # <<>> => Truncate(f)[Len(Truncate(f))] # 0
    BY <2>1, TruncateIs
  <2> QED BY <2>2, <2>3 DEF Trimmed
<1>5. u = <<>> /\ u \in Seq(Points) /\ Len(u) = 0 /\ 0 <= MaxPoints
  BY InputAssumption DEF Init
<1>6. DistinctPoints(u)
  BY <1>5 DEF DistinctPoints
<1> QED BY <1>2, <1>3, <1>4, <1>5, <1>6 DEF IInv, TypeOK

LEMMA NextInv == IInv /\ [Next]_vars => IInv'
<1> SUFFICES ASSUME IInv, [Next]_vars PROVE IInv'
  OBVIOUS
<1>1. CASE AddPoint
  <2> DEFINE n == Len(u)
  <2>1. PICK x \in Points \ Range(u) : u' = Append(u, x)
    BY <1>1 DEF AddPoint
  <2>2. /\ u \in Seq(Points) /\ n \in Nat /\ n < MaxPoints /\ MaxPoints \in Nat
        /\ DOMAIN u = 1 .. n /\ f' = f
    BY <1>1, InputAssumption DEF IInv, TypeOK, AddPoint
  <2>3. /\ u' \in Seq(Points) /\ Len(u') = n + 1 /\ u'[n + 1] = x
        /\ \A i \in 1 .. n : u'[i] = u[i]
    BY <2>1, <2>2
  <2>4. \A i \in 1 .. n : u[i] # x
    BY <2>1, <2>2 DEF Range
  <2>5. DistinctPoints(u')
    <3> SUFFICES ASSUME NEW j \in 1 .. n + 1, NEW k \in 1 .. n + 1, u'[j] = u'[k]
                 PROVE  j = k
      BY <2>3 DEF DistinctPoints
    <3>1. (j # n + 1 => j \in 1 .. n) /\ (k # n + 1 => k \in 1 .. n)
      BY <2>2
    <3>2. CASE j # n + 1 /\ k # n + 1
      BY <2>3, <3>1, <3>2 DEF IInv, DistinctPoints
    <3>3. CASE j = n + 1 \/ k = n + 1
      BY <2>3, <2>4, <3>1, <3>3
    <3> QED BY <3>2, <3>3
  <2>6. TypeOK'
    BY <2>2, <2>3 DEF IInv, TypeOK
  <2>7. Trimmed(f)'
    BY <2>2 DEF IInv, Trimmed
  <2> QED BY <2>5, <2>6, <2>7 DEF IInv, DistinctPoints
<1>2. CASE UNCHANGED vars
  BY <1>2 DEF IInv, TypeOK, DistinctPoints, Trimmed, vars
<1> QED BY <1>1, <1>2 DEF Next

LEMMA AlwaysIInv == Spec => []IInv
<1> QED BY InitInv, NextInv, PTL DEF Spec

\* What the invariant says of the two inputs.
LEMMA Inputs ==
  ASSUME IInv
  PROVE  /\ u # <<>> => /\ u \in Domains /\ DistinctPoints(u)
                        /\ Len(u) <= 8 /\ Len(u) < P /\ Len(f) - Len(u) <= 4
         /\ f \in Seq(Field) /\ Trimmed(f)
<1> DEFINE n == Len(u)
           l == Len(f)
<1>1. u \in Seq(Field) /\ f \in Seq(Field)
  BY PointsInField DEF IInv, TypeOK
<1>2. l \in Nat /\ l <= MaxCoefficients /\ n \in Nat /\ n <= MaxPoints
  BY <1>1, SeqIsPolynomial DEF IInv, TypeOK
<1>3. u # <<>> => u \in Domains /\ n \in Nat \ {0}
  BY <1>1, DomainLength DEF Domains
<1>4. /\ MaxPoints \in 0 .. 8 /\ MaxPoints < P /\ P \in Nat
      /\ MaxCoefficients \in 0 .. 5
  BY InputAssumption, ModulusIsNat
<1> HIDE DEF n, l
<1>5. n <= 8 /\ n < P /\ l <= 5
  BY <1>2, <1>4
<1>6. u # <<>> => l - n <= 4
  <2> HAVE u # <<>>
  <2>1. n \in Nat \ {0}
    BY <1>3
  <2> QED BY <1>2, <1>5, <2>1
<1> QED BY <1>1, <1>3, <1>5, <1>6 DEF IInv, n, l

\* fast_divide_monic (subproductdomain/src/lib.rs) by the product of the x - u[i]
\* is Euclid's division at every pair of degrees, and panics exactly where the
\* iteration meets a zero it cannot go on from.
THEOREM DivisionAlwaysEuclidean == Spec => []DivisionIsEuclidean
<1>1. ASSUME IInv PROVE DivisionIsEuclidean
  <2> DEFINE m == SubproductTree(u)
             d == FastDivideMonic(f, m)
  <2> SUFFICES ASSUME u # <<>>
               PROVE  IF NewtonFails(f, u) THEN d.remainder = Panic
                      ELSE /\ f = PolyAdd(PolyMul(d.quotient, m), d.remainder)
                           /\ Len(d.remainder) < Len(m)
                           /\ \A i \in 1 .. Len(u) :
                                 Evaluate(d.remainder, u[i]) = Evaluate(f, u[i])
    BY DEF DivisionIsEuclidean
  <2>1. /\ u \in Domains /\ DistinctPoints(u) /\ Len(f) - Len(u) <= 4
        /\ f \in Seq(Field) /\ Trimmed(f)
    BY <1>1, Inputs
  <2>2. d.remainder = Panic <=> NewtonFails(f, u)
    BY <2>1, DivisionPanics
  <2>3. ASSUME d.remainder # Panic
        PROVE  /\ f = PolyAdd(PolyMul(d.quotient, m), d.remainder)
               /\ Len(d.remainder) < Len(m)
               /\ \A i \in 1 .. Len(u) :
                     Evaluate(d.remainder, u[i]) = Evaluate(f, u[i])
    <3>1. Monic(m) /\ m \in Seq(Field)
      BY <2>1, TreeIs DEF Monic
    <3>2. \A i \in 1 .. Len(u) : Evaluate(d.remainder, u[i]) = Evaluate(f, u[i])
      <4>1. RemainderBy(f, u) = d.remainder
        BY DEF RemainderBy
      <4> QED BY <2>1, <2>3, <4>1, RemainderIs
    <3> HIDE DEF m
    <3>3. /\ d.quotient \in Seq(Field) /\ d.remainder \in Seq(Field)
          /\ Agree(f, PolyAdd(PolyMul(d.quotient, m), d.remainder))
          /\ Len(d.remainder) < Len(m)
      BY <2>1, <2>3, <3>1, TrimmedDefined, DivisionIsEuclids
    <3> HIDE DEF d
    <3>4. PolyMul(d.quotient, m) \in Seq(Field)
      BY <3>1, <3>3, PolyMulIs
    <3>5. /\ PolyAdd(PolyMul(d.quotient, m), d.remainder) \in Seq(Field)
          /\ Trimmed(PolyAdd(PolyMul(d.quotient, m), d.remainder))
      BY <3>3, <3>4, PolyAddIs
    <3>6. f = PolyAdd(PolyMul(d.quotient, m), d.remainder)
      BY <2>1, <3>3, <3>5, TrimmedEqual
    <3> QED BY <3>2, <3>3, <3>6
  <2> QED BY <2>2, <2>3
<1> QED BY <1>1, AlwaysIInv, PTL

\* SubproductTree::evaluate (subproductdomain/src/lib.rs) gives the value at each
\* point in the order of the points, and panics exactly at a zero value or where
\* the points of a half sum to zero.
THEOREM TreeAlwaysEvaluates == Spec => []TreeEvaluates
<1>1. ASSUME IInv PROVE TreeEvaluates
  <2> SUFFICES ASSUME u # <<>>, Len(f) <= Len(u)
               PROVE  TreeEvaluate(f, u) =
                        IF TreeFails(f, u) \/ \E i \in 1 .. Len(u) : Evaluate(f, u[i]) = 0
                        THEN Panic
                        ELSE [i \in 1 .. Len(u) |-> Evaluate(f, u[i])]
    BY DEF TreeEvaluates
  <2>1. /\ u \in Domains /\ DistinctPoints(u) /\ Len(u) <= 8
        /\ f \in Seq(Field) /\ Trimmed(f)
    BY <1>1, Inputs
  <2>2. TreeEvaluate(f, u) = Panic
          <=> TreeFails(f, u) \/ \E i \in 1 .. Len(u) : Evaluate(f, u[i]) = 0
    BY <2>1, TreePanics
  <2>3. TreeEvaluate(f, u) # Panic =>
          TreeEvaluate(f, u) = [i \in 1 .. Len(u) |-> Evaluate(f, u[i])]
    BY <2>1, TreeEvaluateGivesValues
  <2> QED BY <2>2, <2>3
<1> QED BY <1>1, AlwaysIInv, PTL

\* inverse_lagrange_coefficients (subproductdomain/src/lib.rs) gives each point the
\* product of its differences to the others, or panics where the points of a half
\* sum to zero and the derivative is long enough.
THEOREM LagrangeAlwaysFromTree == Spec => []LagrangeFromTree
<1>1. ASSUME IInv PROVE LagrangeFromTree
  <2> DEFINE differences == [k \in 1 .. Len(u) |->
                               ProductTo([j \in 1 .. Len(u) |->
                                  IF j = k THEN 1 ELSE Sub(u[k], u[j])], Len(u))]
  <2> SUFFICES ASSUME u # <<>>
               PROVE  InverseLagrangeCoefficients(u) =
                        IF TreeFails(u, u) THEN Panic ELSE differences
    BY DEF LagrangeFromTree
  <2>1. u \in Domains /\ DistinctPoints(u) /\ Len(u) <= 8 /\ Len(u) < P
    BY <1>1, Inputs
  <2>2. InverseLagrangeCoefficients(u) = Panic <=> TreeFails(u, u)
    BY <2>1, LagrangePanics
  <2>3. InverseLagrangeCoefficients(u) # Panic =>
          InverseLagrangeCoefficients(u) = [k \in 1 .. Len(u) |-> Spread(u, k)]
    BY <2>1, LagrangeFromTreeIs
  <2>4. [k \in 1 .. Len(u) |-> Spread(u, k)] = differences
    BY DEF Spread
  <2> HIDE DEF differences
  <2> QED BY <2>2, <2>3, <2>4
<1> QED BY <1>1, AlwaysIInv, PTL

\* interpolate (subproductdomain/src/lib.rs) gives a polynomial back from its
\* values at the points of the domain, unless its Lagrange coefficients panic.
THEOREM InterpolateAlwaysInverts == Spec => []InterpolateInverts
<1>1. ASSUME IInv PROVE InterpolateInverts
  <2> DEFINE c == Interpolate(u, [i \in 1 .. Len(u) |-> Evaluate(f, u[i])])
  <2> SUFFICES ASSUME u # <<>>, Len(f) <= Len(u), ~TreeFails(u, u)
               PROVE  Truncate(c) = f
    BY DEF InterpolateInverts
  <2>1. /\ u \in Domains /\ DistinctPoints(u) /\ Len(u) <= 8 /\ Len(u) < P
        /\ f \in Seq(Field) /\ Trimmed(f)
    BY <1>1, Inputs
  <2>2. InverseLagrangeCoefficients(u) # Panic
    BY <2>1, LagrangePanics
  <2>3. c \in Seq(Field) /\ Agree(c, f)
    BY <2>1, <2>2, InterpolateIsInverse
  <2> HIDE DEF c
  <2>4. Truncate(c) \in Seq(Field) /\ Agree(c, Truncate(c)) /\ Trimmed(Truncate(c))
    BY <2>3, TruncateIs DEF Trimmed
  <2>5. Agree(Truncate(c), f)
    BY <2>3, <2>4 DEF Agree
  <2> QED BY <2>1, <2>4, <2>5, TrimmedEqual
<1> QED BY <1>1, AlwaysIInv, PTL

\* toeplitz_mul (subproductdomain/src/lib.rs), with the points as its vector, is
\* the product of the matrix and the vector, also where the polynomial fills the
\* matrix exactly.
THEOREM ToeplitzAlwaysProduct == Spec => []ToeplitzIsProduct
<1>1. ASSUME IInv PROVE ToeplitzIsProduct
  <2> DEFINE product == ToeplitzMul(f, u, Len(u))
  <2> SUFFICES ASSUME u # <<>>, f # <<>>, NEW i \in 1 .. Len(product)
               PROVE  product[i] = SumTo([k \in 1 .. Len(u) |->
                                     Mul(Coefficient(f, i + k), u[k])], Len(u))
    BY DEF ToeplitzIsProduct
  <2>1. u \in Seq(Field) /\ Len(u) \in Nat \ {0} /\ f \in Seq(Field) /\ Len(f) # 0
    <3>1. u \in Domains /\ f \in Seq(Field)
      BY <1>1, Inputs
    <3>2. u \in Seq(Field) /\ Len(u) \in Nat \ {0}
      BY <3>1, DomainLength
    <3>3. Len(f) # 0
      BY <3>1, EmptySeq
    <3> QED BY <3>1, <3>2, <3>3
  <2>2. Len(u) <= Len(u)
    BY <2>1
  <2>3. DegreeDefined(f)
    BY <1>1, <2>1, Inputs, TrimmedDefined
  <2> QED BY <2>1, <2>2, <2>3, ToeplitzMulIs
<1> QED BY <1>1, AlwaysIInv, PTL
=============================================================================
