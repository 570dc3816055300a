------------------------ MODULE InterpolationProofs ------------------------
(***************************************************************************)
(* lagrange_basis_at interpolates, for every prime P and any number of     *)
(* points: the values of a polynomial at n different points, weighted with *)
(* the coefficients, add up to its value at x when it has at most n        *)
(* coefficients (LagrangeInterpolates).                                    *)
(*                                                                         *)
(* The argument is an induction on the number of points.  Dividing the     *)
(* polynomial by x - a, where a is the last point, leaves a polynomial     *)
(* with one coefficient less on one point less, and a constant; a constant *)
(* is met because the coefficients add up to 1 (PartitionOfUnity).         *)
(***************************************************************************)
EXTENDS Refresh, PolynomialProofs

\* n different points.
Distinct(xs, n) ==
    /\ \A i \in 1 .. n : xs[i] \in Field
    /\ \A i, j \in 1 .. n : xs[i] = xs[j] => i = j

Factor(xs, x, j, m) ==
    IF xs[m] = xs[j] THEN 1 ELSE Div(Sub(xs[m], x), Sub(xs[m], xs[j]))

\* The coefficient of point j among the first n.
Basis(xs, n, x, j) == ProductTo([m \in 1 .. n |-> Factor(xs, x, j, m)], n)

LEMMA LagrangeIsBasis ==
  ASSUME NEW xs, NEW x, NEW j \in 1 .. Len(xs)
  PROVE  LagrangeBasisAt(xs, x)[j] = Basis(xs, Len(xs), x, j)
BY DEF LagrangeBasisAt, Basis, Factor

LEMMA FactorInField ==
  ASSUME NEW n \in Nat, NEW xs, Distinct(xs, n), NEW x \in Field,
         NEW j \in 1 .. n, NEW m \in 1 .. n
  PROVE  Factor(xs, x, j, m) \in Field
<1>1. xs[m] \in Field /\ xs[j] \in Field
  BY DEF Distinct
<1>2. CASE xs[m] = xs[j]
  BY <1>2, Closed DEF Factor
<1>3. CASE xs[m] # xs[j]
  <2>1. Sub(xs[m], xs[j]) \in Field \ {0} /\ Sub(xs[m], x) \in Field
    BY <1>1, <1>3, Differences
  <2>2. Inv(Sub(xs[m], xs[j])) \in Field
    BY <2>1, InverseLaws
  <2> QED BY <1>3, <2>1, <2>2, Closed DEF Factor, Div
<1> QED BY <1>2, <1>3

LEMMA BasisInField ==
  ASSUME NEW n \in Nat, NEW xs, Distinct(xs, n), NEW x \in Field, NEW j \in 1 .. n
  PROVE  Basis(xs, n, x, j) \in Field
<1> DEFINE f == [m \in 1 .. n |-> Factor(xs, x, j, m)]
<1>1. \A m \in 1 .. n : f[m] \in Field
  BY FactorInField
<1> HIDE DEF f
<1>2. ProductTo(f, n) \in Field
  BY <1>1, ProductInField
<1> QED BY <1>2 DEF Basis, f

\* The factor of a point a, times the distance of y to a.
LEMMA FactorCancels ==
  ASSUME NEW a \in Field, NEW x \in Field, NEW y \in Field, y # a
  PROVE  Mul(Sub(y, a), Div(Sub(a, x), Sub(a, y))) = Sub(x, a)
<1> DEFINE u == Sub(a, y)  v == Sub(a, x)  i == Inv(u)
<1>1. u \in Field \ {0} /\ v \in Field
  BY Closed, SubLaws
<1>2. i \in Field /\ Mul(u, i) = 1
  BY <1>1, InverseLaws
<1>3. Sub(y, a) = Sub(0, u) /\ Sub(x, a) = Sub(0, v)
  BY <1>1, SubLaws
<1> HIDE DEF u, v, i
<1>4. Mul(v, i) \in Field
  BY <1>1, <1>2, Closed
<1>5. Mul(u, Mul(v, i)) = v
  <2>1. Mul(v, i) = Mul(i, v)
    BY <1>1, <1>2, MulLaws
  <2>2. Mul(Mul(u, i), v) = Mul(u, Mul(i, v))
    BY <1>1, <1>2, MulLaws
  <2> QED BY <1>1, <1>2, <2>1, <2>2, MulLaws
<1>6. Mul(Sub(0, u), Mul(v, i)) = Sub(0, v)
  <2>0. Sub(0, u) \in Field
    BY <1>1, Closed
  <2>1. Mul(Mul(v, i), Sub(0, u)) = Sub(Mul(Mul(v, i), 0), Mul(Mul(v, i), u))
    BY <1>1, <1>4, Closed, Distributes
  <2>2. Mul(Mul(v, i), 0) = 0 /\ Mul(Mul(v, i), u) = Mul(u, Mul(v, i))
    BY <1>1, <1>4, MulLaws
  <2>3. Mul(Mul(v, i), Sub(0, u)) = Mul(Sub(0, u), Mul(v, i))
    BY <1>4, <2>0, MulLaws
  <2> QED BY <1>5, <2>1, <2>2, <2>3
<1> QED BY <1>3, <1>6 DEF Div, u, v, i

\* The coefficient among the points without the last one.
LEMMA WithoutLast ==
  ASSUME NEW n \in Nat, NEW xs, Distinct(xs, n + 1), NEW x \in Field,
         NEW j \in 1 .. n
  PROVE  /\ Distinct(xs, n)
         /\ Mul(Sub(xs[j], xs[n + 1]), Basis(xs, n + 1, x, j))
              = Mul(Sub(x, xs[n + 1]), Basis(xs, n, x, j))
<1> DEFINE f == [m \in 1 .. n + 1 |-> Factor(xs, x, j, m)]
           g == [m \in 1 .. n |-> Factor(xs, x, j, m)]
           a == xs[n + 1]
           d == Sub(xs[j], a)
           b == Basis(xs, n, x, j)
           e == Factor(xs, x, j, n + 1)
<1>1. Distinct(xs, n)
  BY DEF Distinct
<1>2. a \in Field /\ xs[j] \in Field /\ xs[j] # a
  BY DEF Distinct
<1>3. Basis(xs, n + 1, x, j) = Mul(b, e)
  <2>1. \A m \in 1 .. n : f[m] = g[m]
    OBVIOUS
  <2>2. f[n + 1] = e
    OBVIOUS
  <2>3. Basis(xs, n + 1, x, j) = ProductTo(f, n + 1) /\ b = ProductTo(g, n)
    BY DEF Basis
  <2> HIDE DEF f, g, b, e
  <2>4. ProductTo(f, n + 1) = Mul(ProductTo(f, n), f[n + 1])
    BY ProductUnfolds
  <2>5. ProductTo(f, n) = ProductTo(g, n)
    BY <2>1, SameProduct
  <2> QED BY <2>2, <2>3, <2>4, <2>5
<1>4. b \in Field
  BY <1>1, BasisInField
<1>5. e \in Field
  BY FactorInField
<1>6. d \in Field
  BY <1>2, Closed
<1>7. Mul(d, e) = Sub(x, a)
  BY <1>2, FactorCancels DEF Factor
<1> HIDE DEF a, b, d, e
<1>8. Mul(d, Mul(b, e)) = Mul(Mul(d, e), b)
  <2>1. Mul(b, e) = Mul(e, b)
    BY <1>4, <1>5, MulLaws
  <2>2. Mul(Mul(d, e), b) = Mul(d, Mul(e, b))
    BY <1>4, <1>5, <1>6, MulLaws
  <2> QED BY <2>1, <2>2
<1> QED BY <1>1, <1>3, <1>7, <1>8 DEF a, b, d

\* The coefficient among the points without the first one.
LEMMA WithoutFirst ==
  ASSUME NEW n \in Nat, NEW xs, Distinct(xs, n + 1), NEW x \in Field,
         NEW j \in 1 .. n
  PROVE  /\ Distinct(Shifted(xs, n), n)
         /\ Mul(Sub(xs[j + 1], xs[1]), Basis(xs, n + 1, x, j + 1))
              = Mul(Sub(x, xs[1]), Basis(Shifted(xs, n), n, x, j))
<1> DEFINE ys == Shifted(xs, n)
           f == [m \in 1 .. n + 1 |-> Factor(xs, x, j + 1, m)]
           g == [m \in 1 .. n |-> Factor(ys, x, j, m)]
           a == xs[1]
           d == Sub(xs[j + 1], a)
           b == Basis(ys, n, x, j)
           e == Factor(xs, x, j + 1, 1)
<1>0. \A m \in 1 .. n : ys[m] = xs[m + 1]
  BY DEF Shifted
<1> HIDE DEF ys
<1>1. Distinct(ys, n)
  BY <1>0 DEF Distinct
<1>2. a \in Field /\ xs[j + 1] \in Field /\ xs[j + 1] # a
  BY DEF Distinct
<1>3. Basis(xs, n + 1, x, j + 1) = Mul(e, b)
  <2>1. \A m \in 1 .. n : g[m] = f[m + 1]
    BY <1>0 DEF Factor
  <2>2. f[1] = e /\ \A m \in 1 .. n + 1 : f[m] \in Field
    BY FactorInField
  <2>3. Basis(xs, n + 1, x, j + 1) = ProductTo(f, n + 1) /\ b = ProductTo(g, n)
    BY DEF Basis
  <2> HIDE DEF f, g, b, e
  <2>4. ProductTo(f, n + 1) = Mul(f[1], ProductTo(g, n))
    BY <2>1, <2>2, ProductFirst
  <2> QED BY <2>2, <2>3, <2>4
<1>4. b \in Field
  BY <1>1, BasisInField
<1>5. e \in Field
  BY FactorInField
<1>6. d \in Field
  BY <1>2, Closed
<1>7. Mul(d, e) = Sub(x, a)
  BY <1>2, FactorCancels DEF Factor
<1> HIDE DEF a, b, d, e
<1>8. Mul(d, Mul(e, b)) = Mul(Mul(d, e), b)
  BY <1>4, <1>5, <1>6, MulLaws
<1> QED BY <1>1, <1>3, <1>7, <1>8 DEF a, b, d, ys

-----------------------------------------------------------------------------
(***************************************************************************)
(* Sums over the points.                                                   *)
(***************************************************************************)

\* Terms with the distance to the last point: the last vanishes and the others
\* are those of the points without it.
LEMMA SumWithoutLast ==
  ASSUME NEW n \in Nat, NEW xs, Distinct(xs, n + 1), NEW x \in Field,
         NEW w, \A j \in 1 .. n + 1 : w[j] \in Field
  PROVE  SumTo([j \in 1 .. n + 1 |->
                   Mul(w[j], Mul(Sub(xs[j], xs[n + 1]), Basis(xs, n + 1, x, j)))], n + 1)
           = Mul(Sub(x, xs[n + 1]), SumTo([j \in 1 .. n |-> Mul(w[j], Basis(xs, n, x, j))], n))
<1> DEFINE a == xs[n + 1]
           d == Sub(x, a)
           f == [j \in 1 .. n + 1 |->
                    Mul(w[j], Mul(Sub(xs[j], xs[n + 1]), Basis(xs, n + 1, x, j)))]
           g == [j \in 1 .. n |-> Mul(w[j], Basis(xs, n, x, j))]
<1>1. a \in Field /\ d \in Field
  <2>1. a \in Field
    BY DEF Distinct
  <2> QED BY <2>1, Closed
<1>2. ASSUME NEW j \in 1 .. n
      PROVE  g[j] \in Field /\ f[j] = Mul(d, g[j])
  <2> DEFINE b == Basis(xs, n, x, j)
  <2>0. Distinct(xs, n)
    BY WithoutLast
  <2>1. b \in Field /\ w[j] \in Field
    BY <2>0, BasisInField
  <2>2. f[j] = Mul(w[j], Mul(d, b)) /\ g[j] = Mul(w[j], b)
    BY WithoutLast
  <2> HIDE DEF b, d, f, g
  <2>3. g[j] \in Field
    BY <2>1, <2>2, Closed
  <2>4. Mul(w[j], Mul(d, b)) = Mul(Mul(w[j], d), b)
    BY <1>1, <2>1, MulLaws
  <2>5. Mul(w[j], d) = Mul(d, w[j])
    BY <1>1, <2>1, MulLaws
  <2>6. Mul(Mul(d, w[j]), b) = Mul(d, Mul(w[j], b))
    BY <1>1, <2>1, MulLaws
  <2> QED BY <2>2, <2>3, <2>4, <2>5, <2>6
<1>3. f[n + 1] = 0
  <2>1. Basis(xs, n + 1, x, n + 1) \in Field /\ w[n + 1] \in Field
    BY BasisInField
  <2>2. Sub(a, a) = 0
    BY <1>1, SubLaws
  <2>3. f[n + 1] = Mul(w[n + 1], Mul(0, Basis(xs, n + 1, x, n + 1)))
    BY <2>2
  <2> QED BY <2>1, <2>3, MulLaws
<1> HIDE DEF d, f, g
<1>4. SumTo(f, n) = Mul(d, SumTo(g, n))
  BY <1>1, <1>2, SumScaled
<1>5. SumTo(g, n) \in Field
  BY <1>2, SumInField
<1>6. SumTo(f, n + 1) = Add(SumTo(f, n), 0)
  BY <1>3, SumUnfolds
<1>7. Mul(d, SumTo(g, n)) \in Field
  BY <1>1, <1>5, Closed
<1>8. SumTo(f, n + 1) = Mul(d, SumTo(g, n))
  BY <1>4, <1>6, <1>7, AddLaws
<1> QED BY <1>8 DEF d, f, g

\* The same for the distance to the first point.
LEMMA SumWithoutFirst ==
  ASSUME NEW n \in Nat, NEW xs, Distinct(xs, n + 1), NEW x \in Field,
         NEW f, \A j \in 1 .. n + 1 :
                    f[j] = Mul(Sub(xs[j], xs[1]), Basis(xs, n + 1, x, j)),
         NEW g, \A j \in 1 .. n : g[j] = Basis(Shifted(xs, n), n, x, j)
  PROVE  SumTo(f, n + 1) = Mul(Sub(x, xs[1]), SumTo(g, n))
<1> DEFINE a == xs[1]  d == Sub(x, a)  h == [j \in 1 .. n |-> f[j + 1]]
<1>1. a \in Field /\ d \in Field
  BY Closed DEF Distinct
<1>2. ASSUME NEW j \in 1 .. n
      PROVE  g[j] \in Field /\ h[j] = Mul(d, g[j])
  <2>1. g[j] \in Field
    BY WithoutFirst, BasisInField
  <2>2. h[j] = Mul(Sub(xs[j + 1], xs[1]), Basis(xs, n + 1, x, j + 1))
    OBVIOUS
  <2> QED BY <2>1, <2>2, WithoutFirst
<1>3. f[1] = 0
  <2>1. Basis(xs, n + 1, x, 1) \in Field
    BY BasisInField
  <2>2. Sub(a, a) = 0
    BY <1>1, SubLaws
  <2>3. f[1] = Mul(0, Basis(xs, n + 1, x, 1))
    BY <2>2
  <2> QED BY <2>1, <2>3, MulLaws
<1>4. \A j \in 1 .. n + 1 : f[j] \in Field
  <2> TAKE j \in 1 .. n + 1
  <2>1. Basis(xs, n + 1, x, j) \in Field
    BY BasisInField
  <2>2. xs[j] \in Field
    BY DEF Distinct
  <2>3. Sub(xs[j], xs[1]) \in Field
    BY <1>1, <2>2, Closed
  <2> QED BY <2>1, <2>3, Closed
<1>5. \A j \in 1 .. n : h[j] = f[j + 1]
  OBVIOUS
<1> HIDE DEF d, h
<1>6. SumTo(h, n) = Mul(d, SumTo(g, n))
  BY <1>1, <1>2, SumScaled
<1>7. SumTo(g, n) \in Field
  BY <1>2, SumInField
<1>8. SumTo(f, n + 1) = Add(0, SumTo(h, n))
  BY <1>3, <1>4, <1>5, SumFirst
<1>9. Mul(d, SumTo(g, n)) \in Field
  BY <1>1, <1>7, Closed
<1> QED BY <1>6, <1>8, <1>9, AddLaws DEF d

\* The coefficients at x add up to 1.
LEMMA UnityStep ==
  ASSUME NEW n \in Nat \ {0}, NEW xs, Distinct(xs, n + 1), NEW x \in Field,
         \A ys : Distinct(ys, n) => SumTo([j \in 1 .. n |-> Basis(ys, n, x, j)], n) = 1
  PROVE  SumTo([j \in 1 .. n + 1 |-> Basis(xs, n + 1, x, j)], n + 1) = 1
<1> DEFINE a == xs[n + 1]
           b == xs[1]
           ys == Shifted(xs, n)
           one == [j \in 1 .. n + 1 |-> 1]
           c == [j \in 1 .. n + 1 |-> Basis(xs, n + 1, x, j)]
           e == [j \in 1 .. n + 1 |-> Mul(Sub(a, b), c[j])]
           last == [j \in 1 .. n + 1 |->
                       Mul(one[j], Mul(Sub(xs[j], a), Basis(xs, n + 1, x, j)))]
           first == [j \in 1 .. n + 1 |-> Mul(Sub(xs[j], b), c[j])]
           cLast == [j \in 1 .. n |-> Mul(one[j], Basis(xs, n, x, j))]
           cPrefix == [j \in 1 .. n |-> Basis(xs, n, x, j)]
           cFirst == [j \in 1 .. n |-> Basis(ys, n, x, j)]
           D == SumTo(c, n + 1)
<1>1. a \in Field /\ b \in Field /\ a # b /\ \A j \in 1 .. n + 1 : xs[j] \in Field
  BY DEF Distinct
<1>2. \A j \in 1 .. n + 1 : c[j] \in Field
  BY BasisInField
<1>3. Distinct(xs, n) /\ Distinct(ys, n)
  BY WithoutLast, WithoutFirst
<1>4. SumTo(cLast, n) = 1
  <2>1. \A j \in 1 .. n : cPrefix[j] \in Field
    BY <1>3, BasisInField
  <2>2. \A j \in 1 .. n : cLast[j] = cPrefix[j]
    BY <2>1, MulLaws
  <2>3. SumTo(cPrefix, n) = 1
    BY <1>3
  <2> HIDE DEF cLast, cPrefix
  <2> QED BY <2>2, <2>3, SameSum
<1>5. SumTo(cFirst, n) = 1
  <2> HIDE DEF ys
  <2> QED BY <1>3
<1>6. Sub(x, a) \in Field /\ Sub(x, b) \in Field /\ Sub(a, b) \in Field \ {0}
  <2> HIDE DEF a, b
  <2> QED BY <1>1, Differences
<1>7. SumTo(last, n + 1) = Sub(x, a)
  <2>1. SumTo(last, n + 1) = Mul(Sub(x, a), SumTo(cLast, n))
    <3>1. \A j \in 1 .. n + 1 : one[j] \in Field
      BY Closed
    <3> HIDE DEF one
    <3> QED BY <3>1, SumWithoutLast
  <2> QED BY <1>4, <1>6, <2>1, MulLaws
<1>8. SumTo(first, n + 1) = Sub(x, b)
  <2>1. SumTo(first, n + 1) = Mul(Sub(x, b), SumTo(cFirst, n))
    <3>1. \A j \in 1 .. n + 1 : first[j] = Mul(Sub(xs[j], xs[1]), Basis(xs, n + 1, x, j))
      OBVIOUS
    <3>2. \A j \in 1 .. n : cFirst[j] = Basis(Shifted(xs, n), n, x, j)
      OBVIOUS
    <3> HIDE DEF first, cFirst
    <3> QED BY <3>1, <3>2, SumWithoutFirst
  <2> QED BY <1>5, <1>6, <2>1, MulLaws
<1>9. ASSUME NEW j \in 1 .. n + 1
      PROVE  last[j] \in Field /\ e[j] \in Field /\ first[j] = Add(last[j], e[j])
  <2> DEFINE u == Sub(xs[j], a)  v == Sub(a, b)  cj == c[j]
  <2>0. u \in Field /\ v \in Field /\ cj \in Field /\ xs[j] \in Field
    BY <1>1, <1>2, Closed
  <2>1. last[j] = Mul(1, Mul(u, cj)) /\ e[j] = Mul(v, cj)
        /\ first[j] = Mul(Sub(xs[j], b), cj)
    OBVIOUS
  <2>2. Sub(xs[j], b) = Add(u, v)
    BY <1>1, <2>0, SubLaws
  <2> HIDE DEF u, v, cj, last, e, first
  <2>3. Mul(u, cj) \in Field /\ Mul(v, cj) \in Field /\ Add(u, v) \in Field
    BY <2>0, Closed
  <2>4. Mul(1, Mul(u, cj)) = Mul(u, cj)
    BY <2>3, MulLaws
  <2>5. Mul(Add(u, v), cj) = Mul(cj, Add(u, v))
    BY <2>0, <2>3, MulLaws
  <2>6. Mul(cj, Add(u, v)) = Add(Mul(cj, u), Mul(cj, v))
    BY <2>0, Distributes
  <2>7. Mul(cj, u) = Mul(u, cj) /\ Mul(cj, v) = Mul(v, cj)
    BY <2>0, MulLaws
  <2> QED BY <2>1, <2>2, <2>3, <2>4, <2>5, <2>6, <2>7
<1>10. \A j \in 1 .. n + 1 : c[j] \in Field /\ e[j] = Mul(Sub(a, b), c[j])
  BY <1>2
<1> HIDE DEF last, e, first, c
<1>11. SumTo(first, n + 1) = Add(SumTo(last, n + 1), SumTo(e, n + 1))
  BY <1>9, SumOfSums
<1>12. SumTo(e, n + 1) = Mul(Sub(a, b), D)
  BY <1>6, <1>10, SumScaled
<1>13. D \in Field
  BY <1>10, SumInField
<1> HIDE DEF D
<1>14. Mul(Sub(a, b), D) \in Field
  BY <1>6, <1>13, Closed
<1>15. Add(Sub(x, a), Mul(Sub(a, b), D)) = Add(Sub(x, a), Sub(a, b))
  <2>1. Add(Sub(x, a), Sub(a, b)) = Sub(x, b)
    BY <1>1, SubLaws
  <2> QED BY <1>7, <1>8, <1>11, <1>12, <2>1
<1>16. Mul(Sub(a, b), D) = Sub(a, b)
  <2> DEFINE s == Sub(x, a)  t == Mul(Sub(a, b), D)  r == Sub(a, b)
  <2>1. s \in Field /\ t \in Field /\ r \in Field /\ Add(s, t) = Add(s, r)
    BY <1>6, <1>14, <1>15
  <2> HIDE DEF s, t, r
  <2>2. Add(t, s) = Add(r, s)
    BY <2>1, AddLaws
  <2>3. Sub(Add(t, s), s) = t /\ Sub(Add(r, s), s) = r
    BY <2>1, SubLaws
  <2>4. t = r
    BY <2>2, <2>3
  <2> QED BY <2>4 DEF t, r
<1>17. Mul(Sub(a, b), D) = Mul(Sub(a, b), 1)
  BY <1>6, <1>16, MulLaws
<1>18. D = 1
  BY <1>6, <1>13, <1>17, Cancels, Closed
<1> QED BY <1>18 DEF D, c

LEMMA PartitionOfUnity ==
  ASSUME NEW x \in Field
  PROVE  \A n \in Nat \ {0} : \A xs :
             Distinct(xs, n) => SumTo([j \in 1 .. n |-> Basis(xs, n, x, j)], n) = 1
<1> DEFINE Holds(n) == \A xs : Distinct(xs, n) =>
                           SumTo([j \in 1 .. n |-> Basis(xs, n, x, j)], n) = 1
           S == {n \in Nat : Holds(n + 1)}
<1>1. 0 \in S
  <2>0. 0 + 1 = 1
    OBVIOUS
  <2> SUFFICES ASSUME NEW xs, Distinct(xs, 1)
               PROVE  SumTo([j \in 1 .. 1 |-> Basis(xs, 1, x, j)], 1) = 1
    BY <2>0, Zenon
  <2> DEFINE c == [j \in 1 .. 1 |-> Basis(xs, 1, x, j)]
             f == [m \in 1 .. 1 |-> Factor(xs, x, 1, m)]
  <2>1. c[1] = ProductTo(f, 1) /\ f[1] = 1
    BY DEF Basis, Factor
  <2> HIDE DEF c, f
  <2>2. ProductTo(f, 0 + 1) = Mul(ProductTo(f, 0), f[0 + 1]) /\ ProductTo(f, 0) = 1
    BY ProductUnfolds
  <2>3. SumTo(c, 0 + 1) = Add(SumTo(c, 0), c[0 + 1]) /\ SumTo(c, 0) = 0
    BY SumUnfolds
  <2>4. Mul(1, 1) = 1 /\ Add(0, 1) = 1
    BY Closed, MulLaws, AddLaws
  <2>5. SumTo(c, 1) = 1
    BY <2>1, <2>2, <2>3, <2>4
  <2> QED BY <2>5 DEF c
<1>2. ASSUME NEW n \in Nat, n \in S PROVE n + 1 \in S
  <2>1. Holds(n + 1)
    BY <1>2
  <2>2. n + 1 \in Nat \ {0}
    OBVIOUS
  <2>3. ASSUME NEW xs, Distinct(xs, n + 1 + 1)
        PROVE  SumTo([j \in 1 .. n + 1 + 1 |-> Basis(xs, n + 1 + 1, x, j)], n + 1 + 1) = 1
    BY <2>1, <2>2, <2>3, UnityStep
  <2> QED BY <2>3
<1> HIDE DEF S
<1>3. Nat \subseteq S
  BY <1>1, <1>2, Induction
<1> SUFFICES ASSUME NEW n \in Nat \ {0} PROVE Holds(n)
  BY Zenon
<1>4. n - 1 \in S /\ (n - 1) + 1 = n
  BY <1>3
<1>5. Holds((n - 1) + 1)
  BY <1>4 DEF S
<1> QED BY <1>4, <1>5

-----------------------------------------------------------------------------
(***************************************************************************)
(* Interpolation.                                                          *)
(***************************************************************************)

\* The values of p at n points, combined for x.
Combined(p, xs, n, x) ==
    SumTo([j \in 1 .. n |-> Mul(Evaluate(p, xs[j]), Basis(xs, n, x, j))], n)

LEMMA EmptyCombined ==
  ASSUME NEW n \in Nat, NEW xs, Distinct(xs, n), NEW x \in Field,
         NEW p \in Polynomials(0)
  PROVE  Combined(p, xs, n, x) = Evaluate(p, x)
<1> DEFINE f == [j \in 1 .. n |-> Mul(Evaluate(p, xs[j]), Basis(xs, n, x, j))]
           c == [j \in 1 .. n |-> Basis(xs, n, x, j)]
<1>1. \A j \in 1 .. n : c[j] \in Field /\ f[j] = Mul(0, c[j])
  BY BasisInField, EmptyPolynomial DEF Distinct
<1> HIDE DEF f, c
<1>2. SumTo(f, n) = Mul(0, SumTo(c, n)) /\ SumTo(c, n) \in Field
  BY <1>1, SumScaled, SumInField, Closed
<1>3. SumTo(f, n) = 0
  BY <1>2, MulLaws
<1> QED BY <1>3, EmptyPolynomial DEF Combined, f

LEMMA CombinedStep ==
  ASSUME NEW n \in Nat, NEW xs, Distinct(xs, n + 1), NEW x \in Field,
         NEW k \in Nat, NEW p \in Polynomials(k + 1), NEW q \in Polynomials(k),
         Divides(q, p, xs[n + 1]),
         Combined(q, xs, n, x) = Evaluate(q, x)
  PROVE  Combined(p, xs, n + 1, x) = Evaluate(p, x)
<1> DEFINE a == xs[n + 1]
           pa == Evaluate(p, a)
           w == [j \in 1 .. n + 1 |-> Evaluate(q, xs[j])]
           c == [j \in 1 .. n + 1 |-> Basis(xs, n + 1, x, j)]
           f == [j \in 1 .. n + 1 |-> Mul(Evaluate(p, xs[j]), c[j])]
           g == [j \in 1 .. n + 1 |-> Mul(pa, c[j])]
           h == [j \in 1 .. n + 1 |->
                    Mul(w[j], Mul(Sub(xs[j], a), Basis(xs, n + 1, x, j)))]
           v == [j \in 1 .. n |-> Mul(w[j], Basis(xs, n, x, j))]
           u == [j \in 1 .. n |-> Mul(Evaluate(q, xs[j]), Basis(xs, n, x, j))]
<1>1. a \in Field /\ \A j \in 1 .. n + 1 : xs[j] \in Field
  BY DEF Distinct
<1>2. \A j \in 1 .. n + 1 : c[j] \in Field
  BY BasisInField
<1>3. pa \in Field /\ \A j \in 1 .. n + 1 : w[j] \in Field
  BY <1>1, EvaluateInField
<1>4. ASSUME NEW j \in 1 .. n + 1
      PROVE  g[j] \in Field /\ h[j] \in Field /\ f[j] = Add(g[j], h[j])
  <2> DEFINE d == Sub(xs[j], a)  wj == w[j]  cj == c[j]
  <2>1. d \in Field /\ wj \in Field /\ cj \in Field
    BY <1>1, <1>2, <1>3, Closed
  <2>2. Evaluate(p, xs[j]) = Add(pa, Mul(d, wj))
    BY <1>1 DEF Divides
  <2>3. /\ g[j] = Mul(pa, cj)
        /\ h[j] = Mul(wj, Mul(d, cj))
        /\ f[j] = Mul(Add(pa, Mul(d, wj)), cj)
    BY <2>2
  <2> HIDE DEF d, wj, cj, pa, w, c, f, g, h
  <2>4. Mul(d, wj) \in Field /\ Mul(d, cj) \in Field
    BY <2>1, Closed
  <2>5. g[j] \in Field /\ h[j] \in Field /\ Add(pa, Mul(d, wj)) \in Field
    <3>0. pa \in Field
      BY <1>3
    <3>1. Mul(pa, cj) \in Field
      BY <2>1, <3>0, Closed
    <3>2. h[j] \in Field
      BY <2>1, <2>3, <2>4, Closed
    <3>3. Add(pa, Mul(d, wj)) \in Field
      BY <1>3, <2>4, Closed
    <3> QED BY <2>3, <3>1, <3>2, <3>3
  <2>6. f[j] = Mul(cj, Add(pa, Mul(d, wj)))
    BY <2>1, <2>3, <2>5, MulLaws
  <2>7. Mul(cj, Add(pa, Mul(d, wj))) = Add(Mul(cj, pa), Mul(cj, Mul(d, wj)))
    BY <1>3, <2>1, <2>4, Distributes
  <2>8. Mul(cj, pa) = Mul(pa, cj)
    BY <1>3, <2>1, MulLaws
  <2>9. Mul(cj, Mul(d, wj)) = Mul(wj, Mul(d, cj))
    <3>1. Mul(Mul(cj, d), wj) = Mul(cj, Mul(d, wj))
      BY <2>1, MulLaws
    <3>2. Mul(cj, d) = Mul(d, cj)
      BY <2>1, MulLaws
    <3>3. Mul(Mul(d, cj), wj) = Mul(wj, Mul(d, cj))
      BY <2>1, <2>4, MulLaws
    <3> QED BY <3>1, <3>2, <3>3
  <2> QED BY <2>3, <2>5, <2>6, <2>7, <2>8, <2>9
<1>5. SumTo(c, n + 1) = 1
  BY PartitionOfUnity
<1>6. SumTo(g, n + 1) = pa
  <2>1. n + 1 \in Nat /\ \A j \in 1 .. n + 1 : c[j] \in Field /\ g[j] = Mul(pa, c[j])
    BY <1>2
  <2> HIDE DEF g, c, pa
  <2>2. SumTo(g, n + 1) = Mul(pa, SumTo(c, n + 1))
    BY <1>3, <2>1, SumScaled
  <2> QED BY <1>3, <1>5, <2>2, MulLaws
<1>7. SumTo(h, n + 1) = Mul(Sub(x, a), SumTo(v, n))
  <2> HIDE DEF w
  <2> QED BY <1>3, SumWithoutLast
<1>8. SumTo(v, n) = Evaluate(q, x)
  <2>1. \A j \in 1 .. n : v[j] = u[j]
    OBVIOUS
  <2>2. SumTo(u, n) = Evaluate(q, x)
    BY DEF Combined
  <2> HIDE DEF u, v
  <2> QED BY <2>1, <2>2, SameSum
<1>9. SumTo(f, n + 1) = Add(SumTo(g, n + 1), SumTo(h, n + 1))
  <2> HIDE DEF f, g, h
  <2> QED BY <1>4, SumOfSums
<1>10. Evaluate(p, x) = Add(pa, Mul(Sub(x, a), Evaluate(q, x)))
  BY DEF Divides
<1>11. Combined(p, xs, n + 1, x) = SumTo(f, n + 1)
  <2>1. f = [j \in 1 .. n + 1 |-> Mul(Evaluate(p, xs[j]), Basis(xs, n + 1, x, j))]
    OBVIOUS
  <2> QED BY <2>1 DEF Combined
<1> QED BY <1>6, <1>7, <1>8, <1>9, <1>10, <1>11

\* Threshold values of the secret polynomial determine its value anywhere.
LEMMA CombinedIsValue ==
  ASSUME NEW x \in Field
  PROVE  \A n \in Nat : \A xs : Distinct(xs, n) =>
             \A k \in 0 .. n : \A p \in Polynomials(k) :
                 Combined(p, xs, n, x) = Evaluate(p, x)
<1> DEFINE Holds(n) == \A xs : Distinct(xs, n) =>
                           \A k \in 0 .. n : \A p \in Polynomials(k) :
                               Combined(p, xs, n, x) = Evaluate(p, x)
           S == {n \in Nat : Holds(n)}
<1>1. 0 \in S
  BY EmptyCombined
<1>2. ASSUME NEW n \in Nat, n \in S PROVE n + 1 \in S
  <2> SUFFICES ASSUME NEW xs, Distinct(xs, n + 1), NEW k \in 0 .. n + 1,
                      NEW p \in Polynomials(k)
               PROVE  Combined(p, xs, n + 1, x) = Evaluate(p, x)
    OBVIOUS
  <2>1. CASE k = 0
    BY <2>1, EmptyCombined
  <2>2. CASE k # 0
    <3>1. k - 1 \in Nat /\ k - 1 \in 0 .. n /\ p \in Polynomials((k - 1) + 1)
      BY <2>2
    <3>2. xs[n + 1] \in Field /\ Distinct(xs, n)
      BY DEF Distinct
    <3>3. PICK q \in Polynomials(k - 1) : Divides(q, p, xs[n + 1])
      BY <3>1, <3>2, SyntheticDivision
    <3>4. Combined(q, xs, n, x) = Evaluate(q, x)
      BY <1>2, <3>1, <3>2
    <3> QED BY <3>1, <3>3, <3>4, CombinedStep
  <2> QED BY <2>1, <2>2
<1> HIDE DEF S
<1>3. Nat \subseteq S
  BY <1>1, <1>2, Induction
<1> QED BY <1>3 DEF S

(***************************************************************************)
(* lagrange_basis_at: for any sequence xs of different points, and any     *)
(* polynomial p with no more coefficients than there are points, the       *)
(* values of p at the points, weighted with the coefficients for x, add up *)
(* to p(x).                                                                *)
(***************************************************************************)
THEOREM LagrangeInterpolates ==
  ASSUME NEW xs, Len(xs) \in Nat, Distinct(xs, Len(xs)), NEW x \in Field,
         NEW k \in 0 .. Len(xs), NEW p \in Polynomials(k)
  PROVE  SumTo([j \in 1 .. Len(xs) |->
                   Mul(Evaluate(p, xs[j]), LagrangeBasisAt(xs, x)[j])], Len(xs))
           = Evaluate(p, x)
<1> DEFINE n == Len(xs)
           f == [j \in 1 .. n |-> Mul(Evaluate(p, xs[j]), LagrangeBasisAt(xs, x)[j])]
           g == [j \in 1 .. n |-> Mul(Evaluate(p, xs[j]), Basis(xs, n, x, j))]
<1>1. Combined(p, xs, n, x) = Evaluate(p, x)
  BY CombinedIsValue
<1>2. \A j \in 1 .. n : f[j] = g[j]
  BY LagrangeIsBasis
<1>3. SumTo(g, n) = Evaluate(p, x)
  BY <1>1 DEF Combined
<1> HIDE DEF f, g
<1>4. SumTo(f, n) = Evaluate(p, x)
  BY <1>2, <1>3, SameSum
<1> QED BY <1>4 DEF f

-----------------------------------------------------------------------------
(***************************************************************************)
(* Key shares are values of the secret polynomial at points of the domain, *)
(* so any Threshold of them determine the secret.                          *)
(***************************************************************************)

NumPoints == DomainSizeFor(SharesNum)

LEMMA DomainPointsDiffer ==
  /\ NumPoints \in Nat /\ NumPoints >= SharesNum
  /\ \A i \in 1 .. NumPoints : DomainPoint(i) \in Field
  /\ \A i, j \in 1 .. NumPoints : DomainPoint(i) = DomainPoint(j) => i = j
<1> DEFINE w == GroupGen(NumPoints)
<1>1. NumPoints \in Nat /\ NumPoints >= SharesNum
  BY SetupAssumption, DomainSize DEF NumPoints
<1>2. w \in Field /\ PrimitiveRoot(w, NumPoints)
  BY SetupAssumption DEF GroupGen, NumPoints
<1>3. \A i \in 1 .. NumPoints : DomainPoint(i) = Power(w, i - 1)
  BY DEF DomainPoint, DomainPoints, Element, NumPoints
<1> HIDE DEF w
<1>4. \A i \in 1 .. NumPoints : DomainPoint(i) \in Field
  <2> TAKE i \in 1 .. NumPoints
  <2>1. i - 1 \in Nat
    BY <1>1
  <2> QED BY <1>2, <1>3, <2>1, PowerUnfolds
<1>5. ASSUME NEW i \in 1 .. NumPoints, NEW j \in 1 .. NumPoints,
             DomainPoint(i) = DomainPoint(j)
      PROVE  i = j
  <2>1. i - 1 \in 0 .. NumPoints - 1 /\ j - 1 \in 0 .. NumPoints - 1
    BY <1>1
  <2>2. Power(w, i - 1) = Power(w, j - 1)
    BY <1>3, <1>5
  <2>3. i - 1 = j - 1
    BY <1>1, <1>2, <2>1, <2>2, RootPowersDiffer
  <2> QED BY <1>1, <2>3
<1> QED BY <1>1, <1>4, <1>5

\* Different participants are at different points.
LEMMA SelectedPointsDiffer ==
  ASSUME NEW n \in Nat, NEW xs,
         NEW index, \A i \in 1 .. n : index[i] \in 1 .. NumPoints,
         \A i, j \in 1 .. n : index[i] = index[j] => i = j,
         \A i \in 1 .. n : xs[i] = DomainPoint(index[i])
  PROVE  Distinct(xs, n)
BY DomainPointsDiffer DEF Distinct

\* Different points, enough of them for a secret polynomial.
EnoughPoints(xs) ==
    Len(xs) \in Nat /\ Distinct(xs, Len(xs)) /\ Len(xs) >= Threshold

\* The decryption shares of the values of p at xs, for commitment r.
SharesOf(shares, xs, p, r) ==
    /\ Len(shares) = Len(xs)
    /\ \A k \in 1 .. Len(xs) :
          shares[k].decryption_share = Mul(r, Evaluate(p, xs[k]))

\* share_combine_simple: decryption shares of the values of p at different
\* points, at least Threshold of them, combine to that of the value at 0.
LEMMA SharesCombine ==
  ASSUME NEW p \in Polynomials(Threshold), NEW r \in Field,
         NEW xs, EnoughPoints(xs), NEW shares, SharesOf(shares, xs, p, r)
  PROVE  ShareCombineSimple(shares, PrepareCombineSimple(xs)) = Mul(r, p[1])
<1> DEFINE n == Len(xs)
           l == LagrangeBasisAt(xs, 0)
           f == [k \in 1 .. n |-> Mul(shares[k].decryption_share, l[k])]
           g == [k \in 1 .. n |-> Mul(Evaluate(p, xs[k]), l[k])]
<1>0. /\ Len(xs) \in Nat /\ Distinct(xs, Len(xs)) /\ Len(xs) >= Threshold
      /\ Len(shares) = Len(xs)
      /\ \A k \in 1 .. Len(xs) :
            shares[k].decryption_share = Mul(r, Evaluate(p, xs[k]))
  BY DEF EnoughPoints, SharesOf
<1>1. Threshold \in Nat \ {0} /\ Threshold \in 0 .. n /\ 0 \in Field
  BY <1>0, SetupAssumption, Closed
<1>2. SumTo(g, n) = p[1]
  <2>1. SumTo(g, n) = Evaluate(p, 0)
    BY <1>0, <1>1, LagrangeInterpolates
  <2> QED BY <1>1, <2>1, EvaluateAtZero
<1>3. ASSUME NEW k \in 1 .. n PROVE g[k] \in Field /\ f[k] = Mul(r, g[k])
  <2> DEFINE z == Evaluate(p, xs[k])  lk == l[k]
  <2>1. z \in Field
    BY <1>0, <1>1, EvaluateInField DEF Distinct
  <2>2. lk \in Field
    BY <1>0, <1>1, LagrangeIsBasis, BasisInField
  <2>3. f[k] = Mul(Mul(r, z), lk) /\ g[k] = Mul(z, lk)
    BY <1>0
  <2> HIDE DEF z, lk, f, g
  <2>4. Mul(z, lk) \in Field
    BY <2>1, <2>2, Closed
  <2>5. Mul(Mul(r, z), lk) = Mul(r, Mul(z, lk))
    BY <2>1, <2>2, MulLaws
  <2> QED BY <2>3, <2>4, <2>5
<1>4. ShareCombineSimple(shares, PrepareCombineSimple(xs)) = SumTo(f, n)
  <2>1. Len(l) = n
    BY DEF LagrangeBasisAt
  <2>2. PrepareCombineSimple(xs) = l
    BY DEF PrepareCombineSimple
  <2> HIDE DEF l
  <2> QED BY <1>0, <2>1, <2>2 DEF ShareCombineSimple
<1> HIDE DEF f, g
<1>5. SumTo(f, n) = Mul(r, SumTo(g, n))
  BY <1>0, <1>3, SumScaled
<1> QED BY <1>2, <1>4, <1>5

-----------------------------------------------------------------------------
(***************************************************************************)
(* Refresh and recovery.                                                   *)
(***************************************************************************)

\* make_random_polynomial_at has a zero at root.
LEMMA RootPolynomial ==
  ASSUME NEW n \in Nat, NEW higher \in Polynomials(n), NEW root \in Field
  PROVE  /\ MakeRandomPolynomialAt(higher, root) \in Polynomials(n + 1)
         /\ Evaluate(MakeRandomPolynomialAt(higher, root), root) = 0
<1>1. higher \in Seq(Field) /\ Len(higher) = n /\ higher = [i \in 1 .. n |-> higher[i]]
  BY DEF Polynomials
<1> DEFINE v == Mul(root, Evaluate(higher, root))
<1>2. ASSUME NEW c \in Field
      PROVE  /\ <<c>> \o higher \in Polynomials(n + 1)
             /\ Evaluate(<<c>> \o higher, root) = Add(c, v)
  <2> DEFINE s == <<c>> \o higher
  <2>1. s \in Seq(Field) /\ Len(s) = n + 1 /\ s[1] = c
        /\ \A i \in 1 .. n : s[i + 1] = higher[i]
    BY <1>1
  <2> HIDE DEF s
  <2>2. s \in [1 .. n + 1 -> Field]
    BY <2>1
  <2>3. s \in Polynomials(n + 1) /\ Shifted(s, n) = higher
    BY <1>1, <2>1, <2>2 DEF Polynomials, Shifted
  <2>4. Evaluate(s, root) = Add(c, v)
    BY <2>1, <2>3, EvaluateStep
  <2> QED BY <2>3, <2>4 DEF s
<1>3. v \in Field
  BY EvaluateInField, Closed
<1>4. Evaluate(<<0>> \o higher, root) = v
  <2>1. Evaluate(<<0>> \o higher, root) = Add(0, v)
    BY <1>2, Closed
  <2> QED BY <1>3, <2>1, AddLaws
<1>5. Neg(v) \in Field
  BY <1>3, Closed
<1>6. MakeRandomPolynomialAt(higher, root) = <<Neg(v)>> \o higher
  BY <1>4 DEF MakeRandomPolynomialAt
<1>7. Evaluate(<<Neg(v)>> \o higher, root) = Add(Neg(v), v)
  BY <1>2, <1>5
<1> HIDE DEF v
<1>8. Add(Neg(v), v) = 0
  BY <1>3, SubLaws, Closed
<1> QED BY <1>2, <1>5, <1>6, <1>7, <1>8

\* f[i][j] is the value at xs[j] of a polynomial with a zero at root.
Vanishes(f, xs, J, n, root) ==
    \E p \in Polynomials(n) :
        Evaluate(p, root) = 0 /\ \A j \in J : f[j] = Evaluate(p, xs[j])

\* What the j in J get from m updates.
Added(f, J, m) == [j \in J |-> SumTo([i \in 1 .. m |-> f[i][j]], m)]

\* So are the sums of such updates.
LEMMA UpdatesVanish ==
  ASSUME NEW n \in Nat, NEW root \in Field,
         NEW J, NEW xs, \A j \in J : xs[j] \in Field,
         NEW m \in Nat, NEW f, \A i \in 1 .. m : Vanishes(f[i], xs, J, n, root)
  PROVE  Vanishes(Added(f, J, m), xs, J, n, root)
<1> DEFINE g(j) == [i \in 1 .. m |-> f[i][j]]
           S == {k \in 0 .. m : \E p \in Polynomials(n) :
                    Evaluate(p, root) = 0 /\ \A j \in J : SumTo(g(j), k) = Evaluate(p, xs[j])}
<1>1. 0 \in S
  <2>1. PICK p \in Polynomials(n) : \A x \in Field : Evaluate(p, x) = 0
    BY ZeroPolynomial
  <2>2. ASSUME NEW j \in J PROVE SumTo(g(j), 0) = Evaluate(p, xs[j])
    <3>1. SumTo(g(j), 0) = 0
      <4> HIDE DEF g
      <4> QED BY SumUnfolds
    <3>2. xs[j] \in Field
      OBVIOUS
    <3> HIDE DEF g
    <3> QED BY <2>1, <3>1, <3>2
  <2>3. 0 \in 0 .. m /\ Evaluate(p, root) = 0
    BY <2>1
  <2> HIDE DEF g
  <2> QED BY <2>2, <2>3
<1>2. ASSUME NEW k \in 0 .. m - 1, k \in S PROVE k + 1 \in S
  <2>1. PICK p \in Polynomials(n) :
            Evaluate(p, root) = 0 /\ \A j \in J : SumTo(g(j), k) = Evaluate(p, xs[j])
    BY <1>2
  <2>2. PICK q \in Polynomials(n) :
            Evaluate(q, root) = 0 /\ \A j \in J : f[k + 1][j] = Evaluate(q, xs[j])
    BY DEF Vanishes
  <2> DEFINE s == SumOfPolys(p, q, n)
  <2>3. s \in Polynomials(n)
        /\ \A x \in Field : Evaluate(s, x) = Add(Evaluate(p, x), Evaluate(q, x))
    BY EvaluateSumOfPolys
  <2> HIDE DEF s
  <2>4. Evaluate(s, root) = 0
    BY <2>1, <2>2, <2>3, AddLaws, Closed
  <2>5. ASSUME NEW j \in J PROVE SumTo(g(j), k + 1) = Evaluate(s, xs[j])
    <3>1. g(j)[k + 1] = f[k + 1][j]
      OBVIOUS
    <3> HIDE DEF g
    <3>2. SumTo(g(j), k + 1) = Add(SumTo(g(j), k), g(j)[k + 1])
      BY SumUnfolds
    <3> QED BY <2>1, <2>2, <2>3, <3>1, <3>2
  <2> QED BY <2>3, <2>4, <2>5
<1> HIDE DEF S
<1>3. m \in S
  BY <1>1, <1>2, InductionUpTo
<1>4. PICK p \in Polynomials(n) :
          Evaluate(p, root) = 0 /\ \A j \in J : SumTo(g(j), m) = Evaluate(p, xs[j])
  BY <1>3 DEF S
<1> QED BY <1>4 DEF Vanishes, Added

\* The values of p at xs with the updates of u added.
UpdatedValues(updated, xs, p, u) ==
    \A k \in 1 .. Len(xs) : updated[k] = Add(Evaluate(p, xs[k]), Evaluate(u, xs[k]))

\* recover_share_from_updated_private_shares: the updates cancel.
LEMMA RecoveryGivesValue ==
  ASSUME NEW p \in Polynomials(Threshold), NEW u \in Polynomials(Threshold),
         NEW x \in Field, Evaluate(u, x) = 0,
         NEW xs, EnoughPoints(xs), NEW updated, UpdatedValues(updated, xs, p, u)
  PROVE  RecoverShareFromUpdatedPrivateShares(x, xs, updated) = Evaluate(p, x)
<1> DEFINE n == Len(xs)
           l == LagrangeBasisAt(xs, x)
           s == SumOfPolys(p, u, Threshold)
           f == [k \in 1 .. n |-> Mul(updated[k], l[k])]
           g == [k \in 1 .. n |-> Mul(Evaluate(s, xs[k]), l[k])]
<1>0. Len(xs) \in Nat /\ Distinct(xs, Len(xs)) /\ Len(xs) >= Threshold
  BY DEF EnoughPoints
<1>1. Threshold \in Nat /\ Threshold \in 0 .. n
  BY <1>0, SetupAssumption
<1>2. s \in Polynomials(Threshold)
      /\ \A y \in Field : Evaluate(s, y) = Add(Evaluate(p, y), Evaluate(u, y))
  BY <1>1, EvaluateSumOfPolys
<1>3. Evaluate(s, x) = Evaluate(p, x)
  <2>1. Evaluate(p, x) \in Field
    BY <1>1, EvaluateInField
  <2> QED BY <1>2, <2>1, AddLaws
<1> HIDE DEF s
<1>4. SumTo(g, n) = Evaluate(s, x)
  BY <1>0, <1>1, <1>2, LagrangeInterpolates
<1>5. \A k \in 1 .. n : xs[k] \in Field
  BY <1>0 DEF Distinct
<1>6. \A k \in 1 .. n : f[k] = g[k]
  BY <1>2, <1>5 DEF UpdatedValues
<1>7. RecoverShareFromUpdatedPrivateShares(x, xs, updated) = SumTo(f, n)
  BY DEF RecoverShareFromUpdatedPrivateShares
<1> HIDE DEF f, g
<1>8. SumTo(f, n) = SumTo(g, n)
  BY <1>0, <1>6, SameSum
<1> QED BY <1>3, <1>4, <1>7, <1>8
=============================================================================
