--------------------- MODULE SharedSecretBuilderProofs ----------------------
(***************************************************************************)
(* Threshold decryption with the fast variant, for every prime, every      *)
(* threshold and number of participants, any keys, any blinding factors    *)
(* and any shares received.                                                *)
(*                                                                         *)
(* The inductive invariant says where the state comes from: the contexts   *)
(* are those of setup_fast, the ciphertexts those of encrypt, every share  *)
(* in the builder but one damaged at most is what its participant answered *)
(* for one of them, and the outcome is what the code returned for these    *)
(* shares.  That the coefficients of prepare_combine_fast are those  *)
(* of interpolation at 0, up to the sign, is FastCoefficient: the tree     *)
(* gives each point the product of its differences to the others           *)
(* (LagrangeFromTreeIs) and the sign the domain's product lacks is that of *)
(* the number of shares.                                                   *)
(***************************************************************************)
EXTENDS SharedSecretBuilder, InterpolationProofs

-----------------------------------------------------------------------------
(***************************************************************************)
(* Signs and products.                                                     *)
(***************************************************************************)

\* (-1)^n.
Sign(n) == IF n % 2 = 0 THEN 1 ELSE Neg(1)

LEMMA NegIs ==
  /\ Neg(1) \in Field /\ Mul(Neg(1), Neg(1)) = 1
  /\ \A a \in Field : Neg(a) \in Field /\ Neg(a) = Mul(Neg(1), a)
<1>1. Neg(1) \in Field /\ 0 \in Field /\ 1 \in Field
  BY Closed
<1>2. ASSUME NEW a \in Field
      PROVE  Neg(a) \in Field /\ Neg(a) = Mul(Neg(1), a)
  <2>1. Neg(a) \in Field /\ Neg(a) = Sub(0, a) /\ Neg(1) = Sub(0, 1)
    BY <1>1, Closed, SubLaws
  <2>2. Mul(a, Sub(0, 1)) = Sub(Mul(a, 0), Mul(a, 1))
    BY <1>1, Distributes
  <2>3. Mul(a, 0) = 0 /\ Mul(a, 1) = a
    BY MulLaws
  <2>4. Mul(a, Neg(1)) = Mul(Neg(1), a)
    BY <1>1, AddCommutes
  <2> QED BY <2>1, <2>2, <2>3, <2>4
<1>3. Mul(Neg(1), Neg(1)) = Neg(Neg(1))
  BY <1>1, <1>2
<1>4. Neg(Neg(1)) = 1
  <2>1. Neg(1) = Sub(0, 1) /\ Sub(1, 0) = Neg(Sub(0, 1)) /\ Sub(1, 0) = 1
    BY <1>1, SubLaws
  <2> QED BY <2>1
<1> QED BY <1>1, <1>2, <1>3, <1>4

LEMMA SignIs ==
  ASSUME NEW n \in Nat
  PROVE  /\ Sign(n) \in Field /\ Mul(Sign(n), Sign(n)) = 1
         /\ Sign(n + 1) = Mul(Neg(1), Sign(n))
<1>1. 1 \in Field /\ Neg(1) \in Field /\ Mul(Neg(1), Neg(1)) = 1
      /\ Mul(1, 1) = 1 /\ Mul(Neg(1), 1) = Neg(1)
  BY NegIs, Closed, MulLaws
<1>2. (n % 2 = 0 /\ (n + 1) % 2 # 0) \/ (n % 2 # 0 /\ (n + 1) % 2 = 0)
  OBVIOUS
<1> QED BY <1>1, <1>2 DEF Sign

LEMMA MulExchange ==
  ASSUME NEW a \in Field, NEW b \in Field, NEW c \in Field, NEW d \in Field
  PROVE  Mul(Mul(a, b), Mul(c, d)) = Mul(Mul(a, c), Mul(b, d))
<1>1. Mul(c, d) \in Field /\ Mul(b, d) \in Field
  BY Closed
<1>2. Mul(Mul(a, b), Mul(c, d)) = Mul(a, Mul(b, Mul(c, d)))
  BY <1>1, MulAssociates
<1>3. Mul(b, Mul(c, d)) = Mul(Mul(b, c), d) /\ Mul(Mul(c, b), d) = Mul(c, Mul(b, d))
  BY MulAssociates
<1>4. Mul(b, c) = Mul(c, b)
  BY AddCommutes
<1>5. Mul(Mul(a, c), Mul(b, d)) = Mul(a, Mul(c, Mul(b, d)))
  BY <1>1, MulAssociates
<1> QED BY <1>2, <1>3, <1>4, <1>5

LEMMA ProductOfProducts ==
  ASSUME NEW f, NEW g, NEW h, NEW n \in Nat,
         \A i \in 1 .. n : f[i] \in Field /\ g[i] \in Field /\ h[i] = Mul(f[i], g[i])
  PROVE  ProductTo(h, n) = Mul(ProductTo(f, n), ProductTo(g, n))
<1> DEFINE S == {k \in 0 .. n : ProductTo(h, k) = Mul(ProductTo(f, k), ProductTo(g, k))}
<1>1. 0 \in S
  BY ProductUnfolds, MulLaws, Closed
<1>2. ASSUME NEW k \in 0 .. n - 1, k \in S
      PROVE  k + 1 \in S
  <2>1. k \in Nat /\ k + 1 \in 1 .. n /\ k + 1 \in 0 .. n /\ \A i \in 1 .. k : i \in 1 .. n
    OBVIOUS
  <2>2. ProductTo(f, k) \in Field /\ ProductTo(g, k) \in Field
    BY <2>1, ProductInField
  <2>3. /\ ProductTo(f, k + 1) = Mul(ProductTo(f, k), f[k + 1])
        /\ ProductTo(g, k + 1) = Mul(ProductTo(g, k), g[k + 1])
        /\ ProductTo(h, k + 1) = Mul(ProductTo(h, k), h[k + 1])
    BY <2>1, ProductUnfolds
  <2>4. h[k + 1] = Mul(f[k + 1], g[k + 1]) /\ f[k + 1] \in Field /\ g[k + 1] \in Field
    BY <2>1
  <2>5. Mul(Mul(ProductTo(f, k), ProductTo(g, k)), Mul(f[k + 1], g[k + 1]))
          = Mul(Mul(ProductTo(f, k), f[k + 1]), Mul(ProductTo(g, k), g[k + 1]))
    BY <2>2, <2>4, MulExchange
  <2>6. ProductTo(h, k) = Mul(ProductTo(f, k), ProductTo(g, k))
    BY <1>2
  <2> QED BY <2>1, <2>3, <2>4, <2>5, <2>6
<1> HIDE DEF S
<1>3. 0 .. n \subseteq S
  BY <1>1, <1>2, InductionUpTo
<1> QED BY <1>3 DEF S

\* A factor of 1 replaced by another.
LEMMA ProductReplace ==
  ASSUME NEW f, NEW g, NEW n \in Nat, NEW m \in 1 .. n,
         \A i \in 1 .. n : f[i] \in Field /\ g[i] \in Field,
         \A i \in 1 .. n : i # m => f[i] = g[i], g[m] = 1
  PROVE  ProductTo(f, n) = Mul(f[m], ProductTo(g, n))
<1> DEFINE c == f[m]
           S == {k \in 0 .. n : ProductTo(f, k) =
                    IF k < m THEN ProductTo(g, k) ELSE Mul(c, ProductTo(g, k))}
<1>1. 0 \in S
  BY ProductUnfolds
<1>2. ASSUME NEW k \in 0 .. n - 1, k \in S
      PROVE  k + 1 \in S
  <2>1. k \in Nat /\ k + 1 \in 1 .. n /\ k + 1 \in 0 .. n /\ \A i \in 1 .. k : i \in 1 .. n
    OBVIOUS
  <2>2. ProductTo(g, k) \in Field /\ c \in Field
    BY <2>1, ProductInField
  <2>3. /\ ProductTo(f, k + 1) = Mul(ProductTo(f, k), f[k + 1])
        /\ ProductTo(g, k + 1) = Mul(ProductTo(g, k), g[k + 1])
    BY <2>1, ProductUnfolds
  <2>4. CASE k + 1 < m
    <3>1. k < m /\ f[k + 1] = g[k + 1] /\ ProductTo(f, k) = ProductTo(g, k)
      BY <1>2, <2>1, <2>4
    <3> QED BY <2>1, <2>3, <2>4, <3>1
  <2>5. CASE k + 1 = m
    <3>1. k < m /\ f[k + 1] = c /\ g[k + 1] = 1 /\ ProductTo(f, k) = ProductTo(g, k)
      BY <1>2, <2>5
    <3>2. Mul(ProductTo(g, k), c) = Mul(c, ProductTo(g, k)) /\ Mul(ProductTo(g, k), 1) = ProductTo(g, k)
      BY <2>2, AddCommutes, MulLaws
    <3> HIDE DEF c
    <3>3. ~(k + 1 < m)
      BY <2>5
    <3>4. ProductTo(f, k + 1) = Mul(c, ProductTo(g, k + 1))
      BY <2>3, <3>1, <3>2
    <3> QED BY <2>1, <3>3, <3>4
  <2>6. CASE k + 1 > m
    <3>1. ~(k < m) /\ ~(k + 1 < m) /\ k + 1 # m
      BY <2>6
    <3>2. f[k + 1] = g[k + 1] /\ g[k + 1] \in Field /\ ProductTo(f, k) = Mul(c, ProductTo(g, k))
      BY <1>2, <2>1, <3>1
    <3>3. Mul(Mul(c, ProductTo(g, k)), g[k + 1]) = Mul(c, Mul(ProductTo(g, k), g[k + 1]))
      BY <2>2, <3>2, MulAssociates
    <3> HIDE DEF c
    <3>4. ProductTo(f, k + 1) = Mul(c, ProductTo(g, k + 1))
      BY <2>3, <3>2, <3>3
    <3> QED BY <2>1, <3>1, <3>4
  <2> QED BY <2>4, <2>5, <2>6
<1> HIDE DEF S
<1>3. n \in S
  BY <1>1, <1>2, InductionUpTo
<1> QED BY <1>3 DEF S

LEMMA SignedProduct ==
  ASSUME NEW f, NEW g, NEW n \in Nat,
         \A i \in 1 .. n : f[i] \in Field /\ g[i] = Neg(f[i])
  PROVE  ProductTo(g, n) = Mul(Sign(n), ProductTo(f, n))
<1> DEFINE S == {k \in 0 .. n : ProductTo(g, k) = Mul(Sign(k), ProductTo(f, k))}
<1>1. 0 \in S
  <2>1. Sign(0) = 1
    BY DEF Sign
  <2> QED BY <2>1, ProductUnfolds, MulLaws, Closed
<1>2. ASSUME NEW k \in 0 .. n - 1, k \in S
      PROVE  k + 1 \in S
  <2>1. k \in Nat /\ k + 1 \in 1 .. n /\ k + 1 \in 0 .. n /\ \A i \in 1 .. k : i \in 1 .. n
    OBVIOUS
  <2>2. ProductTo(f, k) \in Field /\ f[k + 1] \in Field
    BY <2>1, ProductInField
  <2>3. /\ ProductTo(f, k + 1) = Mul(ProductTo(f, k), f[k + 1])
        /\ ProductTo(g, k + 1) = Mul(ProductTo(g, k), g[k + 1])
    BY <2>1, ProductUnfolds
  <2>4. g[k + 1] = Mul(Neg(1), f[k + 1]) /\ Neg(1) \in Field
    BY <2>1, <2>2, NegIs
  <2>5. /\ Sign(k) \in Field /\ Sign(k + 1) = Mul(Neg(1), Sign(k))
        /\ Mul(Neg(1), Sign(k)) = Mul(Sign(k), Neg(1))
    BY <2>1, <2>4, SignIs, AddCommutes
  <2>6. Mul(Mul(Sign(k), ProductTo(f, k)), Mul(Neg(1), f[k + 1]))
          = Mul(Mul(Sign(k), Neg(1)), Mul(ProductTo(f, k), f[k + 1]))
    BY <2>2, <2>4, <2>5, MulExchange
  <2>7. ProductTo(g, k) = Mul(Sign(k), ProductTo(f, k))
    BY <1>2
  <2> QED BY <2>1, <2>3, <2>4, <2>5, <2>6, <2>7
<1> HIDE DEF S
<1>3. n \in S
  BY <1>1, <1>2, InductionUpTo
<1> QED BY <1>3 DEF S

-----------------------------------------------------------------------------
(***************************************************************************)
(* prepare_combine_fast.                                                   *)
(***************************************************************************)

\* The coefficient of point k, -1/x_k times the product of all points over
\* the product of its differences to the others, is the one of Lagrange's
\* interpolation at 0, but for the sign of the number of points.
LEMMA FastCoefficient ==
  ASSUME NEW xs \in Domains, Distinct(xs, Len(xs)), \A i \in 1 .. Len(xs) : xs[i] # 0,
         NEW k \in 1 .. Len(xs)
  PROVE  Mul(Neg(Inv(xs[k])), Div(ProductTo(xs, Len(xs)), Spread(xs, k)))
           = Mul(Sign(Len(xs)), Basis(xs, Len(xs), 0, k))
<1> DEFINE n == Len(xs)
           x == xs[k]
           s == Spread(xs, k)
           l == Basis(xs, n, 0, k)
           p == ProductTo(xs, n)
           factors == [m \in 1 .. n |-> Factor(xs, 0, k, m)]
           differences == [m \in 1 .. n |-> IF m = k THEN 1 ELSE Sub(xs[k], xs[m])]
           others == [m \in 1 .. n |-> IF m = k THEN 1 ELSE Neg(xs[m])]
           negated == [m \in 1 .. n |-> Neg(xs[m])]
           t == ProductTo(others, n)
<1>1. n \in Nat \ {0} /\ n \in Nat /\ \A i \in 1 .. n : xs[i] \in Field
  BY DomainLength
<1>2. x \in Field \ {0} /\ 0 \in Field /\ 1 \in Field
  BY <1>1, Closed
<1>3. s \in Field \ {0}
  BY SpreadIs DEF Distinct
<1>4. p \in Field
  BY <1>1, ProductInField
<1>5. l \in Field
  BY <1>1, <1>2, BasisInField
<1>6. \A m \in 1 .. n : others[m] \in Field /\ negated[m] \in Field
  BY <1>1, <1>2, Closed
<1>7. t \in Field
  <2> HIDE DEF others
  <2> QED BY <1>1, <1>6, ProductInField
<1>8. Mul(l, s) = t
  <2>1. ASSUME NEW m \in 1 .. n
        PROVE  /\ factors[m] \in Field /\ differences[m] \in Field
               /\ others[m] = Mul(factors[m], differences[m])
    <3>1. factors[m] \in Field
      BY <1>1, <1>2, FactorInField
    <3>2. CASE m = k
      <4>1. factors[m] = 1 /\ differences[m] = 1 /\ others[m] = 1
        BY <3>2 DEF Factor
      <4> QED BY <1>2, <4>1, MulLaws
    <3>3. CASE m # k
      <4>1. xs[m] \in Field /\ xs[m] # x
        BY <1>1, <3>3 DEF Distinct
      <4>2. /\ factors[m] = Div(Sub(xs[m], 0), Sub(xs[m], x))
            /\ differences[m] = Sub(x, xs[m]) /\ others[m] = Neg(xs[m])
        BY <3>3, <4>1 DEF Factor
      <4>3. Mul(Sub(x, xs[m]), Div(Sub(xs[m], 0), Sub(xs[m], x))) = Sub(0, xs[m])
        BY <1>2, <4>1, FactorCancels
      <4>4. Neg(xs[m]) = Sub(0, xs[m]) /\ Sub(x, xs[m]) \in Field
        BY <1>2, <4>1, SubLaws, Closed
      <4> HIDE DEF factors, differences, others, x
      <4>5. Mul(differences[m], factors[m]) = Mul(factors[m], differences[m])
        BY <3>1, <4>2, <4>4, AddCommutes
      <4> QED BY <3>1, <4>2, <4>3, <4>4, <4>5
    <3> QED BY <3>2, <3>3
  <2>2. l = ProductTo(factors, n) /\ s = ProductTo(differences, n)
    BY DEF Basis, Spread
  <2> HIDE DEF factors, differences, others, l, s
  <2> QED BY <1>1, <2>1, <2>2, ProductOfProducts
<1>9. Mul(Neg(x), t) = Mul(Sign(n), p)
  <2>1. ProductTo(negated, n) = Mul(negated[k], t)
    <3>1. others[k] = 1 /\ \A m \in 1 .. n : m # k => negated[m] = others[m]
      OBVIOUS
    <3> HIDE DEF negated, others
    <3> QED BY <1>1, <1>6, <3>1, ProductReplace
  <2>2. \A m \in 1 .. n : xs[m] \in Field /\ negated[m] = Neg(xs[m])
    BY <1>1
  <2> HIDE DEF negated, t
  <2>3. ProductTo(negated, n) = Mul(Sign(n), p)
    BY <1>1, <2>2, SignedProduct
  <2> QED BY <2>1, <2>2, <2>3
<1> DEFINE a == Mul(Neg(Inv(x)), Div(p, s))
           b == Mul(Sign(n), l)
           c == Mul(Neg(x), s)
<1> HIDE DEF x, s, l, p, t, factors, differences, others, negated
<1>10. /\ Inv(x) \in Field /\ Inv(s) \in Field
       /\ Mul(x, Inv(x)) = 1 /\ Mul(s, Inv(s)) = 1
  BY <1>2, <1>3, InverseLaws
<1>11. /\ Neg(x) \in Field /\ Neg(Inv(x)) \in Field /\ Neg(1) \in Field
       /\ Neg(x) = Mul(Neg(1), x) /\ Neg(Inv(x)) = Mul(Neg(1), Inv(x))
  BY <1>2, <1>10, NegIs
<1>12. Mul(Neg(x), Neg(Inv(x))) = 1
  <2>1. Mul(Mul(Neg(1), x), Mul(Neg(1), Inv(x))) = Mul(Mul(Neg(1), Neg(1)), Mul(x, Inv(x)))
    BY <1>2, <1>10, <1>11, MulExchange
  <2>2. Mul(1, 1) = 1
    BY <1>2, MulLaws
  <2> QED BY <1>10, <1>11, <2>1, <2>2, NegIs
<1>13. Mul(s, Div(p, s)) = p /\ Div(p, s) \in Field
  <2>1. Div(p, s) = Mul(p, Inv(s)) /\ Div(p, s) \in Field
    BY <1>4, <1>10, Closed DEF Div
  <2>2. Mul(s, Mul(p, Inv(s))) = Mul(Mul(s, p), Inv(s)) /\ Mul(p, Mul(s, Inv(s))) = Mul(Mul(p, s), Inv(s))
    BY <1>3, <1>4, <1>10, MulAssociates
  <2>3. Mul(s, p) = Mul(p, s) /\ Mul(p, 1) = p
    BY <1>3, <1>4, AddCommutes, MulLaws
  <2> QED BY <1>10, <2>1, <2>2, <2>3
<1>14. Mul(c, a) = p
  <2>1. Mul(c, a) = Mul(Mul(Neg(x), Neg(Inv(x))), Mul(s, Div(p, s)))
    BY <1>3, <1>11, <1>13, MulExchange
  <2>2. Mul(1, p) = p
    BY <1>4, MulLaws
  <2> QED BY <1>12, <1>13, <2>1, <2>2
<1>15. Sign(n) \in Field /\ Mul(Sign(n), Sign(n)) = 1
  BY <1>1, SignIs
<1>16. Mul(c, b) = p
  <2>1. Mul(c, b) = Mul(Mul(Neg(x), Sign(n)), Mul(s, l))
    BY <1>3, <1>5, <1>11, <1>15, MulExchange
  <2>2. Mul(s, l) = t /\ Mul(Neg(x), Sign(n)) = Mul(Sign(n), Neg(x))
    BY <1>3, <1>5, <1>8, <1>11, <1>15, AddCommutes
  <2>3. Mul(Mul(Sign(n), Neg(x)), t) = Mul(Sign(n), Mul(Neg(x), t))
    BY <1>7, <1>11, <1>15, MulAssociates
  <2>4. Mul(Sign(n), Mul(Sign(n), p)) = Mul(Mul(Sign(n), Sign(n)), p)
    BY <1>4, <1>15, MulAssociates
  <2>5. Mul(1, p) = p
    BY <1>4, MulLaws
  <2> QED BY <1>9, <1>15, <2>1, <2>2, <2>3, <2>4, <2>5
<1>17. c \in Field /\ c # 0
  <2>1. Neg(x) # 0
    <3>1. Mul(0, Neg(Inv(x))) = 0 /\ 0 # 1
      BY <1>11, MulLaws, ModulusIsNat
    <3> QED BY <1>12, <3>1
  <2> QED BY <1>3, <1>11, <2>1, NoZeroDivisors, Closed
<1>18. a \in Field /\ b \in Field
  BY <1>5, <1>11, <1>13, <1>15, Closed
<1> HIDE DEF a, b, c
<1>19. a = b
  BY <1>14, <1>16, <1>17, <1>18, Cancels
<1> QED BY <1>19 DEF a, b, x, s, l, p

-----------------------------------------------------------------------------
(***************************************************************************)
(* What setup, encrypt and the participants return.                        *)
(***************************************************************************)

LEMMA DomainPointsAre ==
  /\ SharesNum \in Nat \ {0} /\ Threshold \in Nat \ {0} /\ Threshold <= SharesNum
  /\ \A i \in 1 .. SharesNum : DomainPoint(i) \in Field \ {0}
  /\ \A i, j \in 1 .. SharesNum : DomainPoint(i) = DomainPoint(j) => i = j
<1> DEFINE w == GroupGen(NumPoints)
<1>1. /\ SharesNum \in Nat \ {0} /\ Threshold \in Nat \ {0} /\ Threshold <= SharesNum
      /\ NumPoints \in Nat /\ NumPoints >= SharesNum
  BY SetupAssumption, DomainPointsDiffer
<1>2. w \in Field /\ PrimitiveRoot(w, NumPoints)
  BY SetupAssumption DEF GroupGen, NumPoints
<1>3. \A i \in 1 .. SharesNum : i \in 1 .. NumPoints
  BY <1>1
<1>4. w # 0
  <2> SUFFICES ASSUME w = 0 PROVE FALSE
    OBVIOUS
  <2>1. Power(w, NumPoints) = 1
    BY <1>2 DEF PrimitiveRoot
  <2>2. NumPoints - 1 \in Nat /\ (NumPoints - 1) + 1 = NumPoints
    BY <1>1
  <2> HIDE DEF w
  <2>3. Power(w, (NumPoints - 1) + 1) = Mul(Power(w, NumPoints - 1), w)
        /\ Power(w, NumPoints - 1) \in Field
    BY <1>2, <2>2, PowerUnfolds
  <2>4. Mul(Power(w, NumPoints - 1), 0) = 0
    BY <2>3, MulLaws, Closed
  <2> USE DEF w
  <2> QED BY <2>1, <2>2, <2>3, <2>4
<1>5. ASSUME NEW i \in 1 .. SharesNum
      PROVE  DomainPoint(i) \in Field \ {0}
  <2>1. DomainPoint(i) = Power(w, i - 1)
    BY <1>3 DEF DomainPoint, DomainPoints, Element, NumPoints
  <2>2. i - 1 \in Nat
    BY <1>1
  <2> HIDE DEF w
  <2> QED BY <1>2, <1>4, <2>1, <2>2, PowerUnfolds, PowerNonzero
<1> QED BY <1>1, <1>3, <1>5, DomainPointsDiffer

SetupFrom(poly, b) == setup = SetupOf(poly, b)

CiphertextsFrom(key) ==
    ciphertexts = [r \in Randomness |-> Encrypt(Message, Aad, key, r)]

KeyShareOf(poly, i) == Evaluate(poly, DomainPoint(i))

LEMMA SetupFacts ==
  ASSUME NEW poly \in Polys, NEW b \in Blindings, SetupFrom(poly, b)
  PROVE  /\ poly \in Polynomials(Threshold) /\ poly[1] \in Field
         /\ setup.public_key = poly[1] /\ setup.private_key = poly[1]
         /\ Len(setup.public_contexts) = SharesNum
         /\ \A i \in 1 .. SharesNum :
               /\ KeyShareOf(poly, i) \in Field
               /\ b[i] \in Field \ {0}
               /\ setup.private_contexts[i].b_inv = Inv(b[i])
               /\ setup.private_contexts[i].decrypter_index = i
               /\ setup.public_contexts[i].domain = DomainPoint(i)
               /\ setup.public_contexts[i].lagrange_n_0 = DomainPoint(i)
               /\ setup.public_contexts[i].blinding_key = b[i]
               /\ setup.public_contexts[i].blinded_key_share =
                     Mul(Mul(KeyShareOf(poly, i), b[i]), Neg(Inv(DomainPoint(i))))
<1>1. poly \in Polynomials(Threshold) /\ Threshold \in Nat /\ 1 \in 1 .. Threshold
  BY BuilderAssumption, SetupAssumption
<1>2. poly[1] \in Field
  BY <1>1, PolynomialLength
<1>3. setup = [public_key |-> poly[1], private_key |-> poly[1],
               private_contexts |-> [i \in 1 .. SharesNum |->
                                       [b_inv |-> Inv(b[i]), decrypter_index |-> i]],
               public_contexts |-> SetupFast(poly, b)]
  BY DEF SetupFrom, SetupOf
<1>4. /\ setup.public_key = poly[1] /\ setup.private_key = poly[1]
      /\ setup.public_contexts = SetupFast(poly, b)
      /\ \A i \in 1 .. SharesNum :
            setup.private_contexts[i] = [b_inv |-> Inv(b[i]), decrypter_index |-> i]
  BY <1>3
<1>5. /\ Len(setup.public_contexts) = SharesNum
      /\ \A i \in 1 .. SharesNum : setup.public_contexts[i] = PublicContextFast(poly, b, i)
  BY <1>4, DomainPointsAre DEF SetupFast
<1>6. ASSUME NEW i \in 1 .. SharesNum
      PROVE  KeyShareOf(poly, i) \in Field /\ b[i] \in Field \ {0}
  BY <1>1, DomainPointsAre, EvaluateInField, BuilderAssumption DEF KeyShareOf
<1>7. ASSUME NEW i \in 1 .. SharesNum
      PROVE  /\ setup.public_contexts[i].domain = DomainPoint(i)
             /\ setup.public_contexts[i].lagrange_n_0 = DomainPoint(i)
             /\ setup.public_contexts[i].blinding_key = b[i]
             /\ setup.public_contexts[i].blinded_key_share =
                   Mul(Mul(KeyShareOf(poly, i), b[i]), Neg(Inv(DomainPoint(i))))
  <2>1. setup.public_contexts[i] =
           [domain |-> DomainPoint(i), blinding_key |-> b[i],
            blinded_key_share |-> Mul(Mul(KeyShareOf(poly, i), b[i]), Neg(Inv(DomainPoint(i)))),
            lagrange_n_0 |-> DomainPoint(i)]
    BY <1>5 DEF PublicContextFast, MultiplyByOmegaInv, KeyShareOf
  <2> QED BY <2>1
<1>8. ASSUME NEW i \in 1 .. SharesNum
      PROVE  /\ setup.private_contexts[i].b_inv = Inv(b[i])
             /\ setup.private_contexts[i].decrypter_index = i
  <2>1. setup.private_contexts[i] = [b_inv |-> Inv(b[i]), decrypter_index |-> i]
    BY <1>4
  <2> QED BY <2>1
<1> QED BY <1>1, <1>2, <1>4, <1>5, <1>6, <1>7, <1>8

LEMMA SentCiphertext ==
  ASSUME NEW key, CiphertextsFrom(key), NEW r \in Randomness
  PROVE  /\ ciphertexts[r] = Encrypt(Message, Aad, key, r)
         /\ ciphertexts[r].commitment = r /\ r \in Field \ {0}
BY BuilderAssumption DEF CiphertextsFrom, Encrypt

\* Where the payload is cut.
LEMMA TwoParts ==
  ASSUME NEW a, NEW b, NEW c, NEW d
  PROVE  LET s == <<a, b>> \o <<c, d>>
         IN  /\ Len(s) = 4
             /\ SubSeq(s, 1, 2)[1] = a /\ SubSeq(s, 1, 2)[2] = b
             /\ SubSeq(s, 3, 4)[1] = c
<1> DEFINE s == <<a, b>> \o <<c, d>>
<1>1. <<a, b>> \in Seq({a, b, c, d}) /\ <<c, d>> \in Seq({a, b, c, d})
  OBVIOUS
<1>2. s \in Seq({a, b, c, d})
  BY <1>1
<1>3. Len(s) = 4 /\ s[1] = a /\ s[2] = b /\ s[3] = c
  OBVIOUS
<1> HIDE DEF s
<1>4. SubSeq(s, 1, 2)[1] = s[1] /\ SubSeq(s, 1, 2)[2] = s[2] /\ SubSeq(s, 3, 4)[1] = s[3]
  BY <1>2, <1>3
<1> QED BY <1>3, <1>4 DEF s

\* What participant i answers for the ciphertext of r.
AnswerOf(b, i, r) == [decrypter_index |-> i, decryption_share |-> Mul(r, Inv(b[i]))]

\* The payload is cut where its first part ends, and the commitment is all
\* that a share takes from the ciphertext.
LEMMA AnswerIs ==
  ASSUME NEW poly \in Polys, NEW b \in Blindings, SetupFrom(poly, b),
         NEW key, CiphertextsFrom(key),
         NEW i \in 1 .. SharesNum, NEW r \in Randomness
  PROVE  /\ Answer(i, r) = AnswerOf(b, i, r)
         /\ Mul(r, Inv(b[i])) \in Field
<1> DEFINE context == PrivateContextAt(i)
           c == ciphertexts[r]
           sent == ParticipantPayloadToBytes(context, c)
           payload == ParticipantPayloadFromBytes(sent)
<1>1. context.b_inv = Inv(b[i]) /\ context.decrypter_index = i
  BY SetupFacts DEF PrivateContextAt
<1>2. c.commitment = r /\ r \in Field
  BY SentCiphertext
<1> HIDE DEF context, c
<1>3. sent = <<Inv(b[i]), i>> \o <<r, c.auth_tag>>
  BY <1>1, <1>2 DEF ParticipantPayloadToBytes, PrivateContextToBytes, CiphertextToBytes
<1>4. /\ Len(sent) = 4
      /\ SubSeq(sent, 1, 2)[1] = Inv(b[i]) /\ SubSeq(sent, 1, 2)[2] = i
      /\ SubSeq(sent, 3, 4)[1] = r
  BY <1>3, TwoParts
<1> HIDE DEF sent
<1>5. /\ payload.decryption_context = PrivateContextFromBytes(SubSeq(sent, 1, 2))
      /\ payload.ciphertext = CiphertextFromBytes(SubSeq(sent, 2 + 1, Len(sent)))
  BY DEF ParticipantPayloadFromBytes, SerializedSize
<1>6. /\ payload.decryption_context.b_inv = Inv(b[i])
      /\ payload.decryption_context.decrypter_index = i
      /\ payload.ciphertext.commitment = r
  <2> HIDE DEF payload
  <2>1. 2 + 1 = 3
    OBVIOUS
  <2> QED BY <1>4, <1>5, <2>1 DEF PrivateContextFromBytes, CiphertextFromBytes
<1> HIDE DEF payload
<1>7. ToDecryptionShare(payload) = AnswerOf(b, i, r)
  BY <1>6 DEF ToDecryptionShare, DecryptionShareFast, AnswerOf
<1>8. ShareFromBytes(ShareToBytes(AnswerOf(b, i, r))) = AnswerOf(b, i, r)
  BY DEF ShareFromBytes, ShareToBytes, AnswerOf
<1>9. Answer(i, r) = ShareFromBytes(ShareToBytes(ToDecryptionShare(payload)))
  BY DEF Answer, payload, sent, context, c
<1>10. Inv(b[i]) \in Field
  BY SetupFacts, InverseLaws
<1> QED BY <1>2, <1>7, <1>8, <1>9, <1>10, Closed

-----------------------------------------------------------------------------
(***************************************************************************)
(* Combination.                                                            *)
(***************************************************************************)

\* A damaged share may have an index that no context has.
ReceivedShares == [decrypter_index : 1 .. SharesNum + 1, decryption_share : Field]

InRange == \A k \in 1 .. Len(shares) : shares[k].decrypter_index \in 1 .. SharesNum

Points == [k \in 1 .. Len(shares) |-> DomainPoint(shares[k].decrypter_index)]

LEMMA ReceivedFields ==
  ASSUME shares \in Seq(ReceivedShares)
  PROVE  /\ Len(shares) \in Nat
         /\ \A k \in 1 .. Len(shares) :
               /\ shares[k].decrypter_index \in 1 .. SharesNum + 1
               /\ shares[k].decryption_share \in Field
               /\ shares[k] = [decrypter_index |-> shares[k].decrypter_index,
                               decryption_share |-> shares[k].decryption_share]
<1>1. Len(shares) \in Nat /\ \A k \in 1 .. Len(shares) : shares[k] \in ReceivedShares
  OBVIOUS
<1> QED BY <1>1 DEF ReceivedShares

LEMMA KnownIs ==
  ASSUME NEW poly \in Polys, NEW b \in Blindings, SetupFrom(poly, b), NEW v
  PROVE  KnownIndices(setup.public_contexts, v)
           <=> \A k \in 1 .. Len(v) : v[k].decrypter_index \in 1 .. SharesNum
BY SetupFacts DEF KnownIndices

LEMMA PreparedInRange ==
  ASSUME NEW poly \in Polys, NEW b \in Blindings, SetupFrom(poly, b), Prepared # Panic
  PROVE  InRange /\ KnownIndices(setup.public_contexts, shares)
<1>1. KnownIndices(setup.public_contexts, shares)
  BY DEF Prepared, PrepareCombineFast
<1> QED BY <1>1, KnownIs DEF InRange

LEMMA PointsAre ==
  ASSUME shares \in Seq(ReceivedShares), InRange, Len(shares) # 0
  PROVE  /\ Points \in Domains /\ Len(Points) = Len(shares)
         /\ \A k \in 1 .. Len(shares) :
               /\ Points[k] = DomainPoint(shares[k].decrypter_index)
               /\ Points[k] \in Field \ {0}
         /\ DistinctDecrypters <=> Distinct(Points, Len(shares))
<1> DEFINE n == Len(shares)
<1>1. n \in Nat \ {0} /\ \A k \in 1 .. n : shares[k].decrypter_index \in 1 .. SharesNum
  BY ReceivedFields DEF InRange
<1>2. \A k \in 1 .. n : /\ Points[k] = DomainPoint(shares[k].decrypter_index)
                        /\ Points[k] \in Field \ {0}
  BY <1>1, DomainPointsAre DEF Points
<1>3. Points \in [1 .. n -> Field]
  BY <1>2 DEF Points
<1> HIDE DEF n
<1>4. Points \in Seq(Field) /\ Len(Points) = n
  BY <1>1, <1>3, PolynomialIsSeq DEF Polynomials
<1>5. Points # <<>>
  BY <1>1, <1>4
<1>6. \A k, l \in 1 .. n : Points[k] = Points[l]
                              <=> shares[k].decrypter_index = shares[l].decrypter_index
  BY <1>1, <1>2, DomainPointsAre
<1>7. DistinctDecrypters <=> Distinct(Points, n)
  BY <1>2, <1>6 DEF DistinctDecrypters, Distinct, n
<1> QED BY <1>2, <1>4, <1>5, <1>7 DEF Domains, n

\* prepare_combine_fast gives each share its key share, blinded, times its
\* coefficient, unless it panics; it does if a decrypter is there twice.
LEMMA PreparedIs ==
  ASSUME NEW poly \in Polys, NEW b \in Blindings, SetupFrom(poly, b),
         shares \in Seq(ReceivedShares), Len(shares) # 0, Prepared # Panic
  PROVE  /\ DistinctDecrypters
         /\ \A k \in 1 .. Len(shares) :
               LET i == shares[k].decrypter_index
               IN  Prepared[k] = Mul(Mul(KeyShareOf(poly, i), b[i]),
                                     Mul(Sign(Len(shares)), Basis(Points, Len(shares), 0, k)))
<1> DEFINE n == Len(shares)
           contexts == setup.public_contexts
           of == [k \in 1 .. n |-> contexts[shares[k].decrypter_index]]
           n_0 == ProductTo([k \in 1 .. n |-> of[k].lagrange_n_0], n)
           domain == [k \in 1 .. n |-> of[k].domain]
           inverses == InverseLagrangeCoefficients(domain)
           lagrange == BatchInversionAndMul(inverses, n_0)
<1>0. InRange /\ KnownIndices(contexts, shares)
  BY PreparedInRange
<1>1. Prepared = IF inverses = Panic THEN Panic
                 ELSE [k \in 1 .. n |-> Mul(of[k].blinded_key_share, lagrange[k])]
  BY <1>0 DEF Prepared, PrepareCombineFast
<1>2. /\ n \in Nat \ {0} /\ Points \in Domains /\ Len(Points) = n
      /\ \A k \in 1 .. n : /\ shares[k].decrypter_index \in 1 .. SharesNum
                           /\ Points[k] = DomainPoint(shares[k].decrypter_index)
                           /\ Points[k] \in Field \ {0}
  BY <1>0, ReceivedFields, PointsAre DEF InRange
<1>3. \A k \in 1 .. n : /\ of[k].lagrange_n_0 = Points[k] /\ of[k].domain = Points[k]
                        /\ of[k] = contexts[shares[k].decrypter_index]
  BY <1>2, SetupFacts
<1>4. domain = Points
  <2>1. Points = [k \in 1 .. n |-> Points[k]]
    BY DEF Points
  <2> QED BY <1>3, <2>1
<1>5. n_0 = ProductTo(Points, n)
  <2> DEFINE f == [k \in 1 .. n |-> of[k].lagrange_n_0]
  <2>1. \A k \in 1 .. n : f[k] = Points[k]
    BY <1>3
  <2> HIDE DEF f
  <2>2. ProductTo(f, n) = ProductTo(Points, n)
    BY <1>2, <2>1, SameProduct
  <2> QED BY <2>2 DEF f
<1> HIDE DEF domain, n_0
<1>6. inverses # Panic
  BY <1>1
<1>7. /\ inverses = [k \in 1 .. n |-> Spread(Points, k)]
      /\ \A k \in 1 .. n : Spread(Points, k) \in Field \ {0}
      /\ Distinct(Points, n)
  BY <1>2, <1>4, <1>6, LagrangeFromTreeIs DEF Distinct
<1>8. DistinctDecrypters
  BY <1>0, <1>7, PointsAre
<1>9. \A k \in 1 .. n : lagrange[k] = Div(ProductTo(Points, n), Spread(Points, k))
  <2>1. Len(inverses) = n
    BY <1>2, <1>7
  <2> QED BY <1>5, <1>7, <2>1 DEF BatchInversionAndMul
<1> HIDE DEF inverses, lagrange
<1>10. ASSUME NEW k \in 1 .. n
       PROVE  LET i == shares[k].decrypter_index
              IN  Prepared[k] = Mul(Mul(KeyShareOf(poly, i), b[i]),
                                    Mul(Sign(n), Basis(Points, n, 0, k)))
  <2> DEFINE i == shares[k].decrypter_index
             zb == Mul(KeyShareOf(poly, i), b[i])
             x == Points[k]
             quotient == Div(ProductTo(Points, n), Spread(Points, k))
  <2>1. i \in 1 .. SharesNum /\ x = DomainPoint(i) /\ x \in Field \ {0}
    BY <1>2
  <2>2. of[k].blinded_key_share = Mul(zb, Neg(Inv(x)))
    BY <1>3, <2>1, SetupFacts
  <2>3. zb \in Field
    BY <2>1, SetupFacts, Closed
  <2>4. Neg(Inv(x)) \in Field
    BY <2>1, InverseLaws, Closed
  <2>5. quotient \in Field
    <3>1. ProductTo(Points, n) \in Field
      BY <1>2, ProductInField
    <3> QED BY <1>7, <3>1, InverseLaws, Closed DEF Div
  <2>6. Prepared[k] = Mul(of[k].blinded_key_share, lagrange[k])
    BY <1>1, <1>6
  <2>7. Mul(Neg(Inv(x)), quotient) = Mul(Sign(n), Basis(Points, n, 0, k))
    BY <1>2, <1>7, FastCoefficient
  <2>8. lagrange[k] = quotient
    BY <1>9
  <2> HIDE DEF zb, x, quotient, of
  <2>9. Prepared[k] = Mul(zb, Mul(Neg(Inv(x)), quotient))
    BY <2>2, <2>3, <2>4, <2>5, <2>6, <2>8, MulAssociates
  <2> QED BY <2>7, <2>9 DEF zb
<1> QED BY <1>8, <1>10

\* e(D, [b]H) = e(U, H) holds for the share [b^-1] U and for no other.
LEMMA VerifiedIsAnswer ==
  ASSUME NEW r \in Field, NEW b \in Field \ {0}, NEW d \in Field
  PROVE  Mul(d, b) = r <=> d = Mul(r, Inv(b))
<1>1. Inv(b) \in Field /\ Mul(b, Inv(b)) = 1 /\ Mul(Inv(b), b) = 1
  BY InverseLaws
<1>2. Mul(Mul(d, b), Inv(b)) = Mul(d, Mul(b, Inv(b))) /\ Mul(d, 1) = d
  BY <1>1, MulAssociates, MulLaws
<1>3. Mul(Mul(r, Inv(b)), b) = Mul(r, Mul(Inv(b), b)) /\ Mul(r, 1) = r
  BY <1>1, MulAssociates, MulLaws
<1> QED BY <1>1, <1>2, <1>3

LEMMA VerifyIs ==
  ASSUME NEW poly \in Polys, NEW b \in Blindings, SetupFrom(poly, b),
         NEW key, CiphertextsFrom(key), NEW r \in Randomness,
         shares \in Seq(ReceivedShares), InRange
  PROVE  /\ VerifyDecryptionSharesFast(setup.public_contexts, ciphertexts[r], shares)
              <=> \A k \in 1 .. Len(shares) :
                     Mul(shares[k].decryption_share, b[shares[k].decrypter_index]) = r
         /\ VerifyDecryptionSharesFast(setup.public_contexts, ciphertexts[r], shares)
              <=> \A k \in 1 .. Len(shares) :
                     shares[k] = Answer(shares[k].decrypter_index, r)
<1>1. ciphertexts[r].commitment = r /\ r \in Field
  BY SentCiphertext
<1>2. ASSUME NEW k \in 1 .. Len(shares)
      PROVE  LET i == shares[k].decrypter_index
             IN  /\ setup.public_contexts[i].blinding_key = b[i]
                 /\ Mul(shares[k].decryption_share, b[i]) = r <=> shares[k] = Answer(i, r)
  <2> DEFINE i == shares[k].decrypter_index
             d == shares[k].decryption_share
  <2>1. /\ i \in 1 .. SharesNum /\ d \in Field
        /\ shares[k] = [decrypter_index |-> i, decryption_share |-> d]
    BY ReceivedFields DEF InRange
  <2>2. b[i] \in Field \ {0} /\ setup.public_contexts[i].blinding_key = b[i]
    BY <2>1, SetupFacts
  <2>3. Answer(i, r) = [decrypter_index |-> i, decryption_share |-> Mul(r, Inv(b[i]))]
    BY <2>1, AnswerIs DEF AnswerOf
  <2> HIDE DEF i, d
  <2>4. shares[k] = Answer(i, r) <=> d = Mul(r, Inv(b[i]))
    BY <2>1, <2>3
  <2>5. Mul(d, b[i]) = r <=> d = Mul(r, Inv(b[i]))
    BY <1>1, <2>1, <2>2, VerifiedIsAnswer
  <2> QED BY <2>2, <2>4, <2>5 DEF i, d
<1>3. VerifyDecryptionSharesFast(setup.public_contexts, ciphertexts[r], shares)
        <=> \A k \in 1 .. Len(shares) :
               Mul(shares[k].decryption_share, b[shares[k].decrypter_index]) = r
  BY <1>1, <1>2 DEF VerifyDecryptionSharesFast, Pairing
<1> QED BY <1>2, <1>3

\* The term of a verified share: its key share times its coefficient, times
\* what all terms have in common.
TermOf(d, z, b, s, l) == Mul(d, Mul(Mul(z, b), Mul(s, l)))
CommonTimes(d, z, b, s, l) == Mul(Mul(Mul(d, b), s), Mul(z, l))

LEMMA TermOfShare ==
  ASSUME NEW d \in Field, NEW z \in Field, NEW b \in Field, NEW s \in Field, NEW l \in Field
  PROVE  TermOf(d, z, b, s, l) = CommonTimes(d, z, b, s, l)
<1>1. Mul(z, b) \in Field /\ Mul(s, l) \in Field /\ Mul(d, b) \in Field
  BY Closed
<1>2. Mul(d, Mul(Mul(z, b), Mul(s, l))) = Mul(Mul(d, Mul(z, b)), Mul(s, l))
  BY <1>1, MulAssociates
<1>3. Mul(d, Mul(z, b)) = Mul(Mul(d, b), z)
  <2>1. Mul(z, b) = Mul(b, z) /\ Mul(Mul(d, b), z) = Mul(d, Mul(b, z))
    BY AddCommutes, MulAssociates
  <2> QED BY <2>1
<1>4. Mul(Mul(Mul(d, b), z), Mul(s, l)) = Mul(Mul(Mul(d, b), s), Mul(z, l))
  BY <1>1, MulExchange
<1> QED BY <1>2, <1>3, <1>4 DEF TermOf, CommonTimes

LEMMA SharesCombineFast ==
  ASSUME NEW poly \in Polys, NEW b \in Blindings, SetupFrom(poly, b),
         shares \in Seq(ReceivedShares), Len(shares) >= Threshold, Prepared # Panic,
         NEW r \in Field,
         \A k \in 1 .. Len(shares) :
            Mul(shares[k].decryption_share, b[shares[k].decrypter_index]) = r
  PROVE  ShareCombineFast(shares, Prepared) = Mul(Sign(Len(shares)), Mul(r, poly[1]))
<1> DEFINE n == Len(shares)
           s == Sign(n)
           l == LagrangeBasisAt(Points, 0)
           f == [k \in 1 .. n |-> Pairing(shares[k].decryption_share, Prepared[k])]
           g == [k \in 1 .. n |-> Mul(Evaluate(poly, Points[k]), l[k])]
<1>0. InRange
  BY PreparedInRange
<1>1. /\ n \in Nat /\ Len(shares) # 0 /\ Threshold \in 0 .. n /\ Threshold \in Nat \ {0}
      /\ \A k \in 1 .. n : /\ shares[k].decrypter_index \in 1 .. SharesNum
                           /\ shares[k].decryption_share \in Field
  <2>1. /\ n \in Nat
        /\ \A k \in 1 .. n : /\ shares[k].decrypter_index \in 1 .. SharesNum
                             /\ shares[k].decryption_share \in Field
    BY <1>0, ReceivedFields DEF InRange
  <2>2. Threshold \in Nat \ {0} /\ n >= Threshold
    BY DomainPointsAre
  <2> QED BY <2>1, <2>2
<1>2. /\ Len(Points) = n /\ Distinct(Points, n)
      /\ \A k \in 1 .. n : /\ Points[k] = DomainPoint(shares[k].decrypter_index)
                           /\ Points[k] \in Field
  BY <1>0, <1>1, PreparedIs, PointsAre
<1>3. poly \in Polynomials(Threshold) /\ poly[1] \in Field
  BY SetupFacts
<1>4. s \in Field /\ 0 \in Field /\ Mul(r, s) \in Field
  BY <1>1, SignIs, Closed
<1>5. ASSUME NEW k \in 1 .. n
      PROVE  g[k] \in Field /\ f[k] = Mul(Mul(r, s), g[k])
  <2> DEFINE i == shares[k].decrypter_index
             d == shares[k].decryption_share
             z == KeyShareOf(poly, i)
             c == Basis(Points, n, 0, k)
  <2>1. i \in 1 .. SharesNum /\ d \in Field
    BY <1>1
  <2>2. z \in Field /\ b[i] \in Field
    BY <2>1, SetupFacts
  <2>3. c \in Field
    BY <1>1, <1>2, <1>4, BasisInField
  <2>4. g[k] = Mul(z, c)
    BY <1>2, LagrangeIsBasis DEF KeyShareOf
  <2>5. Prepared[k] = Mul(Mul(z, b[i]), Mul(s, c))
    BY <1>1, PreparedIs
  <2>6. Mul(d, b[i]) = r
    OBVIOUS
  <2>7. f[k] = Mul(d, Prepared[k])
    BY DEF Pairing
  <2> HIDE DEF i, d, z, c, f, g, s
  <2>8. f[k] = Mul(Mul(r, s), Mul(z, c))
    <3>1. d \in Field /\ z \in Field /\ b[i] \in Field /\ s \in Field /\ c \in Field
      BY <1>4, <2>1, <2>2, <2>3
    <3>2. TermOf(d, z, b[i], s, c) = CommonTimes(d, z, b[i], s, c)
      BY <3>1, TermOfShare
    <3> QED BY <2>5, <2>6, <2>7, <3>2 DEF TermOf, CommonTimes
  <2> QED BY <2>2, <2>3, <2>4, <2>8, Closed
<1>6. SumTo(g, n) = poly[1]
  <2>1. SumTo(g, n) = Evaluate(poly, 0)
    BY <1>1, <1>2, <1>3, <1>4, LagrangeInterpolates
  <2>2. Evaluate(poly, 0) = poly[1]
    BY <1>1, <1>3, EvaluateAtZero
  <2> QED BY <2>1, <2>2
<1>7. ShareCombineFast(shares, Prepared) = SumTo(f, n)
  BY DEF ShareCombineFast
<1> HIDE DEF f, g, s, n
<1>8. SumTo(f, n) = Mul(Mul(r, s), SumTo(g, n))
  <2>1. \A k \in 1 .. n : g[k] \in Field /\ f[k] = Mul(Mul(r, s), g[k])
    BY <1>5
  <2>2. n \in Nat /\ Mul(r, s) \in Field
    BY <1>1, <1>4, Closed
  <2> QED BY ONLY <2>1, <2>2, SumScaled
<1>9. Mul(Mul(r, s), poly[1]) = Mul(s, Mul(r, poly[1]))
  <2>1. Mul(r, s) = Mul(s, r) /\ Mul(Mul(s, r), poly[1]) = Mul(s, Mul(r, poly[1]))
    BY <1>3, <1>4, AddCommutes, MulAssociates
  <2> QED BY <2>1
<1> QED BY <1>6, <1>7, <1>8, <1>9 DEF s, n

-----------------------------------------------------------------------------
(***************************************************************************)
(* The invariant.                                                          *)
(***************************************************************************)

Origins == [of : Randomness, damaged : BOOLEAN]

\* What arrived undamaged: an answer.
Arrived(k) ==
    ~origin[k].damaged =>
        shares[k] = Answer(shares[k].decrypter_index, origin[k].of)

AtMostOneDamaged ==
    \A k, l \in 1 .. Len(origin) : origin[k].damaged /\ origin[l].damaged => k = l

\* The outcome is what the code returned for the shares, which stay.
OutcomeIs(r) ==
    \/ outcome = [by |-> "build", of |-> r, result |-> BuildAndDecrypt(r)]
    \/ outcome = [by |-> "decrypt", of |-> r,
                  result |-> CheckedDecrypt(ciphertexts[r], Aad, setup.private_key)]

IInv ==
    /\ \E poly \in Polys, b \in Blindings : SetupFrom(poly, b)
    /\ CiphertextsFrom(setup.public_key)
    /\ shares \in Seq(ReceivedShares)
    /\ origin \in Seq(Origins)
    /\ Len(origin) = Len(shares)
    /\ \A k \in 1 .. Len(shares) : Arrived(k)
    /\ AtMostOneDamaged
    /\ outcome = NoOutcome \/ \E r \in Randomness : OutcomeIs(r)

LEMMA InvInit == Init => IInv
<1> SUFFICES ASSUME Init PROVE IInv
  OBVIOUS
<1>1. \E poly \in Polys, b \in Blindings : SetupFrom(poly, b)
  BY DEF Init, SetupFrom
<1>2. CiphertextsFrom(setup.public_key)
  BY DEF Init, CiphertextsFrom
<1>3. shares = <<>> /\ origin = <<>> /\ outcome = NoOutcome
  BY DEF Init
<1>4. shares \in Seq(ReceivedShares) /\ origin \in Seq(Origins)
      /\ Len(shares) = 0 /\ Len(origin) = 0
  BY <1>3
<1>5. AtMostOneDamaged /\ \A k \in 1 .. Len(shares) : Arrived(k)
  BY <1>4 DEF AtMostOneDamaged
<1> QED BY <1>1, <1>2, <1>3, <1>4, <1>5 DEF IInv

\* An answer arrives, the first damaged one at most.
LEMMA ArrivalKeepsInv ==
  ASSUME IInv, outcome = NoOutcome, UNCHANGED <<setup, ciphertexts, outcome>>,
         NEW i \in 1 .. SharesNum, NEW r \in Randomness, NEW d \in BOOLEAN,
         d => \A k \in 1 .. Len(origin) : ~origin[k].damaged,
         NEW share \in IF d THEN DamagedAnswers(i, r) ELSE {Answer(i, r)},
         shares' = Append(shares, share),
         origin' = Append(origin, [of |-> r, damaged |-> d])
  PROVE  IInv'
<1>1. PICK poly \in Polys, b \in Blindings : SetupFrom(poly, b)
  BY DEF IInv
<1> DEFINE n == Len(shares)
<1>2. /\ CiphertextsFrom(setup.public_key)
      /\ shares \in Seq(ReceivedShares) /\ origin \in Seq(Origins)
      /\ Len(origin) = n /\ n \in Nat
      /\ \A k \in 1 .. n : Arrived(k)
      /\ AtMostOneDamaged
  BY DEF IInv
<1>3. /\ Answer(i, r) = [decrypter_index |-> i, decryption_share |-> Mul(r, Inv(b[i]))]
      /\ Mul(r, Inv(b[i])) \in Field
  BY <1>1, <1>2, AnswerIs DEF AnswerOf
<1>4. share \in ReceivedShares /\ (~d => share = Answer(share.decrypter_index, r))
  <2> DEFINE v == Mul(r, Inv(b[i]))
  <2>1. v \in Field /\ Add(v, 1) \in Field /\ Answer(i, r) = [decrypter_index |-> i, decryption_share |-> v]
    BY <1>3, Closed
  <2>2. i \in 1 .. SharesNum + 1
    BY DomainPointsAre
  <2> HIDE DEF v
  <2>3. CASE ~d
    BY <2>1, <2>2, <2>3 DEF ReceivedShares
  <2>4. CASE d
    <3>1. share = [decrypter_index |-> i, decryption_share |-> Add(v, 1)]
          \/ \E j \in 1 .. SharesNum + 1 : share = [decrypter_index |-> j, decryption_share |-> v]
      BY <2>1, <2>4, BuilderAssumption DEF DamagedAnswers
    <3> QED BY <2>1, <2>2, <2>4, <3>1 DEF ReceivedShares
  <2> QED BY <2>3, <2>4
<1>5. [of |-> r, damaged |-> d] \in Origins
  BY DEF Origins
<1> HIDE DEF n
<1>6. /\ shares' \in Seq(ReceivedShares) /\ Len(shares') = n + 1
      /\ shares'[n + 1] = share /\ \A k \in 1 .. n : shares'[k] = shares[k]
  BY <1>2, <1>4 DEF n
<1>7. /\ origin' \in Seq(Origins) /\ Len(origin') = n + 1
      /\ origin'[n + 1] = [of |-> r, damaged |-> d]
      /\ \A k \in 1 .. n : origin'[k] = origin[k]
  BY <1>2, <1>5
<1>8. \A j, q : Answer(j, q)' = Answer(j, q)
  BY DEF Answer, PrivateContextAt
<1>9. ASSUME NEW k \in 1 .. Len(shares')
      PROVE  Arrived(k)'
  <2>1. CASE k = n + 1
    <3>1. origin'[k].of = r /\ origin'[k].damaged = d /\ shares'[k] = share
      BY <1>6, <1>7, <2>1
    <3> QED BY <1>4, <1>8, <3>1 DEF Arrived
  <2>2. CASE k \in 1 .. n
    <3>1. origin'[k] = origin[k] /\ shares'[k] = shares[k] /\ Arrived(k)
      BY <1>2, <1>6, <1>7, <2>2
    <3> QED BY <1>8, <3>1 DEF Arrived
  <2> QED BY <1>2, <1>6, <2>1, <2>2
<1>10. AtMostOneDamaged'
  <2> SUFFICES ASSUME NEW k \in 1 .. Len(origin'), NEW l \in 1 .. Len(origin'),
                      origin'[k].damaged, origin'[l].damaged
               PROVE  k = l
    BY DEF AtMostOneDamaged
  <2>1. k \in 1 .. n \/ k = n + 1
    BY <1>2, <1>7
  <2>2. l \in 1 .. n \/ l = n + 1
    BY <1>2, <1>7
  <2>3. ASSUME NEW m \in 1 .. n, d PROVE ~origin'[m].damaged
    BY <1>2, <1>7, <2>3
  <2>4. k = n + 1 \/ l = n + 1 => d
    BY <1>7
  <2>5. k \in 1 .. n /\ l \in 1 .. n => k = l
    BY <1>2, <1>7 DEF AtMostOneDamaged
  <2> QED BY <2>1, <2>2, <2>3, <2>4, <2>5
<1>11. (\E p \in Polys, c \in Blindings : SetupFrom(p, c))' /\ CiphertextsFrom(setup.public_key)'
  BY <1>1, <1>2 DEF SetupFrom, CiphertextsFrom
<1> QED BY <1>2, <1>6, <1>7, <1>9, <1>10, <1>11 DEF IInv

LEMMA InvStep == IInv /\ [Next]_vars => IInv'
<1> SUFFICES ASSUME IInv, [Next]_vars PROVE IInv'
  OBVIOUS
<1>1. ASSUME NEW r \in Randomness, NEW i \in 1 .. SharesNum, AddDecryptionShare(i, r)
      PROVE  IInv'
  BY <1>1, ArrivalKeepsInv DEF AddDecryptionShare
<1>2. ASSUME NEW r \in Randomness, NEW i \in 1 .. SharesNum, AddDamagedShare(i, r)
      PROVE  IInv'
  BY <1>2, ArrivalKeepsInv DEF AddDamagedShare
<1>3. ASSUME UNCHANGED <<setup, ciphertexts, shares, origin>>,
             outcome' = outcome \/ \E r \in Randomness : OutcomeIs(r)'
      PROVE  IInv'
  <2>1. (\E r \in Randomness : OutcomeIs(r)) /\ outcome' = outcome
          => \E r \in Randomness : OutcomeIs(r)'
    BY <1>3 DEF OutcomeIs, BuildAndDecrypt
  <2>2. /\ (\E p \in Polys, c \in Blindings : SetupFrom(p, c))'
        /\ CiphertextsFrom(setup.public_key)'
    BY <1>3 DEF IInv, SetupFrom, CiphertextsFrom
  <2>3. AtMostOneDamaged' /\ \A k \in 1 .. Len(shares') : Arrived(k)'
    BY <1>3 DEF IInv, AtMostOneDamaged, Arrived, Answer, PrivateContextAt
  <2>4. outcome' = NoOutcome \/ \E r \in Randomness : OutcomeIs(r)'
    BY <1>3, <2>1 DEF IInv
  <2> QED BY <1>3, <2>2, <2>3, <2>4 DEF IInv
<1>4. ASSUME NEW r \in Randomness, Build(r)
      PROVE  IInv'
  <2>1. OutcomeIs(r)'
    BY <1>4 DEF Build, OutcomeIs, BuildAndDecrypt
  <2>2. UNCHANGED <<setup, ciphertexts, shares, origin>>
    BY <1>4 DEF Build
  <2> QED BY <1>3, <2>1, <2>2
<1>5. ASSUME NEW r \in Randomness, Decrypt(r)
      PROVE  IInv'
  <2>1. OutcomeIs(r)'
    BY <1>5 DEF Decrypt, OutcomeIs
  <2>2. UNCHANGED <<setup, ciphertexts, shares, origin>>
    BY <1>5 DEF Decrypt
  <2> QED BY <1>3, <2>1, <2>2
<1>6. CASE UNCHANGED vars
  BY <1>3, <1>6 DEF vars
<1> QED BY <1>1, <1>2, <1>4, <1>5, <1>6 DEF Next

LEMMA Inductive == Spec => []IInv
BY InvInit, InvStep, PTL DEF Spec

-----------------------------------------------------------------------------
(***************************************************************************)
(* The outcome.                                                            *)
(***************************************************************************)

\* The client's own ciphertext passes its check and opens under its secret.
LEMMA OpensWithSecret ==
  ASSUME NEW key \in Field, CiphertextsFrom(key), NEW r \in Randomness, NEW s
  PROVE  CheckedDecryptWithSharedSecret(ciphertexts[r], Aad, s)
           = IF s = Mul(r, key) THEN Message ELSE "panic"
<1> DEFINE c == ciphertexts[r]
           product == Pairing(Mul(key, r), 1)
           v == Seal(product, r, Message)
<1>1. c = [commitment |-> r, ciphertext |-> v,
           auth_tag |-> <<r, ConstructTagHash(r, v, Aad)>>]
  BY SentCiphertext DEF Encrypt
<1>2. c.commitment = r /\ c.ciphertext = v /\ c.auth_tag = <<r, ConstructTagHash(r, v, Aad)>>
  BY <1>1
<1>3. product = Mul(r, key)
  <2>1. r \in Field /\ Mul(key, r) \in Field
    BY SentCiphertext, Closed
  <2>2. Mul(Mul(key, r), 1) = Mul(key, r) /\ Mul(key, r) = Mul(r, key)
    BY <2>1, MulLaws, AddCommutes
  <2> QED BY <2>2 DEF Pairing
<1> HIDE DEF c, product
<1>4. v = <<[key |-> product, nonce |-> r, plaintext |-> Message]>>
  BY DEF Seal
<1>5. Len(v) = 1 /\ v[1].key = product /\ v[1].nonce = r /\ v[1].plaintext = Message
  BY <1>4
<1> HIDE DEF v
<1>6. CheckCiphertextValidity(c, Aad)
  BY <1>2 DEF CheckCiphertextValidity
<1>7. Opens(s, c.commitment, c.ciphertext) <=> s = product
  BY <1>2, <1>5 DEF Opens
<1>8. CheckedDecryptWithSharedSecret(c, Aad, s) = IF s = product THEN Message ELSE "panic"
  BY <1>2, <1>5, <1>6, <1>7 DEF CheckedDecryptWithSharedSecret
<1> QED BY <1>3, <1>8 DEF c

LEMMA OutcomeFields ==
  ASSUME NEW r, OutcomeIs(r)
  PROVE  /\ outcome.of = r /\ outcome.by \in {"build", "decrypt"}
         /\ outcome.by = "build" => outcome.result = BuildAndDecrypt(r)
         /\ outcome.by = "decrypt" =>
               outcome.result = CheckedDecrypt(ciphertexts[r], Aad, setup.private_key)
BY DEF OutcomeIs

\* The four ways build and decrypt_with_shared_secret end.
LEMMA BuildCases ==
  ASSUME NEW poly \in Polys, NEW b \in Blindings, SetupFrom(poly, b),
         CiphertextsFrom(setup.public_key), NEW r \in Randomness
  PROVE  LET valid == VerifyDecryptionSharesFast(setup.public_contexts, ciphertexts[r], shares)
             secret == ShareCombineFast(shares, Prepared)
         IN  BuildAndDecrypt(r) =
                IF Len(shares) # SharesNum THEN "count"
                ELSE IF Prepared = Panic THEN "panic"
                ELSE IF ~valid THEN "invalid_share"
                ELSE IF secret = Mul(r, poly[1]) THEN Message ELSE "panic"
<1> DEFINE contexts == setup.public_contexts
           valid == VerifyDecryptionSharesFast(contexts, ciphertexts[r], shares)
           secret == ShareCombineFast(shares, Prepared)
           checked == CheckedShareCombineFast(contexts, ciphertexts[r], shares, Prepared)
<1>1. /\ Len(contexts) = SharesNum /\ poly[1] \in Field /\ setup.public_key = poly[1]
  BY SetupFacts
<1>2. checked = IF valid THEN <<secret>> ELSE <<>>
  BY DEF CheckedShareCombineFast
<1>3. BuildAndDecrypt(r) =
         IF Len(shares) # SharesNum THEN "count"
         ELSE IF Prepared = Panic THEN "panic"
         ELSE IF checked = <<>> THEN "invalid_share"
         ELSE CheckedDecryptWithSharedSecret(ciphertexts[r], Aad, checked[1])
  BY <1>1 DEF BuildAndDecrypt, Prepared
<1> HIDE DEF valid, secret, checked
<1>4. checked = <<>> <=> ~valid
  <2>1. <<secret>> # <<>>
    OBVIOUS
  <2> QED BY <1>2, <2>1
<1>5. valid => checked[1] = secret
  BY <1>2
<1>6. \A s : CheckedDecryptWithSharedSecret(ciphertexts[r], Aad, s)
               = IF s = Mul(r, poly[1]) THEN Message ELSE "panic"
  BY <1>1, OpensWithSecret
<1> QED BY <1>3, <1>4, <1>5, <1>6 DEF valid, secret

LEMMA DecryptAloneIs ==
  ASSUME NEW poly \in Polys, NEW b \in Blindings, SetupFrom(poly, b),
         CiphertextsFrom(setup.public_key), NEW r \in Randomness
  PROVE  CheckedDecrypt(ciphertexts[r], Aad, setup.private_key) = Message
<1>1. poly[1] \in Field /\ setup.public_key = poly[1] /\ setup.private_key = poly[1]
  BY SetupFacts
<1>2. ciphertexts[r].commitment = r
  BY SentCiphertext
<1>3. CheckedDecryptWithSharedSecret(ciphertexts[r], Aad, Mul(r, poly[1])) = Message
  BY <1>1, OpensWithSecret
<1> QED BY <1>1, <1>2, <1>3 DEF CheckedDecrypt, Pairing

LEMMA InvImpliesTypeOK == IInv => TypeOK
<1> SUFFICES ASSUME IInv PROVE TypeOK
  OBVIOUS
<1>1. PICK poly \in Polys, b \in Blindings : SetupFrom(poly, b)
  BY DEF IInv
<1>2. CiphertextsFrom(setup.public_key)
  BY DEF IInv
<1>3. setup.public_key \in Field /\ Len(setup.public_contexts) = SharesNum
  BY <1>1, SetupFacts
<1>4. ASSUME NEW k \in 1 .. Len(shares)
      PROVE  /\ shares[k].decrypter_index \in 1 .. SharesNum + 1
             /\ shares[k].decryption_share \in Field
             /\ origin[k] \in [of : Randomness, damaged : BOOLEAN]
  <2>1. origin[k] \in Origins
    BY DEF IInv
  <2> QED BY <2>1, ReceivedFields DEF IInv, Origins
<1>5. outcome # NoOutcome =>
         outcome.result \in {"count", "invalid_share", "panic", Message}
  <2> SUFFICES ASSUME outcome # NoOutcome
               PROVE  outcome.result \in {"count", "invalid_share", "panic", Message}
    OBVIOUS
  <2>1. PICK r \in Randomness : OutcomeIs(r)
    BY DEF IInv
  <2>2. BuildAndDecrypt(r) \in {"count", "invalid_share", "panic", Message}
    BY <1>1, <1>2, BuildCases
  <2>3. CheckedDecrypt(ciphertexts[r], Aad, setup.private_key) = Message
    BY <1>1, <1>2, DecryptAloneIs
  <2> QED BY <2>1, <2>2, <2>3, OutcomeFields
<1> QED BY <1>3, <1>4, <1>5 DEF TypeOK, IInv

LEMMA InvImpliesCombine == IInv => VerifiedSharesCombine
<1> SUFFICES ASSUME IInv, Len(shares) >= Threshold, Prepared # Panic,
                    NEW r \in Randomness,
                    VerifyDecryptionSharesFast(setup.public_contexts, ciphertexts[r], shares)
             PROVE  ShareCombineFast(shares, Prepared) =
                       IF Len(shares) % 2 = 0
                       THEN SharedSecret(ciphertexts[r], setup.public_key)
                       ELSE Neg(SharedSecret(ciphertexts[r], setup.public_key))
  BY DEF VerifiedSharesCombine
<1>1. PICK poly \in Polys, b \in Blindings : SetupFrom(poly, b)
  BY DEF IInv
<1>2. CiphertextsFrom(setup.public_key) /\ shares \in Seq(ReceivedShares)
  BY DEF IInv
<1>3. \A k \in 1 .. Len(shares) :
         Mul(shares[k].decryption_share, b[shares[k].decrypter_index]) = r
  <2>1. InRange
    BY <1>1, PreparedInRange
  <2> QED BY <1>1, <1>2, <2>1, VerifyIs
<1>4. r \in Field /\ ciphertexts[r].commitment = r
  BY <1>2, SentCiphertext
<1>5. ShareCombineFast(shares, Prepared) = Mul(Sign(Len(shares)), Mul(r, poly[1]))
  BY <1>1, <1>2, <1>3, <1>4, SharesCombineFast
<1>6. SharedSecret(ciphertexts[r], setup.public_key) = Mul(r, poly[1])
      /\ Mul(r, poly[1]) \in Field
  BY <1>1, <1>4, SetupFacts, Closed DEF SharedSecret, Pairing
<1>7. \A a \in Field : Mul(1, a) = a /\ Mul(Neg(1), a) = Neg(a)
  BY MulLaws, NegIs, Closed
<1> QED BY <1>5, <1>6, <1>7 DEF Sign

\* With at most four shares of different participants nothing panics on the way
\* to the prepared key shares.
LEMMA InvImpliesFewPrepare == IInv => FewSharesPrepare
<1> SUFFICES ASSUME IInv, Len(shares) \in 1 .. 4, DistinctDecrypters,
                    KnownIndices(setup.public_contexts, shares)
             PROVE  Prepared # Panic
  BY DEF FewSharesPrepare
<1> DEFINE n == Len(shares)
           contexts == setup.public_contexts
           of == [k \in 1 .. n |-> contexts[shares[k].decrypter_index]]
           n_0 == ProductTo([k \in 1 .. n |-> of[k].lagrange_n_0], n)
           domain == [k \in 1 .. n |-> of[k].domain]
           inverses == InverseLagrangeCoefficients(domain)
           lagrange == BatchInversionAndMul(inverses, n_0)
<1>1. PICK poly \in Polys, b \in Blindings : SetupFrom(poly, b)
  BY DEF IInv
<1>2. /\ n \in 1 .. 4 /\ Points \in Domains /\ Len(Points) = n
      /\ \A k \in 1 .. n : /\ shares[k].decrypter_index \in 1 .. SharesNum
                           /\ Points[k] = DomainPoint(shares[k].decrypter_index)
                           /\ Points[k] \in Field \ {0}
      /\ \A j, k \in 1 .. n : Points[j] = Points[k] => j = k
  <2>1. shares \in Seq(ReceivedShares) /\ InRange /\ n \in 1 .. 4 /\ n # 0
    BY <1>1, KnownIs DEF IInv, InRange
  <2>2. /\ Points \in Domains /\ Len(Points) = n
        /\ \A k \in 1 .. n : /\ Points[k] = DomainPoint(shares[k].decrypter_index)
                             /\ Points[k] \in Field \ {0}
        /\ Distinct(Points, n)
    BY <2>1, PointsAre
  <2>3. \A j, k \in 1 .. n : Points[j] = Points[k] => j = k
    BY <2>2 DEF Distinct
  <2>4. \A k \in 1 .. n : shares[k].decrypter_index \in 1 .. SharesNum
    BY <2>1 DEF InRange
  <2> QED BY <2>1, <2>2, <2>3, <2>4
<1>3. \A k \in 1 .. n : /\ of[k].lagrange_n_0 = Points[k] /\ of[k].domain = Points[k]
                        /\ of[k] = contexts[shares[k].decrypter_index]
  BY <1>1, <1>2, SetupFacts
<1>4. domain = Points
  <2>1. Points = [k \in 1 .. n |-> Points[k]]
    BY DEF Points
  <2> QED BY <1>3, <2>1
<1>5. n < P
  <2> SUFFICES ASSUME n >= P PROVE FALSE
    BY <1>2, ModulusIsNat
  <2>1. P \in 2 .. 4 /\ \A k \in 1 .. n : Points[k] \in 1 .. P - 1
    <3> HIDE DEF n
    <3>1. P \in 2 .. 4
      BY <1>2, ModulusIsNat
    <3> QED BY <1>2, <3>1 DEF Field
  <2> HIDE DEF n, of, contexts, domain, n_0, inverses, lagrange
  <2>2. CASE P = 2
    <3>1. 1 \in 1 .. n /\ 2 \in 1 .. n
      BY <1>2, <2>2
    <3>2. Points[1] = 1 /\ Points[2] = 1
      BY <2>1, <2>2, <3>1
    <3> QED BY <1>2, <3>1, <3>2
  <2>3. CASE P = 3
    <3>1. 1 \in 1 .. n /\ 2 \in 1 .. n /\ 3 \in 1 .. n
      BY <1>2, <2>3
    <3>2. Points[1] \in 1 .. 2 /\ Points[2] \in 1 .. 2 /\ Points[3] \in 1 .. 2
      BY <2>1, <2>3, <3>1
    <3>3. Points[1] # Points[2] /\ Points[2] # Points[3] /\ Points[1] # Points[3]
      BY <1>2, <3>1
    <3> QED BY <3>2, <3>3
  <2>4. CASE P = 4
    <3>1. (2 * 2) % 4 = 0
      OBVIOUS
    <3>2. 2 \in 1 .. P - 1
      BY <2>4
    <3>3. (2 * 2) % P # 0
      BY <3>2, PrimeAssumption
    <3> QED BY <2>4, <3>1, <3>3
  <2> QED BY <2>1, <2>2, <2>3, <2>4
<1>6. inverses # Panic
  <2> HIDE DEF domain, n
  <2>1. InverseLagrangeCoefficients(Points) # Panic
    BY <1>2, <1>5, FewPointsHaveLagrange
  <2> QED BY <1>4, <2>1
<1>7. /\ Len(inverses) = n /\ inverses[1] \in Field \ {0} /\ 1 \in 1 .. n
  <2>1. /\ inverses = [k \in 1 .. n |-> Spread(Points, k)]
        /\ \A k \in 1 .. n : Spread(Points, k) \in Field \ {0}
    BY <1>2, <1>4, <1>6, LagrangeFromTreeIs
  <2>2. n \in Nat /\ 1 \in 1 .. n
    BY <1>2
  <2> HIDE DEF n, inverses
  <2> QED BY <2>1, <2>2
<1>8. n_0 \in Field
  <2>1. \A k \in 1 .. n : of[k].lagrange_n_0 \in Field
    BY <1>2, <1>3
  <2>2. n \in Nat
    BY <1>2
  <2> HIDE DEF n, of
  <2> QED BY <2>1, <2>2, ProductInField
<1>9. lagrange[1] \in Field
  <2> HIDE DEF inverses, n_0
  <2>1. lagrange[1] = Div(n_0, inverses[1])
    BY <1>7 DEF BatchInversionAndMul
  <2> QED BY <1>7, <1>8, <2>1, InverseLaws, Closed DEF Div
<1>10. of[1].blinded_key_share \in Field
  <2> DEFINE i == shares[1].decrypter_index
  <2>1. i \in 1 .. SharesNum /\ of[1] = contexts[i]
    BY <1>2, <1>3, <1>7
  <2>2. /\ KeyShareOf(poly, i) \in Field /\ b[i] \in Field /\ DomainPoint(i) \in Field \ {0}
        /\ contexts[i].blinded_key_share
              = Mul(Mul(KeyShareOf(poly, i), b[i]), Neg(Inv(DomainPoint(i))))
    BY <1>1, <2>1, SetupFacts, DomainPointsAre
  <2>3. Neg(Inv(DomainPoint(i))) \in Field
    BY <2>2, InverseLaws, Closed
  <2>4. Mul(KeyShareOf(poly, i), b[i]) \in Field
    BY <2>2, Closed
  <2>5. contexts[i].blinded_key_share \in Field
    BY <2>2, <2>3, <2>4, Closed
  <2> HIDE DEF of
  <2> QED BY <2>1, <2>5
<1>11. Prepared = [k \in 1 .. n |-> Mul(of[k].blinded_key_share, lagrange[k])]
  BY <1>6 DEF Prepared, PrepareCombineFast
<1> HIDE DEF n, of, lagrange
<1>12. Prepared[1] \in Field
  BY <1>7, <1>9, <1>10, <1>11, Closed
<1>13. Panic[1] \notin Field
  BY FieldIsInt DEF Panic, Field
<1> QED BY <1>12, <1>13

LEMMA InvImpliesBuild == SharesNum % 2 = 0 /\ IInv => BuildDecrypts
<1> SUFFICES ASSUME SharesNum % 2 = 0, IInv, outcome # NoOutcome
             PROVE  outcome.result =
                       IF outcome.by = "decrypt" THEN Message
                       ELSE IF Len(shares) # SharesNum THEN "count"
                       ELSE IF ~DistinctDecrypters \/ Prepared = Panic THEN "panic"
                       ELSE IF \A k \in 1 .. Len(shares) :
                                  shares[k] = Answer(shares[k].decrypter_index, outcome.of)
                       THEN Message ELSE "invalid_share"
  BY DEF BuildDecrypts
<1>1. PICK poly \in Polys, b \in Blindings : SetupFrom(poly, b)
  BY DEF IInv
<1>2. CiphertextsFrom(setup.public_key) /\ shares \in Seq(ReceivedShares)
  BY DEF IInv
<1>3. PICK r \in Randomness : OutcomeIs(r)
  BY DEF IInv
<1>4. CASE outcome.by = "decrypt"
  BY <1>1, <1>2, <1>3, <1>4, OutcomeFields, DecryptAloneIs
<1>5. CASE outcome.by # "decrypt"
  <2> DEFINE valid == VerifyDecryptionSharesFast(setup.public_contexts, ciphertexts[r], shares)
             secret == ShareCombineFast(shares, Prepared)
             answers == \A k \in 1 .. Len(shares) :
                           shares[k] = Answer(shares[k].decrypter_index, outcome.of)
  <2>1. outcome.by = "build" /\ outcome.of = r /\ outcome.result = BuildAndDecrypt(r)
    BY <1>3, <1>5, OutcomeFields
  <2>2. outcome.result = IF Len(shares) # SharesNum THEN "count"
                         ELSE IF Prepared = Panic THEN "panic"
                         ELSE IF ~valid THEN "invalid_share"
                         ELSE IF secret = Mul(r, poly[1]) THEN Message ELSE "panic"
    BY <1>1, <1>2, <2>1, BuildCases
  <2>3. CASE Len(shares) # SharesNum
    BY <1>5, <2>2, <2>3
  <2>4. CASE Len(shares) = SharesNum /\ Prepared = Panic
    BY <1>5, <2>2, <2>4
  <2>5. CASE Len(shares) = SharesNum /\ Prepared # Panic
    <3>1. Len(shares) # 0 /\ Len(shares) >= Threshold
      BY <2>5, DomainPointsAre
    <3>2. InRange
      BY <1>1, <2>5, PreparedInRange
    <3>3. valid <=> answers
      BY <1>1, <1>2, <2>1, <3>2, VerifyIs
    <3>4. DistinctDecrypters
      BY <1>1, <1>2, <2>5, <3>1, PreparedIs
    <3>5. ASSUME valid PROVE secret = Mul(r, poly[1])
      <4>1. \A k \in 1 .. Len(shares) :
               Mul(shares[k].decryption_share, b[shares[k].decrypter_index]) = r
        BY <1>1, <1>2, <3>2, <3>5, VerifyIs
      <4>2. r \in Field
        BY <1>2, SentCiphertext
      <4>3. secret = Mul(Sign(Len(shares)), Mul(r, poly[1]))
        BY <1>1, <1>2, <2>5, <3>1, <4>1, <4>2, SharesCombineFast
      <4>4. Sign(Len(shares)) = 1
        BY <2>5 DEF Sign
      <4>5. Mul(r, poly[1]) \in Field
        BY <1>1, <4>2, SetupFacts, Closed
      <4> QED BY <4>3, <4>4, <4>5, MulLaws
    <3> HIDE DEF valid, secret
    <3>6. outcome.result = IF answers THEN Message ELSE "invalid_share"
      BY <2>2, <2>5, <3>3, <3>5
    <3> QED BY <1>5, <2>5, <3>4, <3>6
  <2> QED BY <2>3, <2>4, <2>5
<1> QED BY <1>4, <1>5

-----------------------------------------------------------------------------
(***************************************************************************)
(* Batch verification.                                                     *)
(***************************************************************************)

IsVector(v, r) ==
    v = [k \in 0 .. Len(shares) |->
            IF k = 0 THEN <<>>
            ELSE IF origin[k].of = r THEN Append(v[k - 1], shares[k])
            ELSE v[k - 1]]

LEMMA VectorUnfolds ==
  ASSUME NEW r, shares \in Seq(ReceivedShares)
  PROVE  \E v : /\ Vector(r) = v[Len(shares)] /\ v[0] = <<>>
                /\ \A k \in 1 .. Len(shares) :
                      v[k] = IF origin[k].of = r THEN Append(v[k - 1], shares[k])
                             ELSE v[k - 1]
<1> DEFINE n == Len(shares)
           R == Seq(ReceivedShares)
           base == <<>>
           step == [k \in Nat |-> [a \in R |->
                      IF k \in 1 .. n /\ origin[k].of = r THEN Append(a, shares[k]) ELSE a]]
<1>1. n \in Nat /\ \A k \in 1 .. n : shares[k] \in ReceivedShares
  OBVIOUS
<1>2. base \in R
  OBVIOUS
<1>3. step \in [Nat -> [R -> R]]
  <2> SUFFICES ASSUME NEW k \in 1 .. n, NEW a \in R
               PROVE  Append(a, shares[k]) \in R
    OBVIOUS
  <2>1. shares[k] \in ReceivedShares
    BY <1>1
  <2> QED BY <2>1
<1>4. PICK g \in [Nat -> R] : \A k \in Nat : Iterates(g, base, step, k)
  <2> HIDE DEF base, step, R
  <2> QED BY <1>2, <1>3, NatRecursion
<1>5. g[0] = <<>>
  BY <1>4 DEF Iterates
<1>6. ASSUME NEW k \in 1 .. n
      PROVE  g[k] = IF origin[k].of = r THEN Append(g[k - 1], shares[k]) ELSE g[k - 1]
  <2>1. k \in Nat /\ k # 0 /\ k - 1 \in Nat
    BY <1>1
  <2>2. g[k] = step[k][g[k - 1]]
    BY <1>4, <2>1 DEF Iterates
  <2>3. g[k - 1] \in R
    BY <2>1
  <2> QED BY <2>1, <2>2, <2>3
<1> HIDE DEF n, base, step, R
<1> DEFINE h == [k \in 0 .. n |-> g[k]]
<1>7. h[0] = <<>> /\ \A k \in 1 .. n : h[k] = g[k] /\ h[k - 1] = g[k - 1]
  BY <1>1, <1>5
<1>8. h = [k \in 0 .. n |-> IF k = 0 THEN <<>>
                            ELSE IF origin[k].of = r THEN Append(h[k - 1], shares[k])
                            ELSE h[k - 1]]
  <2>1. ASSUME NEW k \in 0 .. n
        PROVE  g[k] = IF k = 0 THEN <<>>
                      ELSE IF origin[k].of = r THEN Append(h[k - 1], shares[k])
                      ELSE h[k - 1]
    <3>1. CASE k = 0
      BY <1>5, <3>1
    <3>2. CASE k # 0
      <4>1. k \in 1 .. n
        BY <1>1, <3>2
      <4> HIDE DEF h
      <4> QED BY <1>6, <1>7, <3>2, <4>1
    <3> QED BY <3>1, <3>2
  <2> QED BY <2>1
<1>9. IsVector(h, r)
  BY <1>8 DEF IsVector, n
<1> DEFINE t == CHOOSE v : IsVector(v, r)
<1>10. IsVector(t, r)
  BY <1>9
<1>11. Vector(r) = t[n]
  BY DEF Vector, IsVector, n
<1> HIDE DEF t, h
<1>12. t[0] = <<>>
  BY <1>1, <1>10 DEF IsVector, n
<1>13. ASSUME NEW k \in 1 .. n
       PROVE  t[k] = IF origin[k].of = r THEN Append(t[k - 1], shares[k]) ELSE t[k - 1]
  <2>1. k \in 0 .. n /\ k # 0
    BY <1>1
  <2>2. t = [l \in 0 .. n |-> IF l = 0 THEN <<>>
                              ELSE IF origin[l].of = r THEN Append(t[l - 1], shares[l])
                              ELSE t[l - 1]]
    BY <1>10 DEF IsVector, n
  <2>3. t[k] = IF k = 0 THEN <<>>
               ELSE IF origin[k].of = r THEN Append(t[k - 1], shares[k])
               ELSE t[k - 1]
    <3> HIDE DEF n
    <3> QED BY <2>1, <2>2
  <2> QED BY <2>1, <2>3
<1> QED BY <1>11, <1>12, <1>13 DEF n

\* v is a part of the first k shares, all for r; h says where they are from.
PartOf(v, k, r, h) ==
    /\ v \in Seq(ReceivedShares)
    /\ h \in [1 .. Len(v) -> 1 .. k]
    /\ \A i, j \in 1 .. Len(v) : h[i] = h[j] => i = j
    /\ \A j \in 1 .. Len(v) : v[j] = shares[h[j]] /\ origin[h[j]].of = r

LEMMA VectorIs ==
  ASSUME NEW r, shares \in Seq(ReceivedShares)
  PROVE  \E h : PartOf(Vector(r), Len(shares), r, h)
<1> DEFINE n == Len(shares)
<1>1. n \in Nat /\ \A k \in 1 .. n : shares[k] \in ReceivedShares
  OBVIOUS
<1>2. PICK v : /\ Vector(r) = v[n] /\ v[0] = <<>>
               /\ \A k \in 1 .. n :
                     v[k] = IF origin[k].of = r THEN Append(v[k - 1], shares[k])
                            ELSE v[k - 1]
  BY VectorUnfolds
<1> HIDE DEF n
<1> DEFINE S == {k \in 0 .. n : \E h : PartOf(v[k], k, r, h)}
<1>3. 0 \in S
  <2>1. PartOf(<<>>, 0, r, <<>>)
    BY DEF PartOf
  <2> QED BY <1>1, <1>2, <2>1
<1>4. ASSUME NEW k \in 0 .. n - 1, k \in S
      PROVE  k + 1 \in S
  <2>1. PICK h : PartOf(v[k], k, r, h)
    BY <1>4
  <2>2. k + 1 \in 1 .. n /\ (k + 1) - 1 = k /\ k \in Nat
    BY <1>1
  <2>3. v[k + 1] = IF origin[k + 1].of = r THEN Append(v[k], shares[k + 1]) ELSE v[k]
    BY <1>2, <2>2
  <2> DEFINE w == v[k]
             m == Len(w)
  <2>4. /\ w \in Seq(ReceivedShares) /\ m \in Nat
        /\ h \in [1 .. m -> 1 .. k]
        /\ \A i, j \in 1 .. m : h[i] = h[j] => i = j
        /\ \A j \in 1 .. m : w[j] = shares[h[j]] /\ origin[h[j]].of = r
    BY <2>1 DEF PartOf
  <2> HIDE DEF w, m
  <2>5. CASE origin[k + 1].of # r
    <3>1. h \in [1 .. m -> 1 .. k + 1]
      <4>1. \A j \in 1 .. m : h[j] \in 1 .. k + 1
        BY <2>2, <2>4
      <4> QED BY <2>4, <4>1
    <3>2. PartOf(w, k + 1, r, h)
      BY <2>4, <3>1 DEF PartOf, m
    <3> QED BY <1>1, <2>2, <2>3, <2>5, <3>2 DEF w
  <2>6. CASE origin[k + 1].of = r
    <3> DEFINE x == Append(w, shares[k + 1])
               g == [j \in 1 .. m + 1 |-> IF j = m + 1 THEN k + 1 ELSE h[j]]
    <3>1. /\ x \in Seq(ReceivedShares) /\ Len(x) = m + 1
          /\ x[m + 1] = shares[k + 1] /\ \A j \in 1 .. m : x[j] = w[j]
      BY <1>1, <2>2, <2>4 DEF m
    <3>2. \A j \in 1 .. m : h[j] \in 1 .. k
      BY <2>4
    <3>3. \A j \in 1 .. m + 1 : j \in 1 .. m \/ j = m + 1
      BY <2>4
    <3>4. /\ g \in [1 .. m + 1 -> 1 .. k + 1] /\ g[m + 1] = k + 1
          /\ \A j \in 1 .. m : g[j] = h[j]
      BY <2>2, <2>4, <3>2, <3>3
    <3> HIDE DEF x, g
    <3>5. \A i, j \in 1 .. m + 1 : g[i] = g[j] => i = j
      BY <2>2, <2>4, <3>2, <3>3, <3>4
    <3>6. \A j \in 1 .. m + 1 : x[j] = shares[g[j]] /\ origin[g[j]].of = r
      BY <2>4, <2>6, <3>1, <3>3, <3>4
    <3>7. PartOf(x, k + 1, r, g)
      BY <3>1, <3>4, <3>5, <3>6 DEF PartOf
    <3>8. v[k + 1] = x
      BY <2>3, <2>6 DEF w, x
    <3>9. PartOf(v[k + 1], k + 1, r, g)
      BY <3>7, <3>8
    <3>10. k + 1 \in 0 .. n
      BY <1>1, <2>2
    <3> QED BY <3>9, <3>10
  <2> QED BY <2>5, <2>6
<1> HIDE DEF S
<1>5. n \in S
  <2>1. n \in Nat
    BY <1>1
  <2>2. 0 .. n \subseteq S
    BY <2>1, <1>3, <1>4, InductionUpTo
  <2> QED BY <2>1, <2>2
<1> QED BY <1>2, <1>5 DEF S, n

\* Two sums that differ in one term at most.
LEMMA SumsAgree ==
  ASSUME NEW n \in Nat, NEW f, NEW g,
         \A i \in 1 .. n : f[i] \in Field /\ g[i] \in Field,
         \A i, j \in 1 .. n : f[i] # g[i] /\ f[j] # g[j] => i = j
  PROVE  SumTo(f, n) = SumTo(g, n) <=> \A i \in 1 .. n : f[i] = g[i]
<1>1. ASSUME SumTo(f, n) = SumTo(g, n), NEW m \in 1 .. n, f[m] # g[m]
      PROVE  FALSE
  <2>1. \A i \in 1 .. n : i # m => f[i] = g[i]
    BY <1>1
  <2> QED BY <1>1, <2>1, SumsDiffer
<1>2. (\A i \in 1 .. n : f[i] = g[i]) => SumTo(f, n) = SumTo(g, n)
  BY SameSum
<1> QED BY <1>1, <1>2

\* How far e(D, [b]H) is off for a share.
Excess(k, b) ==
    Sub(Mul(shares[k].decryption_share, b[shares[k].decrypter_index]), origin[k].of)

LEMMA ArrivedValue ==
  ASSUME NEW poly \in Polys, NEW b \in Blindings, SetupFrom(poly, b), IInv,
         NEW k \in 1 .. Len(shares), shares[k].decrypter_index \in 1 .. SharesNum
  PROVE  LET i == shares[k].decrypter_index
         IN  /\ Mul(shares[k].decryption_share, b[i]) = Add(origin[k].of, Excess(k, b))
             /\ Excess(k, b) \in Field /\ (~origin[k].damaged => Excess(k, b) = 0)
             /\ origin[k].of \in Field
<1> DEFINE i == shares[k].decrypter_index
           d == shares[k].decryption_share
           r == origin[k].of
           m == Mul(d, b[i])
<1>1. i \in 1 .. SharesNum /\ d \in Field
  BY ReceivedFields DEF IInv
<1>2. r \in Randomness /\ origin[k].damaged \in BOOLEAN
  <2>1. origin[k] \in Origins
    BY DEF IInv
  <2> QED BY <2>1 DEF Origins
<1>3. CiphertextsFrom(setup.public_key) /\ Arrived(k)
  BY DEF IInv
<1>4. r \in Field /\ b[i] \in Field \ {0}
  BY <1>1, <1>2, <1>3, SentCiphertext, SetupFacts
<1>5. m \in Field /\ Sub(m, r) \in Field
  BY <1>1, <1>4, Closed
<1>6. ~origin[k].damaged => m = r
  <2> HAVE ~origin[k].damaged
  <2>1. Answer(i, r) = [decrypter_index |-> i, decryption_share |-> Mul(r, Inv(b[i]))]
    BY <1>1, <1>2, <1>3, AnswerIs DEF AnswerOf
  <2>2. d = Mul(r, Inv(b[i]))
    BY <1>3, <2>1 DEF Arrived
  <2> QED BY <1>1, <1>4, <2>2, VerifiedIsAnswer
<1>7. Excess(k, b) = Sub(m, r)
  BY DEF Excess
<1> HIDE DEF i, d, r, m
<1>8. Add(r, Sub(m, r)) = m /\ Sub(r, r) = 0
  <2>1. Sub(r, r) = 0 /\ Add(Sub(m, r), r) = m
    BY <1>4, <1>5, SubLaws
  <2> QED BY <1>4, <1>5, <2>1, AddCommutes
<1> QED BY <1>4, <1>5, <1>6, <1>7, <1>8 DEF i, d, r, m

\* The two sides of the batch equation at one decrypter agree if e and f are 0.
AgreesIfZero(r, s, e, f, alpha, beta, c, d, b) ==
    LET left == Add(Mul(r, alpha), Mul(s, beta))
        right == Mul(Add(Mul(c, alpha), Mul(d, beta)), b)
    IN  /\ left \in Field /\ right \in Field
        /\ left = right <=> e = 0 /\ f = 0

\* And only then, e and f being how far its two shares are off, of which one
\* at most is.
LEMMA BatchTerm ==
  ASSUME NEW r \in Field, NEW s \in Field, NEW e \in Field, NEW f \in Field,
         NEW alpha \in Field \ {0}, NEW beta \in Field \ {0},
         NEW c \in Field, NEW d \in Field, NEW b \in Field,
         Mul(c, b) = Add(r, e), Mul(d, b) = Add(s, f), e = 0 \/ f = 0
  PROVE  AgreesIfZero(r, s, e, f, alpha, beta, c, d, b)
<1> DEFINE left == Add(Mul(r, alpha), Mul(s, beta))
           right == Mul(Add(Mul(c, alpha), Mul(d, beta)), b)
           x == Add(Mul(e, alpha), Mul(f, beta))
<1>1. \A p, q, t \in Field : Mul(p, q) = t => Mul(Mul(p, alpha), q) = Mul(t, alpha)
                                              /\ Mul(Mul(p, beta), q) = Mul(t, beta)
  <2> TAKE p, q, t \in Field
  <2> HAVE Mul(p, q) = t
  <2>1. ASSUME NEW a \in Field PROVE Mul(Mul(p, a), q) = Mul(t, a)
    <3>1. Mul(Mul(p, a), q) = Mul(p, Mul(a, q)) /\ Mul(Mul(p, q), a) = Mul(p, Mul(q, a))
      BY MulAssociates
    <3>2. Mul(a, q) = Mul(q, a)
      BY AddCommutes
    <3> QED BY <3>1, <3>2
  <2> QED BY <2>1
<1>2. \A p, q, a \in Field : Mul(Add(p, q), a) = Add(Mul(p, a), Mul(q, a))
  <2> TAKE p, q, a \in Field
  <2>a. Add(p, q) \in Field
    BY Closed
  <2>1. Mul(a, Add(p, q)) = Add(Mul(a, p), Mul(a, q)) /\ Add(p, q) \in Field
    BY <2>a, Distributes
  <2>2. /\ Mul(a, Add(p, q)) = Mul(Add(p, q), a)
        /\ Mul(a, p) = Mul(p, a) /\ Mul(a, q) = Mul(q, a)
    BY <2>1, AddCommutes
  <2> QED BY <2>1, <2>2
<1>3. /\ Mul(r, alpha) \in Field /\ Mul(s, beta) \in Field
      /\ Mul(e, alpha) \in Field /\ Mul(f, beta) \in Field
      /\ Mul(c, alpha) \in Field /\ Mul(d, beta) \in Field
      /\ Add(r, e) \in Field /\ Add(s, f) \in Field /\ 0 \in Field
  BY Closed
<1>4. left \in Field /\ right \in Field /\ x \in Field
  BY <1>3, Closed
<1>5. right = Add(left, x)
  <2>1. right = Add(Mul(Mul(c, alpha), b), Mul(Mul(d, beta), b))
    BY <1>2, <1>3
  <2>2. Mul(Mul(c, alpha), b) = Mul(Add(r, e), alpha) /\ Mul(Mul(d, beta), b) = Mul(Add(s, f), beta)
    BY <1>1, <1>3
  <2>3. /\ Mul(Add(r, e), alpha) = Add(Mul(r, alpha), Mul(e, alpha))
        /\ Mul(Add(s, f), beta) = Add(Mul(s, beta), Mul(f, beta))
    BY <1>2
  <2>4. Add(Add(Mul(r, alpha), Mul(e, alpha)), Add(Mul(s, beta), Mul(f, beta))) = Add(left, x)
    BY <1>3, AddExchange
  <2> QED BY <2>1, <2>2, <2>3, <2>4
<1>6. x = 0 <=> e = 0 /\ f = 0
  <2>1. Mul(0, alpha) = 0 /\ Mul(0, beta) = 0
    BY MulLaws
  <2>2. (Mul(e, alpha) = 0 => e = 0) /\ (Mul(f, beta) = 0 => f = 0)
    BY NoZeroDivisors
  <2>3. \A p \in Field : Add(0, p) = p /\ Add(p, 0) = p
    BY AddLaws
  <2>4. e = 0 => x = Mul(f, beta)
    BY <1>3, <2>1, <2>3
  <2>5. f = 0 => x = Mul(e, alpha)
    BY <1>3, <2>1, <2>3
  <2> QED BY <2>1, <2>2, <2>4, <2>5
<1> HIDE DEF left, right, x
<1>7. left = right <=> x = 0
  <2>1. Add(left, 0) = left
    BY <1>4, AddLaws
  <2>2. Add(left, x) = Add(x, left) /\ Sub(Add(x, left), left) = x /\ Sub(left, left) = 0
    BY <1>4, AddCommutes, SubLaws
  <2> QED BY <1>5, <2>1, <2>2
<1> QED BY <1>4, <1>6, <1>7 DEF AgreesIfZero, left, right

\* The batch equation of n pairs of shares c[j] and d[j] under the keys b[j].
Balances(n, r, s, alpha, beta, c, d, b) ==
    Add(Mul(r, SumTo(alpha, n)), Mul(s, SumTo(beta, n)))
      = SumTo([j \in 1 .. n |->
                 Mul(Add(Mul(c[j], alpha[j]), Mul(d[j], beta[j])), b[j])], n)

NoneOff(n, e, f) == \A j \in 1 .. n : e[j] = 0 /\ f[j] = 0

LEMMA BatchSums ==
  ASSUME NEW n \in Nat, NEW r \in Field, NEW s \in Field,
         NEW alpha, NEW beta, NEW c, NEW d, NEW b, NEW e, NEW f,
         \A j \in 1 .. n : /\ alpha[j] \in Field \ {0} /\ beta[j] \in Field \ {0}
                           /\ c[j] \in Field /\ d[j] \in Field /\ b[j] \in Field
                           /\ e[j] \in Field /\ f[j] \in Field,
         \A j \in 1 .. n : /\ Mul(c[j], b[j]) = Add(r, e[j])
                           /\ Mul(d[j], b[j]) = Add(s, f[j])
                           /\ e[j] = 0 \/ f[j] = 0,
         \A i, j \in 1 .. n :
            (e[i] # 0 \/ f[i] # 0) /\ (e[j] # 0 \/ f[j] # 0) => i = j
  PROVE  Balances(n, r, s, alpha, beta, c, d, b) <=> NoneOff(n, e, f)
<1> DEFINE p == [j \in 1 .. n |-> Mul(r, alpha[j])]
           q == [j \in 1 .. n |-> Mul(s, beta[j])]
           left == [j \in 1 .. n |-> Add(p[j], q[j])]
           right == [j \in 1 .. n |->
                       Mul(Add(Mul(c[j], alpha[j]), Mul(d[j], beta[j])), b[j])]
<1>1. ASSUME NEW j \in 1 .. n
      PROVE  /\ alpha[j] \in Field /\ beta[j] \in Field
             /\ p[j] = Mul(r, alpha[j]) /\ q[j] = Mul(s, beta[j])
             /\ p[j] \in Field /\ q[j] \in Field
             /\ left[j] = Add(p[j], q[j])
             /\ left[j] \in Field /\ right[j] \in Field
             /\ left[j] = right[j] <=> e[j] = 0 /\ f[j] = 0
  <2>1. alpha[j] \in Field /\ beta[j] \in Field
    OBVIOUS
  <2>2. p[j] = Mul(r, alpha[j]) /\ q[j] = Mul(s, beta[j])
    OBVIOUS
  <2>3. p[j] \in Field /\ q[j] \in Field
    BY <2>1, <2>2, Closed
  <2>4. /\ left[j] = Add(p[j], q[j])
        /\ right[j] = Mul(Add(Mul(c[j], alpha[j]), Mul(d[j], beta[j])), b[j])
    OBVIOUS
  <2> DEFINE l == Add(Mul(r, alpha[j]), Mul(s, beta[j]))
             m == Mul(Add(Mul(c[j], alpha[j]), Mul(d[j], beta[j])), b[j])
  <2>5. l \in Field /\ m \in Field /\ (l = m <=> e[j] = 0 /\ f[j] = 0)
    <3> DEFINE al == alpha[j]
               be == beta[j]
               cj == c[j]
               dj == d[j]
               bj == b[j]
               ej == e[j]
               fj == f[j]
    <3>1. /\ al \in Field \ {0} /\ be \in Field \ {0}
          /\ cj \in Field /\ dj \in Field /\ bj \in Field
          /\ ej \in Field /\ fj \in Field
      OBVIOUS
    <3>2. /\ Mul(cj, bj) = Add(r, ej) /\ Mul(dj, bj) = Add(s, fj)
          /\ ej = 0 \/ fj = 0
      OBVIOUS
    <3>3. l = Add(Mul(r, al), Mul(s, be)) /\ m = Mul(Add(Mul(cj, al), Mul(dj, be)), bj)
      OBVIOUS
    <3> HIDE DEF al, be, cj, dj, bj, ej, fj, l, m
    <3>4. AgreesIfZero(r, s, ej, fj, al, be, cj, dj, bj)
      <4>1. r \in Field /\ s \in Field
        OBVIOUS
      <4> QED BY ONLY <4>1, <3>1, <3>2, BatchTerm
    <3> QED BY <3>3, <3>4 DEF AgreesIfZero, ej, fj
  <2>6. left[j] = l /\ right[j] = m
    BY <2>2, <2>4
  <2> HIDE DEF p, q, left, right, l, m
  <2> QED BY <2>1, <2>2, <2>3, <2>4, <2>5, <2>6
<1> HIDE DEF p, q, left, right
<1>2. SumTo(p, n) = Mul(r, SumTo(alpha, n)) /\ SumTo(q, n) = Mul(s, SumTo(beta, n))
  <2>1. /\ n \in Nat /\ r \in Field /\ s \in Field
        /\ \A j \in 1 .. n : alpha[j] \in Field /\ p[j] = Mul(r, alpha[j])
        /\ \A j \in 1 .. n : beta[j] \in Field /\ q[j] = Mul(s, beta[j])
    BY <1>1
  <2>2. SumTo(p, n) = Mul(r, SumTo(alpha, n))
    BY ONLY <2>1, SumScaled
  <2>3. SumTo(q, n) = Mul(s, SumTo(beta, n))
    BY ONLY <2>1, SumScaled
  <2> QED BY <2>2, <2>3
<1>3. SumTo(left, n) = Add(SumTo(p, n), SumTo(q, n))
  BY <1>1, SumOfSums
<1>4. \A i, j \in 1 .. n : left[i] # right[i] /\ left[j] # right[j] => i = j
  BY <1>1
<1>5. \A j \in 1 .. n : left[j] \in Field /\ right[j] \in Field
  BY <1>1
<1>6. SumTo(left, n) = SumTo(right, n) <=> \A j \in 1 .. n : left[j] = right[j]
  <2>1. n \in Nat
    OBVIOUS
  <2>2. SumTo(left, n) = SumTo(right, n) <=> \A i \in 1 .. n : left[i] = right[i]
    BY ONLY <2>1, <1>4, <1>5, SumsAgree
  <2> QED BY <2>2
<1>7. (\A j \in 1 .. n : left[j] = right[j]) <=> \A j \in 1 .. n : e[j] = 0 /\ f[j] = 0
  BY <1>1
<1> QED BY <1>2, <1>3, <1>6, <1>7 DEF Balances, NoneOff, right

LEMMA SumOfTwo ==
  ASSUME NEW f, f[1] \in Field, f[2] \in Field
  PROVE  SumTo(f, 2) = Add(f[1], f[2])
<1>1. SumTo(f, 0) = 0 /\ \A n \in Nat : SumTo(f, n + 1) = Add(SumTo(f, n), f[n + 1])
  BY SumUnfolds
<1>2. SumTo(f, 1) = Add(0, f[1]) /\ SumTo(f, 2) = Add(SumTo(f, 1), f[2])
  <2>1. 0 \in Nat /\ 0 + 1 = 1 /\ 1 \in Nat /\ 1 + 1 = 2
    OBVIOUS
  <2> QED BY <1>1, <2>1
<1> QED BY <1>2, AddLaws

\* batch_verify_decryption_shares on two vectors as one equation.
Equation(n, v, w, x, y, alpha, beta, contexts) ==
    Add(Mul(x.commitment, SumTo(alpha, n)), Mul(y.commitment, SumTo(beta, n)))
      = SumTo([j \in 1 .. n |->
                 Mul(Add(Mul(v[j].decryption_share, alpha[j]),
                         Mul(w[j].decryption_share, beta[j])),
                     contexts[v[j].decrypter_index].blinding_key)], n)

LEMMA BatchIs ==
  ASSUME NEW v, NEW w, NEW n \in Nat, Len(v) = n, Len(w) = n,
         NEW x, NEW y, x.commitment \in Field, y.commitment \in Field,
         NEW alpha, NEW beta, NEW contexts,
         \A j \in 1 .. n : alpha[j] \in Field /\ beta[j] \in Field,
         \A j \in 1 .. n : v[j].decryption_share \in Field
                           /\ w[j].decryption_share \in Field
  PROVE  BatchVerifyDecryptionShares(contexts, <<x, y>>, <<v, w>>, <<alpha, beta>>)
         <=> Equation(n, v, w, x, y, alpha, beta, contexts)
<1> DEFINE cs == <<x, y>>
           both == <<v, w>>
           scalars == <<alpha, beta>>
           u == [i \in 1 .. 2 |-> Mul(cs[i].commitment, SumTo(scalars[i], n))]
           ds(j) == [i \in 1 .. 2 |->
                       IF j <= Len(both[i])
                       THEN Mul(both[i][j].decryption_share, scalars[i][j])
                       ELSE 0]
           key(j) == contexts[v[j].decrypter_index].blinding_key
           right == [j \in 1 .. n |-> Pairing(SumTo(ds(j), 2), key(j))]
           term == [j \in 1 .. n |->
                      Mul(Add(Mul(v[j].decryption_share, alpha[j]),
                              Mul(w[j].decryption_share, beta[j])), key(j))]
<1>1. /\ Len(cs) = 2 /\ cs[1] = x /\ cs[2] = y
      /\ both[1] = v /\ both[2] = w /\ scalars[1] = alpha /\ scalars[2] = beta
  OBVIOUS
<1>2. BatchVerifyDecryptionShares(contexts, cs, both, scalars)
        <=> SumTo(u, 2) = SumTo(right, n)
  <2> HIDE DEF cs, both, scalars
  <2> QED BY <1>1 DEF BatchVerifyDecryptionShares
<1> HIDE DEF cs, both, scalars
<1>3. SumTo(alpha, n) \in Field /\ SumTo(beta, n) \in Field
  BY SumInField
<1>4. SumTo(u, 2) = Add(Mul(x.commitment, SumTo(alpha, n)), Mul(y.commitment, SumTo(beta, n)))
  <2>1. 1 \in 1 .. 2 /\ 2 \in 1 .. 2
    OBVIOUS
  <2>2. /\ u[1] = Mul(x.commitment, SumTo(alpha, n))
        /\ u[2] = Mul(y.commitment, SumTo(beta, n))
    BY <1>1, <2>1
  <2>3. u[1] \in Field /\ u[2] \in Field
    <3>1. x.commitment \in Field /\ y.commitment \in Field
      OBVIOUS
    <3> HIDE DEF u
    <3> QED BY ONLY <1>3, <2>2, <3>1, Closed
  <2> HIDE DEF u
  <2> QED BY <2>2, <2>3, SumOfTwo
<1>5. ASSUME NEW j \in 1 .. n PROVE right[j] = term[j]
  <2>1. 1 \in 1 .. 2 /\ 2 \in 1 .. 2 /\ j <= n
    OBVIOUS
  <2>2. /\ ds(j)[1] = Mul(v[j].decryption_share, alpha[j])
        /\ ds(j)[2] = Mul(w[j].decryption_share, beta[j])
    BY <1>1, <2>1
  <2>3. ds(j)[1] \in Field /\ ds(j)[2] \in Field
    <3> HIDE DEF ds
    <3>1. /\ v[j].decryption_share \in Field /\ w[j].decryption_share \in Field
          /\ alpha[j] \in Field /\ beta[j] \in Field
      OBVIOUS
    <3> QED BY ONLY <2>2, <3>1, Closed
  <2>4. right[j] = Mul(SumTo(ds(j), 2), key(j))
    BY DEF Pairing
  <2>5. term[j] = Mul(Add(Mul(v[j].decryption_share, alpha[j]),
                          Mul(w[j].decryption_share, beta[j])), key(j))
    OBVIOUS
  <2> HIDE DEF ds, right, term, key
  <2>6. SumTo(ds(j), 2) = Add(ds(j)[1], ds(j)[2])
    BY <2>3, SumOfTwo
  <2> QED BY <2>2, <2>4, <2>5, <2>6
<1>6. SumTo(right, n) = SumTo(term, n)
  <2> HIDE DEF right, term
  <2> QED BY <1>5, SameSum
<1> HIDE DEF u, right
<1> QED BY <1>2, <1>4, <1>6 DEF Equation, cs, both, scalars

\* A vector of the batch: how far its shares are off, which are what
\* verify_decryption_shares_fast refuses.
LEMMA VectorTerms ==
  ASSUME NEW poly \in Polys, NEW b \in Blindings, SetupFrom(poly, b), IInv,
         NEW r \in Randomness, NEW v, NEW h, PartOf(v, Len(shares), r, h),
         \A j \in 1 .. Len(v) : v[j].decrypter_index \in 1 .. SharesNum
  PROVE  /\ Len(v) \in Nat /\ r \in Field /\ ciphertexts[r].commitment = r
         /\ \A j \in 1 .. Len(v) :
               /\ v[j].decrypter_index \in 1 .. SharesNum
               /\ v[j].decryption_share \in Field
               /\ b[v[j].decrypter_index] \in Field
               /\ setup.public_contexts[v[j].decrypter_index].blinding_key
                     = b[v[j].decrypter_index]
               /\ Mul(v[j].decryption_share, b[v[j].decrypter_index])
                     = Add(r, Excess(h[j], b))
               /\ Excess(h[j], b) \in Field
               /\ ~origin[h[j]].damaged => Excess(h[j], b) = 0
         /\ VerifyDecryptionSharesFast(setup.public_contexts, ciphertexts[r], v)
              <=> \A j \in 1 .. Len(v) : Excess(h[j], b) = 0
<1>1. /\ v \in Seq(ReceivedShares) /\ h \in [1 .. Len(v) -> 1 .. Len(shares)]
      /\ \A j \in 1 .. Len(v) : v[j] = shares[h[j]] /\ origin[h[j]].of = r
  BY DEF PartOf
<1>2. Len(v) \in Nat
  BY <1>1
<1>3. r \in Field /\ ciphertexts[r].commitment = r
  <2>1. CiphertextsFrom(setup.public_key)
    BY DEF IInv
  <2>2. ciphertexts[r].commitment = r /\ r \in Field \ {0}
    BY <2>1, SentCiphertext
  <2> QED BY <2>2
<1>4. ASSUME NEW j \in 1 .. Len(v)
      PROVE  /\ v[j].decrypter_index \in 1 .. SharesNum
             /\ v[j].decryption_share \in Field
             /\ b[v[j].decrypter_index] \in Field
             /\ setup.public_contexts[v[j].decrypter_index].blinding_key
                   = b[v[j].decrypter_index]
             /\ Mul(v[j].decryption_share, b[v[j].decrypter_index])
                   = Add(r, Excess(h[j], b))
             /\ Excess(h[j], b) \in Field
             /\ ~origin[h[j]].damaged => Excess(h[j], b) = 0
  <2> DEFINE k == h[j]
             i == shares[k].decrypter_index
  <2>1. k \in 1 .. Len(shares) /\ v[j] = shares[k] /\ origin[k].of = r
    BY <1>1
  <2> HIDE DEF k
  <2>2. i \in 1 .. SharesNum /\ shares[k].decryption_share \in Field
    <3>1. v[j].decrypter_index \in 1 .. SharesNum
      OBVIOUS
    <3> QED BY <2>1, <3>1, ReceivedFields DEF IInv
  <2>3. b[i] \in Field /\ setup.public_contexts[i].blinding_key = b[i]
    <3> HIDE DEF i
    <3>1. b[i] \in Field \ {0} /\ setup.public_contexts[i].blinding_key = b[i]
      BY <2>2, SetupFacts
    <3> QED BY <3>1
  <2>4. /\ Mul(shares[k].decryption_share, b[i]) = Add(origin[k].of, Excess(k, b))
        /\ Excess(k, b) \in Field /\ (~origin[k].damaged => Excess(k, b) = 0)
    BY <2>1, <2>2, ArrivedValue
  <2> QED BY <2>1, <2>2, <2>3, <2>4 DEF k
<1>5. ASSUME NEW e \in Field PROVE Add(r, e) = r <=> e = 0
  <2>1. Add(r, e) = Add(e, r) /\ Sub(Add(e, r), r) = e /\ Sub(r, r) = 0 /\ Add(r, 0) = r
    BY <1>3, AddCommutes, SubLaws, AddLaws
  <2> QED BY <2>1
<1>6. \A j \in 1 .. Len(v) :
         Pairing(v[j].decryption_share,
                 setup.public_contexts[v[j].decrypter_index].blinding_key)
             = ciphertexts[r].commitment
         <=> Excess(h[j], b) = 0
  BY <1>3, <1>4, <1>5 DEF Pairing
<1>7. VerifyDecryptionSharesFast(setup.public_contexts, ciphertexts[r], v)
        <=> \A j \in 1 .. Len(v) : Excess(h[j], b) = 0
  BY <1>6 DEF VerifyDecryptionSharesFast
<1> QED BY <1>2, <1>3, <1>4, <1>7

\* Shares of vectors for different ciphertexts are different shares.
LEMMA InvImpliesBatch == IInv => BatchVerifyIsConjunction
<1> SUFFICES ASSUME IInv, NEW r \in Randomness, NEW s \in Randomness, r # s,
                    Decrypters(Vector(r)) = Decrypters(Vector(s)),
                    KnownIndices(setup.public_contexts, Vector(r)),
                    NEW alpha \in [1 .. Len(Vector(r)) -> Alphas],
                    NEW beta \in [1 .. Len(Vector(r)) -> Alphas]
             PROVE  BatchVerifyDecryptionShares(setup.public_contexts,
                          <<ciphertexts[r], ciphertexts[s]>>,
                          <<Vector(r), Vector(s)>>, <<alpha, beta>>)
                    <=> /\ VerifyDecryptionSharesFast(setup.public_contexts,
                                                      ciphertexts[r], Vector(r))
                        /\ VerifyDecryptionSharesFast(setup.public_contexts,
                                                      ciphertexts[s], Vector(s))
  BY DEF BatchVerifyIsConjunction
<1>1. PICK poly \in Polys, b \in Blindings : SetupFrom(poly, b)
  BY DEF IInv
<1>2. shares \in Seq(ReceivedShares)
  BY DEF IInv
<1> DEFINE v == Vector(r)
           w == Vector(s)
           n == Len(v)
<1>3. PICK h : PartOf(v, Len(shares), r, h)
  BY <1>2, VectorIs
<1>4. PICK g : PartOf(w, Len(shares), s, g)
  BY <1>2, VectorIs
<1>5. Len(w) = n /\ \A j \in 1 .. n : v[j].decrypter_index = w[j].decrypter_index
  <2>1. /\ v \in Seq(ReceivedShares) /\ w \in Seq(ReceivedShares)
        /\ Decrypters(v) = [j \in 1 .. Len(v) |-> v[j].decrypter_index]
        /\ Decrypters(w) = [j \in 1 .. Len(w) |-> w[j].decrypter_index]
    BY <1>3, <1>4 DEF PartOf, Decrypters
  <2>2. Decrypters(v) = Decrypters(w)
    OBVIOUS
  <2> HIDE DEF v, w
  <2>3. DOMAIN Decrypters(v) = 1 .. Len(v) /\ DOMAIN Decrypters(w) = 1 .. Len(w)
    BY <2>1
  <2>4. Len(v) \in Nat /\ Len(w) \in Nat /\ 1 .. Len(v) = 1 .. Len(w)
    BY <2>1, <2>2, <2>3
  <2>5. Len(v) = Len(w)
    BY <2>4
  <2>6. \A j \in 1 .. n : /\ Decrypters(v)[j] = v[j].decrypter_index
                          /\ Decrypters(w)[j] = w[j].decrypter_index
    BY <2>1, <2>5
  <2> QED BY <2>2, <2>5, <2>6
<1>a. \A j \in 1 .. n : v[j].decrypter_index \in 1 .. SharesNum
  BY <1>1, KnownIs
<1> HIDE DEF v, w, n
<1>b. \A j \in 1 .. Len(w) : w[j].decrypter_index \in 1 .. SharesNum
  BY <1>5, <1>a
<1>6. /\ n \in Nat /\ r \in Field /\ ciphertexts[r].commitment = r
      /\ \A j \in 1 .. n :
            /\ v[j].decryption_share \in Field
            /\ b[v[j].decrypter_index] \in Field
            /\ setup.public_contexts[v[j].decrypter_index].blinding_key
                  = b[v[j].decrypter_index]
            /\ Mul(v[j].decryption_share, b[v[j].decrypter_index])
                  = Add(r, Excess(h[j], b))
            /\ Excess(h[j], b) \in Field
            /\ ~origin[h[j]].damaged => Excess(h[j], b) = 0
      /\ VerifyDecryptionSharesFast(setup.public_contexts, ciphertexts[r], v)
            <=> \A j \in 1 .. n : Excess(h[j], b) = 0
  BY <1>1, <1>3, <1>a, VectorTerms DEF n
<1>7. /\ s \in Field /\ ciphertexts[s].commitment = s
      /\ \A j \in 1 .. n :
            /\ w[j].decryption_share \in Field
            /\ Mul(w[j].decryption_share, b[w[j].decrypter_index])
                  = Add(s, Excess(g[j], b))
            /\ Excess(g[j], b) \in Field
            /\ ~origin[g[j]].damaged => Excess(g[j], b) = 0
      /\ VerifyDecryptionSharesFast(setup.public_contexts, ciphertexts[s], w)
            <=> \A j \in 1 .. n : Excess(g[j], b) = 0
  BY <1>1, <1>4, <1>5, <1>b, VectorTerms
<1> DEFINE c == [j \in 1 .. n |-> v[j].decryption_share]
           d == [j \in 1 .. n |-> w[j].decryption_share]
           k == [j \in 1 .. n |-> b[v[j].decrypter_index]]
           e == [j \in 1 .. n |-> Excess(h[j], b)]
           f == [j \in 1 .. n |-> Excess(g[j], b)]
           m == Len(shares)
<1>8. /\ h \in [1 .. n -> 1 .. m] /\ g \in [1 .. n -> 1 .. m]
      /\ \A i, j \in 1 .. n : (h[i] = h[j] => i = j) /\ (g[i] = g[j] => i = j)
      /\ \A j \in 1 .. n : origin[h[j]].of = r /\ origin[g[j]].of = s
  BY <1>3, <1>4, <1>5 DEF PartOf, n
<1>9. \A i, j \in 1 .. m : origin[i].damaged /\ origin[j].damaged => i = j
  BY DEF IInv, AtMostOneDamaged
<1>10. \A j \in 1 .. n : /\ c[j] = v[j].decryption_share /\ d[j] = w[j].decryption_share
                         /\ k[j] = b[v[j].decrypter_index]
                         /\ e[j] = Excess(h[j], b) /\ f[j] = Excess(g[j], b)
  OBVIOUS
<1> HIDE DEF c, d, k, e, f, m
<1>11. \A j \in 1 .. n : h[j] \in 1 .. m /\ g[j] \in 1 .. m
  BY <1>8
<1>12. \A j \in 1 .. n : /\ e[j] # 0 => origin[h[j]].damaged
                         /\ f[j] # 0 => origin[g[j]].damaged
  BY <1>6, <1>7, <1>10
<1>13. \A i, j \in 1 .. n :
          /\ e[i] # 0 /\ e[j] # 0 => i = j
          /\ f[i] # 0 /\ f[j] # 0 => i = j
          /\ ~(e[i] # 0 /\ f[j] # 0)
  <2> TAKE i, j \in 1 .. n
  <2>1. e[i] # 0 /\ e[j] # 0 => h[i] = h[j]
    BY <1>9, <1>11, <1>12
  <2>2. f[i] # 0 /\ f[j] # 0 => g[i] = g[j]
    BY <1>9, <1>11, <1>12
  <2>3. e[i] # 0 /\ f[j] # 0 => h[i] = g[j]
    BY <1>9, <1>11, <1>12
  <2>4. h[i] # g[j]
    BY <1>8
  <2> QED BY <1>8, <2>1, <2>2, <2>3, <2>4
<1>14. \A j \in 1 .. n : alpha[j] \in Field \ {0} /\ beta[j] \in Field \ {0}
  BY BuilderAssumption DEF n, v
<1>15. \A j \in 1 .. n : /\ c[j] \in Field /\ d[j] \in Field /\ k[j] \in Field
                         /\ e[j] \in Field /\ f[j] \in Field
  BY <1>6, <1>7, <1>10
<1>16. \A j \in 1 .. n : Mul(c[j], k[j]) = Add(r, e[j]) /\ Mul(d[j], k[j]) = Add(s, f[j])
  <2> TAKE j \in 1 .. n
  <2>1. Mul(c[j], k[j]) = Add(r, e[j])
    BY <1>6, <1>10
  <2>2. v[j].decrypter_index = w[j].decrypter_index
    BY <1>5
  <2>3. Mul(d[j], k[j]) = Add(s, f[j])
    BY <1>7, <1>10, <2>2
  <2> QED BY <2>1, <2>3
<1>17. Balances(n, r, s, alpha, beta, c, d, k) <=> NoneOff(n, e, f)
  <2>1. n \in Nat /\ r \in Field /\ s \in Field
    BY <1>6, <1>7
  <2>2. \A j \in 1 .. n : /\ alpha[j] \in Field \ {0} /\ beta[j] \in Field \ {0}
                          /\ c[j] \in Field /\ d[j] \in Field /\ k[j] \in Field
                          /\ e[j] \in Field /\ f[j] \in Field
    BY <1>14, <1>15
  <2>3. \A j \in 1 .. n : /\ Mul(c[j], k[j]) = Add(r, e[j])
                          /\ Mul(d[j], k[j]) = Add(s, f[j])
                          /\ e[j] = 0 \/ f[j] = 0
    BY <1>13, <1>16
  <2>4. \A i, j \in 1 .. n :
           (e[i] # 0 \/ f[i] # 0) /\ (e[j] # 0 \/ f[j] # 0) => i = j
    BY <1>13
  <2> QED BY ONLY <2>1, <2>2, <2>3, <2>4, BatchSums
<1>18. BatchVerifyDecryptionShares(setup.public_contexts,
             <<ciphertexts[r], ciphertexts[s]>>, <<v, w>>, <<alpha, beta>>)
         <=> Equation(n, v, w, ciphertexts[r], ciphertexts[s], alpha, beta,
                      setup.public_contexts)
  <2> DEFINE x == ciphertexts[r]
             y == ciphertexts[s]
             contexts == setup.public_contexts
  <2>1. /\ n \in Nat /\ Len(v) = n /\ Len(w) = n
        /\ x.commitment = r /\ y.commitment = s
        /\ x.commitment \in Field /\ y.commitment \in Field
    BY <1>5, <1>6, <1>7 DEF n
  <2>2. \A j \in 1 .. n : alpha[j] \in Field /\ beta[j] \in Field
    BY <1>14
  <2>3. \A j \in 1 .. n : v[j].decryption_share \in Field
                          /\ w[j].decryption_share \in Field
    BY <1>6, <1>7
  <2> HIDE DEF x, y, contexts
  <2>4. BatchVerifyDecryptionShares(contexts, <<x, y>>, <<v, w>>, <<alpha, beta>>)
         <=> Equation(n, v, w, x, y, alpha, beta, contexts)
    BY ONLY <2>1, <2>2, <2>3, BatchIs
  <2> QED BY <2>1, <2>4 DEF x, y, contexts
<1>19. Equation(n, v, w, ciphertexts[r], ciphertexts[s], alpha, beta,
                setup.public_contexts)
         <=> Balances(n, r, s, alpha, beta, c, d, k)
  <2> DEFINE left == [j \in 1 .. n |->
                        Mul(Add(Mul(c[j], alpha[j]), Mul(d[j], beta[j])), k[j])]
             right == [j \in 1 .. n |->
                   Mul(Add(Mul(v[j].decryption_share, alpha[j]),
                           Mul(w[j].decryption_share, beta[j])),
                       setup.public_contexts[v[j].decrypter_index].blinding_key)]
  <2>1. \A j \in 1 .. n : left[j] = right[j]
    BY <1>6, <1>10
  <2>2. SumTo(left, n) = SumTo(right, n)
    <3> HIDE DEF left, right
    <3> QED BY <1>6, <2>1, SameSum
  <2> QED BY <1>6, <1>7, <2>2 DEF Equation, Balances
<1>20. NoneOff(n, e, f)
         <=> /\ VerifyDecryptionSharesFast(setup.public_contexts, ciphertexts[r], v)
             /\ VerifyDecryptionSharesFast(setup.public_contexts, ciphertexts[s], w)
  BY <1>6, <1>7, <1>10 DEF NoneOff
<1> QED BY <1>17, <1>18, <1>19, <1>20 DEF v, w

-----------------------------------------------------------------------------
(***************************************************************************)
(* The theorems.                                                           *)
(***************************************************************************)

\* The shares received are of the participants' contexts, each with where it is
\* from, and build ends in one of its outcomes, for every number of
\* participants, threshold and polynomial.
THEOREM TypeCorrect == Spec => []TypeOK
BY Inductive, InvImpliesTypeOK, PTL

\* Whatever answers are received in whatever order: enough of them that pass
\* verify_decryption_shares_fast for a ciphertext combine to its secret, or to
\* its inverse when their number is odd.
THEOREM VerifiedSharesGiveSecret == Spec => []VerifiedSharesCombine
BY Inductive, InvImpliesCombine, PTL

\* With an even number of participants build decrypts the message from one
\* answer of each, and ends in a panic of its own kind on a damaged answer, one
\* made for another ciphertext, a participant's second and one whose index no
\* context has.
THEOREM BuildGivesMessage ==
  ASSUME SharesNum % 2 = 0
  PROVE  Spec => []BuildDecrypts
<1>1. IInv => BuildDecrypts
  BY InvImpliesBuild
<1> QED BY <1>1, Inductive, PTL

\* Up to four shares of different, known participants can be prepared in any
\* order, whatever their number: the panic on the shares' order takes five.
THEOREM FewSharesAlwaysPrepare == Spec => []FewSharesPrepare
BY Inductive, InvImpliesFewPrepare, PTL

\* One equation for two ciphertexts accepts what the check of each share
\* accepts, when one share may be damaged.
THEOREM BatchVerification == Spec => []BatchVerifyIsConjunction
BY Inductive, InvImpliesBatch, PTL
=============================================================================
