----------------------------- MODULE PvssProofs -----------------------------
(***************************************************************************)
(* The arithmetic of aggregated transcripts, for every prime, threshold,   *)
(* number of validators and of dealers, and any session keys.              *)
(*                                                                         *)
(* The aggregate is a transcript of the sum of the dealers' polynomials    *)
(* (EvaluatePolySum), so the shares it holds are values of that polynomial *)
(* once the transcripts are consistent; the rest is interpolation.  That a *)
(* wrong share shows in the aggregate rests on the inductive invariant: at *)
(* most one dealer is inconsistent, so nothing cancels its error.          *)
(***************************************************************************)
EXTENDS Pvss, InterpolationProofs

OneInconsistent ==
    \A d, e \in DOMAIN vss : ~VerifyFull(vss[d]) /\ ~VerifyFull(vss[e]) => d = e

IInv ==
    /\ TypeOK
    /\ \A d \in DOMAIN vss : vss[d].sigma = vss[d].coeffs[1]
    /\ OneInconsistent

-----------------------------------------------------------------------------
(***************************************************************************)
(* Constants and keys.                                                     *)
(***************************************************************************)

LEMMA Sizes ==
  /\ Threshold \in Nat \ {0} /\ NumValidators \in Nat
  /\ Threshold - 1 \in Nat /\ (Threshold - 1) + 1 = Threshold
  /\ 1 \in 1 .. Threshold /\ 0 \in Field /\ 1 \in Field
<1>1. Threshold \in Nat \ {0} /\ NumValidators \in Nat
  BY SetupAssumption, PvssAssumption
<1> QED BY <1>1, Closed

LEMMA ValidatorPoints ==
  /\ NumPoints \in Nat
  /\ \A i \in 1 .. NumValidators : i \in 1 .. NumPoints /\ DomainPoint(i) \in Field
  /\ \A i, j \in 1 .. NumValidators : DomainPoint(i) = DomainPoint(j) => i = j
<1>1. NumPoints \in Nat /\ NumPoints >= NumValidators
  <2>1. NumPoints \in Nat
    BY DomainPointsDiffer
  <2>2. DomainPoints = [i \in 1 .. NumPoints |-> Element(SharesNum, i - 1)]
    BY DEF DomainPoints, NumPoints
  <2>3. Len(DomainPoints) = NumPoints
    BY <2>1, <2>2
  <2> QED BY <2>1, <2>3, PvssAssumption
<1>2. \A i \in 1 .. NumValidators : i \in 1 .. NumPoints
  BY <1>1, Sizes
<1> QED BY <1>1, <1>2, DomainPointsDiffer

LEMMA KeyFacts ==
  ASSUME TypeOK, NEW i \in 1 .. NumValidators
  PROVE  /\ dk[i] \in Field \ {0} /\ EncryptionKey(i) = dk[i]
         /\ Inv(dk[i]) \in Field /\ Mul(dk[i], Inv(dk[i])) = 1
<1>1. dk[i] \in Field \ {0}
  BY PrimeAssumption DEF TypeOK, Field
<1> QED BY <1>1, InverseLaws DEF EncryptionKey

-----------------------------------------------------------------------------
(***************************************************************************)
(* The aggregate is a transcript of the sum of the polynomials.            *)
(***************************************************************************)

\* The polynomial of d, zero for who has not dealt.
Coeffs == [d \in 1 .. NumValidators |->
              IF d \in DOMAIN vss THEN vss[d].coeffs ELSE ZeroPoly(Threshold)]

Total == PolySum(Coeffs, Threshold, NumValidators)

\* What the dealers' values at x and shares of i add to the sums.
ValuesAt(x) == [d \in 1 .. NumValidators |->
                   IF d \in DOMAIN vss THEN Evaluate(vss[d].coeffs, x) ELSE 0]
SharesAt(i) == [d \in 1 .. NumValidators |->
                   IF d \in DOMAIN vss THEN vss[d].shares[i] ELSE 0]

LEMMA CoeffsArePolynomials ==
  ASSUME TypeOK
  PROVE  \A d \in 1 .. NumValidators : Coeffs[d] \in Polynomials(Threshold)
BY Sizes, ZeroPolynomial DEF TypeOK, Coeffs

LEMMA TotalIsPolynomial ==
  ASSUME TypeOK
  PROVE  Total \in Polynomials(Threshold) /\ Total[1] \in Field
<1>1. Total \in Polynomials(Threshold)
  BY Sizes, CoeffsArePolynomials, EvaluatePolySum DEF Total
<1> QED BY <1>1, Sizes, PolynomialLength

LEMMA AggregateCoeffs ==
  ASSUME TypeOK
  PROVE  Aggregate.coeffs = Total
<1> DEFINE f == [d \in DOMAIN vss |-> vss[d].coeffs]
           a(i) == [d \in 1 .. NumValidators |-> IF d \in DOMAIN vss THEN f[d][i] ELSE 0]
           b(i) == [d \in 1 .. NumValidators |-> Coeffs[d][i]]
<1>1. ASSUME NEW i \in 1 .. Threshold
      PROVE  SumTo(a(i), NumValidators) = SumTo(b(i), NumValidators)
  <2>1. \A d \in 1 .. NumValidators : a(i)[d] = b(i)[d]
    BY DEF Coeffs, ZeroPoly
  <2> HIDE DEF a, b
  <2> QED BY <2>1, Sizes, SameSum
<1>2. Aggregate.coeffs = [i \in 1 .. Threshold |-> SumTo(a(i), NumValidators)]
  BY DEF Aggregate, AggregateOf, SumOver
<1>3. Total = [i \in 1 .. Threshold |-> SumTo(b(i), NumValidators)]
  BY DEF Total, PolySum
<1> HIDE DEF a, b
<1> QED BY <1>1, <1>2, <1>3

LEMMA AggregateValues ==
  ASSUME TypeOK, NEW x \in Field
  PROVE  Evaluate(Total, x) = SumTo(ValuesAt(x), NumValidators)
         /\ \A d \in 1 .. NumValidators : ValuesAt(x)[d] \in Field
<1> DEFINE f == [d \in 1 .. NumValidators |-> Evaluate(Coeffs[d], x)]
<1>1. Evaluate(Total, x) = SumTo(f, NumValidators)
  BY Sizes, CoeffsArePolynomials, EvaluatePolySum DEF Total
<1>2. ASSUME NEW d \in 1 .. NumValidators
      PROVE  f[d] = ValuesAt(x)[d] /\ ValuesAt(x)[d] \in Field
  <2>1. f[d] \in Field
    BY Sizes, CoeffsArePolynomials, EvaluateInField
  <2>2. f[d] = ValuesAt(x)[d]
    BY Sizes, ZeroPolynomial DEF ValuesAt, Coeffs
  <2> QED BY <2>1, <2>2
<1> HIDE DEF f
<1>3. SumTo(f, NumValidators) = SumTo(ValuesAt(x), NumValidators)
  BY <1>2, Sizes, SameSum
<1> QED BY <1>1, <1>2, <1>3

LEMMA AggregateShares ==
  ASSUME TypeOK, NEW i \in 1 .. NumValidators
  PROVE  /\ Aggregate.shares[i] = SumTo(SharesAt(i), NumValidators)
         /\ \A d \in 1 .. NumValidators : SharesAt(i)[d] \in Field
         /\ Aggregate.shares[i] \in Field
<1> DEFINE f == [d \in DOMAIN vss |-> vss[d].shares]
           a == [d \in 1 .. NumValidators |-> IF d \in DOMAIN vss THEN f[d][i] ELSE 0]
<1>1. a = SharesAt(i)
  BY DEF SharesAt
<1>2. Aggregate.shares[i] = SumTo(a, NumValidators)
  BY DEF Aggregate, AggregateOf, SumOver
<1>3. \A d \in 1 .. NumValidators : SharesAt(i)[d] \in Field
  BY Closed DEF TypeOK, SharesAt
<1>4. SumTo(SharesAt(i), NumValidators) \in Field
  BY <1>3, Sizes, SumInField
<1> QED BY <1>1, <1>2, <1>3, <1>4

\* The first coefficients add up to the final key, and so do the sigmas.
LEMMA FinalKeyFacts ==
  ASSUME IInv
  PROVE  Total[1] = FinalKey /\ Aggregate.sigma = FinalKey
<1> DEFINE k == [d \in 1 .. NumValidators |->
                    IF d \in DOMAIN vss THEN vss[d].coeffs[1] ELSE 0]
           f == [d \in DOMAIN vss |-> <<vss[d].sigma>>]
           s == [d \in 1 .. NumValidators |-> IF d \in DOMAIN vss THEN f[d][1] ELSE 0]
           c == [d \in 1 .. NumValidators |-> Coeffs[d][1]]
<1>1. FinalKey = SumTo(k, NumValidators)
  BY DEF FinalKey
<1>2. Total[1] = SumTo(c, NumValidators)
  BY Sizes DEF Total, PolySum
<1>3. Aggregate.sigma = SumTo(s, NumValidators)
  <2>1. Aggregate.sigma = SumOver(DOMAIN vss, f, 1)[1]
    BY DEF Aggregate, AggregateOf
  <2> HIDE DEF f
  <2>2. SumOver(DOMAIN vss, f, 1)[1] = SumTo(s, NumValidators)
    <3>1. 1 \in 1 .. 1
      OBVIOUS
    <3> QED BY <3>1, Zenon DEF SumOver
  <2> QED BY <2>1, <2>2
<1>4. \A d \in 1 .. NumValidators : c[d] = k[d]
  BY Sizes DEF Coeffs, ZeroPoly
<1>5. \A d \in 1 .. NumValidators : s[d] = k[d]
  BY DEF IInv
<1> HIDE DEF k, s, c
<1>6. SumTo(c, NumValidators) = SumTo(k, NumValidators)
  BY <1>4, Sizes, SameSum
<1>7. SumTo(s, NumValidators) = SumTo(k, NumValidators)
  BY <1>5, Sizes, SameSum
<1> QED BY <1>1, <1>2, <1>3, <1>6, <1>7

LEMMA AggregateIsOfKey == IInv => AggregateIsOfFinalKey
<1> SUFFICES ASSUME IInv
             PROVE  Aggregate.coeffs[1] = FinalKey /\ VerifyOptimistic(Aggregate)
  BY DEF AggregateIsOfFinalKey
<1>1. TypeOK
  BY DEF IInv
<1>2. Aggregate.coeffs[1] = FinalKey /\ Aggregate.sigma = FinalKey /\ FinalKey \in Field
  BY <1>1, AggregateCoeffs, TotalIsPolynomial, FinalKeyFacts
<1> QED BY <1>2, MulLaws DEF VerifyOptimistic, Pairing

-----------------------------------------------------------------------------
(***************************************************************************)
(* verify_full of the aggregate.                                           *)
(***************************************************************************)

\* The check of one transcript, share by share.
LEMMA FullCheck ==
  ASSUME TypeOK, NEW t, \A i \in 1 .. NumValidators : t.shares[i] \in Field
  PROVE  VerifyFull(t) <=> \A i \in 1 .. NumValidators :
             t.shares[i] = Mul(Evaluate(t.coeffs, DomainPoint(i)), dk[i])
BY MulLaws DEF VerifyFull, Pairing, EncryptionKey

\* The check of the aggregate compares these sums.
LEMMA AggregateCheck ==
  ASSUME TypeOK, NEW i \in 1 .. NumValidators
  PROVE  LET g == [d \in 1 .. NumValidators |-> Mul(dk[i], ValuesAt(DomainPoint(i))[d])]
         IN  /\ \A d \in 1 .. NumValidators : g[d] \in Field
             /\ Mul(Evaluate(Total, DomainPoint(i)), dk[i]) = SumTo(g, NumValidators)
<1> DEFINE x == DomainPoint(i)
           f == ValuesAt(x)
           g == [d \in 1 .. NumValidators |-> Mul(dk[i], f[d])]
<1>1. x \in Field /\ dk[i] \in Field
  BY ValidatorPoints, KeyFacts
<1>2. Evaluate(Total, x) = SumTo(f, NumValidators)
      /\ \A d \in 1 .. NumValidators : f[d] \in Field
  BY <1>1, AggregateValues
<1>3. \A d \in 1 .. NumValidators : g[d] \in Field /\ g[d] = Mul(dk[i], f[d])
  BY <1>1, <1>2, Closed
<1> HIDE DEF f, g
<1>4. SumTo(g, NumValidators) = Mul(dk[i], SumTo(f, NumValidators))
      /\ SumTo(f, NumValidators) \in Field
  <2>1. NumValidators \in Nat
    BY Sizes
  <2>2. SumTo(f, NumValidators) \in Field
    BY <1>2, <2>1, SumInField
  <2>3. \A d \in 1 .. NumValidators : f[d] \in Field /\ g[d] = Mul(dk[i], f[d])
    BY <1>2, <1>3
  <2>4. SumTo(g, NumValidators) = Mul(dk[i], SumTo(f, NumValidators))
    BY <1>1, <2>1, <2>3, SumScaled
  <2> QED BY <2>2, <2>4
<1>5. Mul(dk[i], SumTo(f, NumValidators)) = Mul(SumTo(f, NumValidators), dk[i])
  BY <1>1, <1>4, MulLaws
<1> QED BY <1>2, <1>3, <1>4, <1>5 DEF g, f

\* Dealer d's term of both sums.
LEMMA DealerTerms ==
  ASSUME TypeOK, NEW i \in 1 .. NumValidators, NEW d \in 1 .. NumValidators
  PROVE  SharesAt(i)[d] = Mul(dk[i], ValuesAt(DomainPoint(i))[d])
           <=> (d \in DOMAIN vss =>
                  vss[d].shares[i] = Mul(Evaluate(vss[d].coeffs, DomainPoint(i)), dk[i]))
<1>1. dk[i] \in Field /\ DomainPoint(i) \in Field
  BY ValidatorPoints, KeyFacts
<1>2. CASE d \in DOMAIN vss
  <2> DEFINE z == Evaluate(vss[d].coeffs, DomainPoint(i))
  <2>1. z \in Field
    BY <1>1, <1>2, Sizes, EvaluateInField DEF TypeOK
  <2>2. SharesAt(i)[d] = vss[d].shares[i] /\ ValuesAt(DomainPoint(i))[d] = z
    BY <1>2 DEF SharesAt, ValuesAt
  <2> HIDE DEF z
  <2>3. Mul(dk[i], z) = Mul(z, dk[i])
    BY <1>1, <2>1, MulLaws
  <2> QED BY <1>2, <2>2, <2>3 DEF z
<1>3. CASE d \notin DOMAIN vss
  BY <1>1, <1>3, MulLaws DEF SharesAt, ValuesAt
<1> QED BY <1>2, <1>3

LEMMA FullCheckAggregates == IInv => FullCheckOfAggregate
<1> SUFFICES ASSUME IInv PROVE VerifyFull(Aggregate) <=> Consistent
  BY DEF FullCheckOfAggregate
<1> DEFINE g(i) == [d \in 1 .. NumValidators |-> Mul(dk[i], ValuesAt(DomainPoint(i))[d])]
           matches(d, i) == vss[d].shares[i]
                              = Mul(Evaluate(vss[d].coeffs, DomainPoint(i)), dk[i])
<1>1. TypeOK /\ OneInconsistent
  BY DEF IInv
<1>2. ASSUME NEW i \in 1 .. NumValidators
      PROVE  /\ Aggregate.shares[i] = SumTo(SharesAt(i), NumValidators)
             /\ Mul(Evaluate(Aggregate.coeffs, DomainPoint(i)), dk[i])
                  = SumTo(g(i), NumValidators)
             /\ \A d \in 1 .. NumValidators :
                   SharesAt(i)[d] \in Field /\ g(i)[d] \in Field
             /\ \A d \in 1 .. NumValidators :
                   SharesAt(i)[d] = g(i)[d] <=> (d \in DOMAIN vss => matches(d, i))
  BY <1>1, AggregateCoeffs, AggregateShares, AggregateCheck, DealerTerms
<1>3. VerifyFull(Aggregate) <=>
          \A i \in 1 .. NumValidators :
              SumTo(SharesAt(i), NumValidators) = SumTo(g(i), NumValidators)
  <2> HIDE DEF g, matches
  <2>1. \A i \in 1 .. NumValidators : Aggregate.shares[i] \in Field
    BY <1>1, AggregateShares
  <2>2. VerifyFull(Aggregate) <=> \A i \in 1 .. NumValidators :
            Aggregate.shares[i] = Mul(Evaluate(Aggregate.coeffs, DomainPoint(i)), dk[i])
    BY <1>1, <2>1, FullCheck
  <2> QED BY <1>2, <2>2
<1>4. \A d \in DOMAIN vss :
          d \in 1 .. NumValidators
          /\ (VerifyFull(vss[d]) <=> \A i \in 1 .. NumValidators : matches(d, i))
  BY <1>1, FullCheck DEF TypeOK
<1> HIDE DEF g, matches
<1>5. ASSUME Consistent PROVE VerifyFull(Aggregate)
  <2>1. ASSUME NEW i \in 1 .. NumValidators
        PROVE  SumTo(SharesAt(i), NumValidators) = SumTo(g(i), NumValidators)
    <3>1. \A d \in 1 .. NumValidators : SharesAt(i)[d] = g(i)[d]
      BY <1>2, <1>4, <1>5 DEF Consistent
    <3> QED BY <3>1, Sizes, SameSum
  <2> QED BY <1>3, <2>1
<1>6. ASSUME VerifyFull(Aggregate), ~Consistent PROVE FALSE
  <2>1. PICK d \in DOMAIN vss : ~VerifyFull(vss[d])
    BY <1>6 DEF Consistent
  <2>2. PICK i \in 1 .. NumValidators : ~matches(d, i)
    BY <1>4, <2>1
  <2>3. \A e \in 1 .. NumValidators : e # d => SharesAt(i)[e] = g(i)[e]
    BY <1>1, <1>2, <1>4, <2>1 DEF OneInconsistent
  <2>4. SumTo(SharesAt(i), NumValidators) = SumTo(g(i), NumValidators)
    BY <1>3, <1>6
  <2>5. d \in 1 .. NumValidators
    BY <1>4
  <2>6. SharesAt(i)[d] = g(i)[d]
    <3> DEFINE a == SharesAt(i)  b == g(i)
    <3>1. \A e \in 1 .. NumValidators : a[e] \in Field /\ b[e] \in Field
      BY <1>2
    <3>2. \A e \in 1 .. NumValidators : e # d => a[e] = b[e]
      BY <2>3
    <3>3. SumTo(a, NumValidators) = SumTo(b, NumValidators) /\ NumValidators \in Nat
      BY <2>4, Sizes
    <3> HIDE DEF a, b
    <3>4. a[d] = b[d]
      BY <2>5, <3>1, <3>2, <3>3, SumsDiffer
    <3> QED BY <3>4 DEF a, b
  <2> QED BY <1>2, <2>2, <2>5, <2>6
<1> QED BY <1>5, <1>6

-----------------------------------------------------------------------------
(***************************************************************************)
(* Decryption, refresh and recovery with the shares of the aggregate.      *)
(***************************************************************************)

\* The private key share of validator i.
KeyShare(i) == Evaluate(Total, DomainPoint(i))

\* The text is the one the properties use.
CiphertextFor(r) == Encrypt("message", <<"aad">>, FinalKey, r)

LEMMA CiphertextFacts ==
  ASSUME IInv, NEW r \in Randomness
  PROVE  /\ r \in Field
         /\ CiphertextFor(r).commitment = r
         /\ SharedSecret(CiphertextFor(r), FinalKey) = Mul(r, Total[1])
<1>1. r \in Field
  BY PvssAssumption
<1>2. CiphertextFor(r).commitment = r
  BY DEF CiphertextFor, Encrypt
<1> QED BY <1>1, <1>2, FinalKeyFacts DEF SharedSecret, Pairing

\* decrypt_private_key_share of a consistent aggregate.
LEMMA DecryptedKeyShare ==
  ASSUME IInv, Consistent, DOMAIN vss # {}, NEW i \in 1 .. NumValidators
  PROVE  /\ KeyShare(i) \in Field
         /\ Aggregate.shares[i] = Mul(KeyShare(i), dk[i])
         /\ DecryptPrivateKeyShare(Aggregate, dk[i], i) = KeyShare(i)
<1> DEFINE z == KeyShare(i)
           y == dk[i]
<1>1. TypeOK
  BY DEF IInv
<1>2. z \in Field
  BY <1>1, Sizes, TotalIsPolynomial, ValidatorPoints, EvaluateInField DEF KeyShare
<1>3. y \in Field /\ Inv(y) \in Field /\ Mul(y, Inv(y)) = 1
  BY <1>1, KeyFacts
<1>4. Aggregate.shares[i] = Mul(z, y)
  <2>1. VerifyFull(Aggregate)
    BY FullCheckAggregates DEF FullCheckOfAggregate
  <2>2. \A k \in 1 .. NumValidators : Aggregate.shares[k] \in Field
    BY <1>1, AggregateShares
  <2>3. Aggregate.shares[i] = Mul(Evaluate(Aggregate.coeffs, DomainPoint(i)), dk[i])
    BY <1>1, <2>1, <2>2, FullCheck
  <2> QED BY <1>1, <2>3, AggregateCoeffs DEF KeyShare
<1> HIDE DEF z, y
<1>5. Mul(Mul(z, y), Inv(y)) = Mul(z, Mul(y, Inv(y))) /\ Mul(z, 1) = z
  BY <1>2, <1>3, MulLaws
<1>6. Mul(Aggregate.shares[i], Inv(y)) = z
  BY <1>3, <1>4, <1>5
<1> QED BY <1>2, <1>4, <1>6 DEF DecryptPrivateKeyShare, z, y

\* A share of key share z' verifies against the aggregate if it gives the
\* same value as the share the aggregate holds, and only then.
LEMMA VerifiesAgainstAggregate ==
  ASSUME IInv, Consistent, DOMAIN vss # {}, NEW i \in 1 .. NumValidators,
         NEW r \in Randomness, NEW v
  PROVE  VerifyShare(DecryptionShareSimple(CiphertextFor(r), i, v, dk[i]),
                     Aggregate.shares[i], EncryptionKey(i), CiphertextFor(r))
           <=> Mul(r, v) = Mul(r, KeyShare(i))
<1> DEFINE z == KeyShare(i)
           y == dk[i]
           c == Mul(r, Inv(y))
           s == DecryptionShareSimple(CiphertextFor(r), i, v, dk[i])
<1>1. r \in Field /\ z \in Field
  BY CiphertextFacts, DecryptedKeyShare
<1>2. y \in Field \ {0} /\ Inv(y) \in Field /\ Mul(Inv(y), y) = 1
  BY KeyFacts, InverseLaws DEF IInv
<1>3. s.decryption_share = Mul(r, v) /\ s.validator_checksum = c
  BY CiphertextFacts DEF DecryptionShareSimple, Pairing
<1>4. VerifyShare(s, Aggregate.shares[i], EncryptionKey(i), CiphertextFor(r))
        <=> Mul(r, v) = Mul(c, Mul(z, y)) /\ Mul(c, y) = r
  BY <1>3, CiphertextFacts, DecryptedKeyShare DEF VerifyShare, Pairing, EncryptionKey
<1> HIDE DEF z, y, s
<1>5. c \in Field
  BY <1>1, <1>2, Closed
<1>6. Mul(c, y) = r
  <2>1. Mul(Mul(r, Inv(y)), y) = Mul(r, Mul(Inv(y), y)) /\ Mul(r, 1) = r
    BY <1>1, <1>2, MulLaws
  <2> QED BY <1>2, <2>1
<1> HIDE DEF c
<1>7. Mul(c, Mul(z, y)) = Mul(r, z)
  <2>1. Mul(z, y) = Mul(y, z)
    BY <1>1, <1>2, MulLaws
  <2>2. Mul(Mul(c, y), z) = Mul(c, Mul(y, z))
    BY <1>1, <1>2, <1>5, MulLaws
  <2> QED BY <1>6, <2>1, <2>2
<1> QED BY <1>4, <1>6, <1>7 DEF z, s

LEMMA SelectedPoints ==
  ASSUME NEW q \in Selections
  PROVE  /\ Len(q) = Threshold
         /\ \A k \in 1 .. Threshold : q[k] \in 1 .. NumValidators
         /\ PointsOf(q) = [k \in 1 .. Threshold |-> DomainPoint(q[k])]
         /\ Len(PointsOf(q)) = Threshold
         /\ \A k \in 1 .. Threshold : PointsOf(q)[k] = DomainPoint(q[k])
         /\ EnoughPoints(PointsOf(q))
<1>1. q \in [1 .. Threshold -> 1 .. NumValidators]
      /\ \A k, l \in 1 .. Threshold : q[k] = q[l] => k = l
  BY DEF Selections
<1>2. Threshold \in Nat /\ Len(q) = Threshold
  <2>1. q \in Seq(1 .. NumValidators)
    BY <1>1, Sizes
  <2> QED BY <1>1, <2>1, Sizes
<1>3. PointsOf(q) = [k \in 1 .. Threshold |-> DomainPoint(q[k])]
  BY <1>2 DEF PointsOf
<1>4. Len(PointsOf(q)) = Threshold
      /\ \A k \in 1 .. Threshold : PointsOf(q)[k] = DomainPoint(q[k])
  BY <1>2, <1>3
<1>5. \A k \in 1 .. Threshold : q[k] \in 1 .. NumValidators /\ q[k] \in 1 .. NumPoints
  BY <1>1, ValidatorPoints
<1>6. Distinct(PointsOf(q), Threshold)
  BY <1>1, <1>2, <1>4, <1>5, SelectedPointsDiffer
<1> QED BY <1>2, <1>3, <1>4, <1>5, <1>6 DEF EnoughPoints

\* Decryption shares of the values of p, a polynomial with the final key as
\* its constant term, combine to the secret.
LEMMA SelectionCombines ==
  ASSUME IInv, NEW r \in Randomness, NEW q \in Selections,
         NEW p \in Polynomials(Threshold), p[1] = Total[1],
         NEW v, \A i \in 1 .. NumValidators : v[i] = Evaluate(p, DomainPoint(i)),
         NEW share, \A i \in 1 .. NumValidators :
             share[i] = DecryptionShareSimple(CiphertextFor(r), i, v[i], dk[i])
  PROVE  ShareCombineSimple([k \in 1 .. Threshold |-> share[q[k]]],
                            PrepareCombineSimple(PointsOf(q)))
           = SharedSecret(CiphertextFor(r), FinalKey)
<1> DEFINE shares == [k \in 1 .. Threshold |-> share[q[k]]]
<1>1. r \in Field
  BY CiphertextFacts
<1>2. ASSUME NEW k \in 1 .. Threshold
      PROVE  shares[k].decryption_share = Mul(r, Evaluate(p, PointsOf(q)[k]))
  <2>1. q[k] \in 1 .. NumValidators /\ PointsOf(q)[k] = DomainPoint(q[k])
    BY SelectedPoints
  <2>2. shares[k] = DecryptionShareSimple(CiphertextFor(r), q[k], v[q[k]], dk[q[k]])
    BY <2>1
  <2> HIDE DEF shares
  <2>3. shares[k].decryption_share = Mul(r, v[q[k]])
    BY <2>2, CiphertextFacts DEF DecryptionShareSimple, Pairing
  <2> QED BY <2>1, <2>3
<1>3. Len(shares) = Threshold
  BY Sizes
<1> HIDE DEF shares
<1>4. EnoughPoints(PointsOf(q)) /\ SharesOf(shares, PointsOf(q), p, r)
  BY <1>2, <1>3, SelectedPoints DEF SharesOf
<1>5. ShareCombineSimple(shares, PrepareCombineSimple(PointsOf(q))) = Mul(r, p[1])
  BY <1>1, <1>4, SharesCombine
<1> QED BY <1>5, CiphertextFacts DEF shares

LEMMA AggregateCombines == IInv => AggregateDecrypts
<1> DEFINE share(r) == [i \in 1 .. NumValidators |->
                           MakeDecryptionShareSimple(Aggregate, CiphertextFor(r), i)]
<1>1. ASSUME IInv, Consistent, DOMAIN vss # {}, NEW r \in Randomness
      PROVE  /\ \A i \in 1 .. NumValidators :
                   VerifyShare(share(r)[i], Aggregate.shares[i], EncryptionKey(i),
                               CiphertextFor(r))
             /\ \A q \in Selections :
                   ShareCombineSimple([k \in 1 .. Threshold |-> share(r)[q[k]]],
                       PrepareCombineSimple([k \in 1 .. Threshold |-> DomainPoint(q[k])]))
                   = SharedSecret(CiphertextFor(r), FinalKey)
  <2> DEFINE v == [i \in 1 .. NumValidators |-> KeyShare(i)]
             s == share(r)
  <2>1. \A i \in 1 .. NumValidators :
            s[i] = DecryptionShareSimple(CiphertextFor(r), i, KeyShare(i), dk[i])
    BY <1>1, DecryptedKeyShare DEF MakeDecryptionShareSimple
  <2>2. \A i \in 1 .. NumValidators : v[i] = KeyShare(i)
    OBVIOUS
  <2> HIDE DEF v, s
  <2>3. ASSUME NEW i \in 1 .. NumValidators
        PROVE  VerifyShare(s[i], Aggregate.shares[i], EncryptionKey(i), CiphertextFor(r))
    BY <1>1, <2>1, VerifiesAgainstAggregate
  <2>4. ASSUME NEW q \in Selections
        PROVE  ShareCombineSimple([k \in 1 .. Threshold |-> s[q[k]]],
                                  PrepareCombineSimple(PointsOf(q)))
                 = SharedSecret(CiphertextFor(r), FinalKey)
    <3>1. Total \in Polynomials(Threshold)
      BY <1>1, TotalIsPolynomial DEF IInv
    <3>2. \A i \in 1 .. NumValidators : v[i] = Evaluate(Total, DomainPoint(i))
      BY <2>2 DEF KeyShare
    <3>3. \A i \in 1 .. NumValidators :
              s[i] = DecryptionShareSimple(CiphertextFor(r), i, v[i], dk[i])
      BY <2>1, <2>2
    <3> QED BY <1>1, <3>1, <3>2, <3>3, SelectionCombines
  <2> QED BY <2>3, <2>4, SelectedPoints DEF s
<1> QED BY <1>1 DEF AggregateDecrypts, CiphertextFor

\* The random coefficients of an update make a polynomial with that zero.
LEMMA UpdatePolynomial ==
  ASSUME NEW higher \in Updates, NEW root \in Field
  PROVE  /\ MakeRandomPolynomialAt(higher, root) \in Polynomials(Threshold)
         /\ Evaluate(MakeRandomPolynomialAt(higher, root), root) = 0
<1>1. higher \in Polynomials(Threshold - 1)
  BY PvssAssumption DEF Updates, Polynomials
<1>2. /\ MakeRandomPolynomialAt(higher, root) \in Polynomials((Threshold - 1) + 1)
      /\ Evaluate(MakeRandomPolynomialAt(higher, root), root) = 0
  BY <1>1, Sizes, RootPolynomial
<1> QED BY <1>2, Sizes

LEMMA RefreshedCombine == IInv => RefreshedSharesDecrypt
<1> DEFINE update(higher) == MakeRandomPolynomialAt(higher, 0)
           share(r, higher) ==
               [i \in 1 .. NumValidators |->
                   RefreshDecryptionShare(Aggregate, CiphertextFor(r), i, update(higher))]
<1>1. ASSUME IInv, Consistent, DOMAIN vss # {}, NEW r \in Randomness, NEW higher \in Updates
      PROVE  /\ \A q \in Selections :
                   ShareCombineSimple([k \in 1 .. Threshold |-> share(r, higher)[q[k]]],
                                      PrepareCombineSimple(PointsOf(q)))
                   = SharedSecret(CiphertextFor(r), FinalKey)
             /\ \A i \in 1 .. NumValidators :
                   r # 0 /\ VerifyShare(share(r, higher)[i], Aggregate.shares[i],
                                        EncryptionKey(i), CiphertextFor(r))
                   => Evaluate(update(higher), DomainPoint(i)) = 0
  <2> DEFINE u == update(higher)
             p == SumOfPolys(Total, u, Threshold)
             v == [i \in 1 .. NumValidators |->
                      Add(KeyShare(i), Evaluate(u, DomainPoint(i)))]
             s == share(r, higher)
  <2>1. Threshold \in Nat \ {0} /\ 0 \in Field /\ Total \in Polynomials(Threshold)
    BY <1>1, Sizes, TotalIsPolynomial DEF IInv
  <2>2. u \in Polynomials(Threshold) /\ Evaluate(u, 0) = 0
    BY <1>1, <2>1, UpdatePolynomial
  <2>3. \A i \in 1 .. NumValidators :
            s[i] = DecryptionShareSimple(CiphertextFor(r), i, v[i], dk[i])
    BY <1>1, DecryptedKeyShare DEF RefreshDecryptionShare, RefreshPrivateKeyShare
  <2>4. \A i \in 1 .. NumValidators : v[i] = Add(KeyShare(i), Evaluate(u, DomainPoint(i)))
    OBVIOUS
  <2> HIDE DEF u, v, s
  <2>5. p \in Polynomials(Threshold)
        /\ \A x \in Field : Evaluate(p, x) = Add(Evaluate(Total, x), Evaluate(u, x))
    BY <2>1, <2>2, EvaluateSumOfPolys
  <2> HIDE DEF p
  <2>6. p[1] = Total[1]
    <3>1. Evaluate(p, 0) = p[1] /\ Evaluate(Total, 0) = Total[1] /\ Total[1] \in Field
      BY <1>1, <2>1, <2>5, EvaluateAtZero, TotalIsPolynomial DEF IInv
    <3>2. Evaluate(p, 0) = Add(Total[1], 0)
      BY <2>1, <2>2, <2>5, <3>1
    <3> QED BY <3>1, <3>2, AddLaws
  <2>7. \A i \in 1 .. NumValidators : v[i] = Evaluate(p, DomainPoint(i))
    BY <2>4, <2>5, ValidatorPoints DEF KeyShare
  <2>8. ASSUME NEW q \in Selections
        PROVE  ShareCombineSimple([k \in 1 .. Threshold |-> s[q[k]]],
                                  PrepareCombineSimple(PointsOf(q)))
                 = SharedSecret(CiphertextFor(r), FinalKey)
    <3>1. p \in Polynomials(Threshold)
      BY <2>5
    <3> QED BY <1>1, <2>3, <2>6, <2>7, <3>1, SelectionCombines
  <2>9. ASSUME NEW i \in 1 .. NumValidators, r # 0,
               VerifyShare(s[i], Aggregate.shares[i], EncryptionKey(i), CiphertextFor(r))
        PROVE  Evaluate(u, DomainPoint(i)) = 0
    <3> DEFINE z == KeyShare(i)
               e == Evaluate(u, DomainPoint(i))
    <3>1. r \in Field /\ z \in Field
      BY <1>1, CiphertextFacts, DecryptedKeyShare
    <3>2. e \in Field
      BY <2>1, <2>2, ValidatorPoints, EvaluateInField
    <3>3. Mul(r, Add(z, e)) = Mul(r, z)
      BY <1>1, <2>3, <2>4, <2>9, VerifiesAgainstAggregate
    <3> HIDE DEF z, e
    <3>4. Add(z, e) \in Field /\ Add(e, z) = Add(z, e)
      BY <3>1, <3>2, Closed, AddLaws
    <3>5. Add(z, e) = z
      BY <2>9, <3>1, <3>3, <3>4, Cancels
    <3>6. Sub(Add(e, z), z) = e /\ Sub(z, z) = 0
      BY <3>1, <3>2, SubLaws
    <3>7. e = 0
      BY <3>4, <3>5, <3>6
    <3> QED BY <3>7 DEF e
  <2> QED BY <2>8, <2>9 DEF s, u
<1> QED BY <1>1 DEF RefreshedSharesDecrypt, CiphertextFor

LEMMA RecoveredValue == IInv => RecoveredFromAggregate
<1> DEFINE deltas(q, x, higher) ==
               [k \in 1 .. Threshold |->
                   PrepareShareUpdatesForRecovery(PointsOf(q),
                       MakeRandomPolynomialAt(higher[k], x))]
           updated(q, x, higher) ==
               [j \in 1 .. Threshold |->
                   UpdatePrivateKeyShareForRecovery(Aggregate, q[j],
                       [k \in 1 .. Threshold |-> deltas(q, x, higher)[k][j]])]
<1>1. ASSUME IInv, Consistent, DOMAIN vss # {},
             NEW q \in Selections, NEW lost \in 1 .. NumValidators,
             NEW higher \in [1 .. Threshold -> Updates]
      PROVE  RecoverShareFromUpdatedPrivateShares(DomainPoint(lost), PointsOf(q),
                 updated(q, DomainPoint(lost), higher))
               = DecryptPrivateKeyShare(Aggregate, dk[lost], lost)
  <2> DEFINE x == DomainPoint(lost)
             xs == PointsOf(q)
             J == 1 .. Threshold
             f == deltas(q, x, higher)
             values == updated(q, x, higher)
  <2>1. Threshold \in Nat /\ x \in Field /\ Total \in Polynomials(Threshold)
    BY <1>1, Sizes, ValidatorPoints, TotalIsPolynomial DEF IInv
  <2>2. /\ Len(xs) = Threshold /\ DOMAIN xs = J /\ EnoughPoints(xs)
        /\ \A j \in J : q[j] \in 1 .. NumValidators /\ xs[j] = DomainPoint(q[j])
                        /\ xs[j] \in Field
    BY SelectedPoints, ValidatorPoints
  <2>3. ASSUME NEW k \in 1 .. Threshold PROVE Vanishes(f[k], xs, J, Threshold, x)
    <3> DEFINE p == MakeRandomPolynomialAt(higher[k], x)
    <3>1. p \in Polynomials(Threshold) /\ Evaluate(p, x) = 0
      BY <1>1, <2>1, UpdatePolynomial
    <3>2. f[k] = PrepareShareUpdatesForRecovery(xs, p)
      OBVIOUS
    <3> HIDE DEF p, f, xs
    <3>3. \A j \in J : f[k][j] = Evaluate(p, xs[j])
      BY <2>2, <3>2 DEF PrepareShareUpdatesForRecovery
    <3> QED BY <3>1, <3>3 DEF Vanishes
  <2>4. ASSUME NEW j \in J
        PROVE  values[j] = Add(KeyShare(q[j]), Added(f, J, Threshold)[j])
    <3> DEFINE up == [k \in 1 .. Threshold |-> f[k][j]]
    <3>1. values[j] = UpdatePrivateKeyShareForRecovery(Aggregate, q[j], up)
      OBVIOUS
    <3>2. Added(f, J, Threshold)[j] = SumTo(up, Threshold)
      BY DEF Added
    <3>3. Len(up) = Threshold
      BY <2>1
    <3>4. DecryptPrivateKeyShare(Aggregate, dk[q[j]], q[j]) = KeyShare(q[j])
      BY <1>1, <2>2, DecryptedKeyShare
    <3> HIDE DEF up, values, f
    <3> QED BY <3>1, <3>2, <3>3, <3>4
            DEF UpdatePrivateKeyShareForRecovery, UpdateShareForRecovery
  <2> HIDE DEF x, xs, f, values
  <2>5. Vanishes(Added(f, J, Threshold), xs, J, Threshold, x)
    BY <2>1, <2>2, <2>3, UpdatesVanish
  <2>6. PICK u \in Polynomials(Threshold) :
            Evaluate(u, x) = 0
            /\ \A j \in J : Added(f, J, Threshold)[j] = Evaluate(u, xs[j])
    BY <2>5 DEF Vanishes
  <2>7. UpdatedValues(values, xs, Total, u)
    BY <2>2, <2>4, <2>6 DEF UpdatedValues, KeyShare
  <2>8. RecoverShareFromUpdatedPrivateShares(x, xs, values) = Evaluate(Total, x)
    BY <2>1, <2>2, <2>6, <2>7, RecoveryGivesValue
  <2>9. DecryptPrivateKeyShare(Aggregate, dk[lost], lost) = Evaluate(Total, x)
    BY <1>1, DecryptedKeyShare DEF KeyShare, x
  <2> QED BY <2>8, <2>9 DEF x, xs, values
<1> QED BY <1>1 DEF RecoveredFromAggregate

-----------------------------------------------------------------------------
(***************************************************************************)
(* The invariant.                                                          *)
(***************************************************************************)

\* What Pvss::new makes for phi, and what a wrong share makes of it.
LEMMA NewTranscript ==
  ASSUME TypeOK, NEW phi \in [1 .. Threshold -> Coefficients]
  PROVE  /\ PvssNew(phi).coeffs \in Polynomials(Threshold)
         /\ PvssNew(phi).shares \in [1 .. NumValidators -> Field]
         /\ PvssNew(phi).sigma = phi[1] /\ phi[1] \in Field
         /\ PvssNew(phi).coeffs = phi
         /\ VerifyFull(PvssNew(phi))
<1>1. phi \in Polynomials(Threshold)
  BY PvssAssumption DEF Polynomials
<1>2. phi[1] \in Field
  BY <1>1, Sizes, PolynomialLength
<1> DEFINE t == PvssNew(phi)
<1>3. /\ t.coeffs = phi /\ t.sigma = phi[1]
      /\ t.shares = [i \in 1 .. NumValidators |-> Mul(Evaluate(phi, DomainPoint(i)), dk[i])]
  BY DEF PvssNew, EncryptionKey
<1>4. \A i \in 1 .. NumValidators : Mul(Evaluate(phi, DomainPoint(i)), dk[i]) \in Field
  <2> TAKE i \in 1 .. NumValidators
  <2>1. Evaluate(phi, DomainPoint(i)) \in Field /\ dk[i] \in Field
    BY <1>1, Sizes, ValidatorPoints, KeyFacts, EvaluateInField
  <2> QED BY <2>1, Closed
<1> HIDE DEF t
<1>5. t.shares \in [1 .. NumValidators -> Field]
  BY <1>3, <1>4
<1>6. VerifyFull(t)
  BY <1>3, <1>5, FullCheck
<1> QED BY <1>1, <1>2, <1>3, <1>5, <1>6 DEF t

\* A transcript of a dealer that has not dealt joins the others.
LEMMA ReceiptKeepsInv ==
  ASSUME IInv, NEW d \in 1 .. NumValidators, d \notin DOMAIN vss, NEW t,
         t.coeffs \in Polynomials(Threshold), t.shares \in [1 .. NumValidators -> Field],
         t.sigma \in Field, t.sigma = t.coeffs[1],
         VerifyFull(t) \/ Consistent,
         Received(d, t), UNCHANGED dk
  PROVE  IInv'
<1>1. /\ DOMAIN vss' = DOMAIN vss \cup {d} /\ vss'[d] = t
      /\ \A e \in DOMAIN vss : vss'[e] = vss[e]
  BY DEF Received
<1>2. TypeOK'
  BY <1>1 DEF IInv, TypeOK
<1>3. \A e \in DOMAIN vss' : vss'[e].sigma = vss'[e].coeffs[1]
  BY <1>1 DEF IInv
<1>4. \A e \in DOMAIN vss' : VerifyFull(vss[e])' <=> VerifyFull(vss'[e])
  BY DEF VerifyFull, EncryptionKey
<1>5. \A e, f \in DOMAIN vss' : ~VerifyFull(vss'[e]) /\ ~VerifyFull(vss'[f]) => e = f
  BY <1>1 DEF IInv, OneInconsistent, Consistent
<1>6. OneInconsistent'
  BY <1>4, <1>5 DEF OneInconsistent
<1> QED BY <1>2, <1>3, <1>6 DEF IInv

LEMMA InvInit == Init => IInv
<1> SUFFICES ASSUME Init PROVE IInv
  OBVIOUS
<1>1. dk \in [1 .. NumValidators -> 1 .. P - 1] /\ DOMAIN vss = {}
  BY PvssAssumption DEF Init
<1> QED BY <1>1 DEF IInv, TypeOK, OneInconsistent

LEMMA InvStep == IInv /\ [Next]_vars => IInv'
<1> SUFFICES ASSUME IInv, [Next]_vars PROVE IInv'
  OBVIOUS
<1>0. TypeOK
  BY DEF IInv
<1>1. ASSUME NEW d \in 1 .. NumValidators, Deal(d) PROVE IInv'
  <2>1. PICK phi \in [1 .. Threshold -> Coefficients] : Received(d, PvssNew(phi))
    BY <1>1 DEF Deal
  <2>2. d \notin DOMAIN vss /\ UNCHANGED dk
    BY <1>1 DEF Deal
  <2> DEFINE t == PvssNew(phi)
  <2>3. /\ t.coeffs \in Polynomials(Threshold) /\ t.shares \in [1 .. NumValidators -> Field]
        /\ t.sigma \in Field /\ t.sigma = t.coeffs[1] /\ VerifyFull(t)
    BY <1>0, NewTranscript
  <2>4. Received(d, t)
    BY <2>1
  <2> HIDE DEF t
  <2> QED BY <2>2, <2>3, <2>4, ReceiptKeepsInv
<1>2. ASSUME NEW d \in 1 .. NumValidators, DealWrongShare(d) PROVE IInv'
  <2>1. PICK phi \in [1 .. Threshold -> Coefficients], i \in 1 .. NumValidators :
            Received(d, [PvssNew(phi) EXCEPT !.shares[i] = Add(@, 1)])
    BY <1>2 DEF DealWrongShare
  <2>2. d \notin DOMAIN vss /\ Consistent /\ UNCHANGED dk
    BY <1>2 DEF DealWrongShare
  <2> DEFINE n == PvssNew(phi)
             t == [n EXCEPT !.shares[i] = Add(@, 1)]
  <2>3. /\ n.coeffs \in Polynomials(Threshold) /\ n.shares \in [1 .. NumValidators -> Field]
        /\ n.sigma \in Field /\ n.sigma = n.coeffs[1]
    BY <1>0, NewTranscript
  <2>4. n = [coeffs |-> n.coeffs, shares |-> n.shares, sigma |-> n.sigma]
    BY DEF PvssNew
  <2>5. Received(d, t)
    BY <2>1
  <2> HIDE DEF n
  <2>6. /\ t.coeffs = n.coeffs /\ t.sigma = n.sigma
        /\ t.shares = [n.shares EXCEPT ![i] = Add(n.shares[i], 1)]
    BY <2>4
  <2>7. Add(n.shares[i], 1) \in Field
    BY <2>3, Closed
  <2> HIDE DEF t
  <2>8. t.shares \in [1 .. NumValidators -> Field]
    BY <2>3, <2>6, <2>7
  <2> QED BY <2>2, <2>3, <2>5, <2>6, <2>8, ReceiptKeepsInv
<1>3. CASE UNCHANGED vars
  BY <1>3 DEF vars, IInv, TypeOK, OneInconsistent, VerifyFull, EncryptionKey
<1> QED BY <1>1, <1>2, <1>3 DEF Next

LEMMA Inductive == Spec => []IInv
<1>1. Init => IInv
  BY InvInit
<1>2. IInv /\ [Next]_vars => IInv'
  BY InvStep
<1> QED BY <1>1, <1>2, PTL DEF Spec

-----------------------------------------------------------------------------
(***************************************************************************)
(* Pvss::new: transcripts have a coefficient for each of Threshold and a   *)
(* share for each validator.                                               *)
(***************************************************************************)
THEOREM TypeCorrect == Spec => []TypeOK
<1>1. IInv => TypeOK
  BY DEF IInv
<1> QED BY <1>1, Inductive, PTL

(***************************************************************************)
(* verify_full of the aggregate, which verify_aggregation computes and     *)
(* does not use, is equivalent to verify_full of all transcripts as long   *)
(* as one dealer at most is inconsistent.                                  *)
(***************************************************************************)
THEOREM FullCheckIsExact == Spec => []FullCheckOfAggregate
BY Inductive, FullCheckAggregates, PTL

(***************************************************************************)
(* aggregate and final_key: the sums agree on the key, and the aggregate   *)
(* passes verify_optimistic.                                               *)
(***************************************************************************)
THEOREM AggregateHasFinalKey == Spec => []AggregateIsOfFinalKey
BY Inductive, AggregateIsOfKey, PTL

(***************************************************************************)
(* make_decryption_share_simple: every share of a consistent aggregate     *)
(* verifies, and any Threshold of them give the secret of a ciphertext for *)
(* the final key.                                                          *)
(***************************************************************************)
THEOREM AggregateSharesDecrypt == Spec => []AggregateDecrypts
BY Inductive, AggregateCombines, PTL

(***************************************************************************)
(* refresh_decryption_share: refreshed shares still give the secret, and   *)
(* no longer verify against the aggregate where the update is not zero.    *)
(***************************************************************************)
THEOREM RefreshedAggregateDecrypts == Spec => []RefreshedSharesDecrypt
BY Inductive, RefreshedCombine, PTL

(***************************************************************************)
(* update_private_key_share_for_recovery: what Threshold validators        *)
(* recover is the private key share that the lost session key decrypts.    *)
(***************************************************************************)
THEOREM RecoveryFromAggregate == Spec => []RecoveredFromAggregate
BY Inductive, RecoveredValue, PTL
=============================================================================
