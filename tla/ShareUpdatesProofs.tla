------------------------- MODULE ShareUpdatesProofs -------------------------
(***************************************************************************)
(* Refresh and recovery of private key shares, for every prime, threshold, *)
(* number of participants and of refreshes, and every order of their steps *)
(* and messages.                                                           *)
(*                                                                         *)
(* The inductive invariant says what every value held is a value of: a     *)
(* share of generation g is a value of the secret polynomial plus the      *)
(* first g polynomials of the dealer, and a fragment is such a share plus  *)
(* values of polynomials that vanish at the point of the lost share.       *)
(* Interpolation (SharesCombine, RecoveryGivesValue) does the rest.        *)
(***************************************************************************)
EXTENDS ShareUpdates, InterpolationProofs

\* The value at x of the secret polynomial p after g of the refreshes rs.
Generation(p, rs, g, x) ==
    Add(Evaluate(p, x), SumTo([t \in 1 .. g |-> Evaluate(rs[t], x)], g))

\* The updates for j of the participants F.
Mask(up, F, j) == [i \in Remaining |-> IF i \in F THEN up[i][j] ELSE 0]

SharesInv ==
    /\ poly \in Polynomials(Threshold)
    /\ refreshes \in Seq(Polynomials(Threshold))
    /\ \A t \in 1 .. Len(refreshes) : Evaluate(refreshes[t], 0) = 0
    /\ gen \in [Participants -> 0 .. Len(refreshes)]
    /\ share = [i \in Participants |->
                   Generation(poly, refreshes, gen[i], DomainPoint(i))]

UpdatesInv ==
    /\ x_r \in Field
    /\ DOMAIN updates \subseteq Remaining
    /\ x_r = 0 => DOMAIN updates = {} /\ DOMAIN fragment = {}
    /\ \A i \in DOMAIN updates :
          Vanishes(updates[i], DomainPoints, Remaining, Threshold, x_r)

\* The fragment fr of participant j.
FragmentOf(fr, j, up) ==
    /\ fr.gen \in 0 .. Len(refreshes)
    /\ fr.from \subseteq DOMAIN up
    /\ fr.value = Add(Generation(poly, refreshes, fr.gen, DomainPoint(j)),
                      SumTo(Mask(up, fr.from, j), SharesNum - 1))

FragmentsInv ==
    /\ DOMAIN fragment \subseteq Remaining
    /\ \A j \in DOMAIN fragment : FragmentOf(fragment[j], j, updates)

\* The participants whose fragments are combined.
ToCombine(q) ==
    /\ Len(q) \in Nat /\ Len(q) >= Threshold
    /\ \A k \in 1 .. Len(q) : q[k] \in DOMAIN fragment
    /\ \A k, l \in 1 .. Len(q) : k < l => q[k] < q[l]

RecoveredFrom(q) ==
    recovered = <<[value |-> RecoverShareFromUpdatedPrivateShares(
                       x_r, Points(q), [k \in 1 .. Len(q) |-> fragment[q[k]].value]),
                   of |-> {q[k] : k \in 1 .. Len(q)}]>>

RecoveredInv == recovered = <<>> \/ \E q : ToCombine(q) /\ RecoveredFrom(q)

IInv == SharesInv /\ UpdatesInv /\ FragmentsInv /\ RecoveredInv

-----------------------------------------------------------------------------
(***************************************************************************)
(* Constants and polynomials.                                              *)
(***************************************************************************)

LEMMA Sizes ==
  /\ Threshold \in Nat \ {0, 1} /\ SharesNum \in Nat /\ SharesNum >= Threshold
  /\ NumPoints = SharesNum
  /\ Threshold - 1 \in Nat /\ (Threshold - 1) + 1 = Threshold
  /\ SharesNum - 1 \in Nat
  /\ Remaining \subseteq Participants
<1>1. Threshold \in Nat /\ Threshold >= 2 /\ SharesNum \in Nat /\ SharesNum >= Threshold
      /\ NumPoints = SharesNum
  BY SetupAssumption, UpdatesAssumption DEF NumPoints
<1> QED BY <1>1 DEF Remaining, Participants

LEMMA PointsInField ==
  /\ \A i \in Participants : DomainPoint(i) \in Field
  /\ \A i \in Participants : DomainPoints[i] = DomainPoint(i)
  /\ \A i, j \in Participants : DomainPoint(i) = DomainPoint(j) => i = j
<1>1. Participants = 1 .. NumPoints
  BY Sizes DEF Participants
<1> QED BY <1>1, DomainPointsDiffer DEF DomainPoint

\* The polynomials of the dealer and of prepare_share_updates_for_recovery.
LEMMA DrawnPolynomial ==
  ASSUME NEW higher \in [1 .. Threshold - 1 -> Slopes], NEW root \in Field
  PROVE  /\ MakeRandomPolynomialAt(higher, root) \in Polynomials(Threshold)
         /\ Evaluate(MakeRandomPolynomialAt(higher, root), root) = 0
<1>1. higher \in Polynomials(Threshold - 1)
  BY UpdatesAssumption DEF Polynomials
<1>2. /\ MakeRandomPolynomialAt(higher, root) \in Polynomials((Threshold - 1) + 1)
      /\ Evaluate(MakeRandomPolynomialAt(higher, root), root) = 0
  BY <1>1, Sizes, RootPolynomial
<1> QED BY <1>2, Sizes

LEMMA RefreshInField ==
  ASSUME SharesInv, NEW t \in 1 .. Len(refreshes), NEW x \in Field
  PROVE  refreshes[t] \in Polynomials(Threshold) /\ Evaluate(refreshes[t], x) \in Field
<1>1. refreshes[t] \in Polynomials(Threshold)
  BY DEF SharesInv
<1> QED BY <1>1, Sizes, EvaluateInField

LEMMA GenerationStep ==
  ASSUME SharesInv, NEW x \in Field
  PROVE  /\ Generation(poly, refreshes, 0, x) = Evaluate(poly, x)
         /\ \A g \in 0 .. Len(refreshes) - 1 :
               Generation(poly, refreshes, g + 1, x)
                 = Add(Generation(poly, refreshes, g, x), Evaluate(refreshes[g + 1], x))
<1>1. Evaluate(poly, x) \in Field
  BY Sizes, EvaluateInField DEF SharesInv
<1>2. Generation(poly, refreshes, 0, x) = Evaluate(poly, x)
  BY <1>1, SumUnfolds, AddLaws DEF Generation
<1>3. ASSUME NEW g \in 0 .. Len(refreshes) - 1
      PROVE  Generation(poly, refreshes, g + 1, x)
               = Add(Generation(poly, refreshes, g, x), Evaluate(refreshes[g + 1], x))
  <2> DEFINE f == [t \in 1 .. g + 1 |-> Evaluate(refreshes[t], x)]
             h == [t \in 1 .. g |-> Evaluate(refreshes[t], x)]
  <2>0. refreshes \in Seq(Polynomials(Threshold)) /\ Len(refreshes) \in Nat
    BY DEF SharesInv
  <2>1. g \in Nat /\ g + 1 \in 1 .. Len(refreshes)
    BY <2>0
  <2>2. \A t \in 1 .. g : h[t] = f[t] /\ h[t] \in Field
    BY <2>0, <2>1, RefreshInField
  <2>3. f[g + 1] = Evaluate(refreshes[g + 1], x) /\ f[g + 1] \in Field
    BY <2>1, RefreshInField
  <2>4. Generation(poly, refreshes, g + 1, x) = Add(Evaluate(poly, x), SumTo(f, g + 1))
        /\ Generation(poly, refreshes, g, x) = Add(Evaluate(poly, x), SumTo(h, g))
    BY DEF Generation
  <2> HIDE DEF f, h
  <2>5. SumTo(h, g) = SumTo(f, g) /\ SumTo(h, g) \in Field
    BY <2>1, <2>2, SameSum, SumInField
  <2>6. SumTo(f, g + 1) = Add(SumTo(f, g), f[g + 1])
    BY <2>1, SumUnfolds
  <2>7. Add(Evaluate(poly, x), Add(SumTo(f, g), f[g + 1]))
          = Add(Add(Evaluate(poly, x), SumTo(f, g)), f[g + 1])
    BY <1>1, <2>3, <2>5, AddLaws
  <2> QED BY <2>3, <2>4, <2>5, <2>6, <2>7
<1> QED BY <1>2, <1>3

\* More refreshes leave the earlier generations as they are.
LEMMA GenerationStays ==
  ASSUME NEW p, NEW rs, NEW rt, NEW g \in Nat, NEW x,
         \A t \in 1 .. g : rs[t] = rt[t]
  PROVE  Generation(p, rs, g, x) = Generation(p, rt, g, x)
<1> DEFINE f == [t \in 1 .. g |-> Evaluate(rs[t], x)]
           h == [t \in 1 .. g |-> Evaluate(rt[t], x)]
<1>1. \A t \in 1 .. g : f[t] = h[t]
  OBVIOUS
<1> HIDE DEF f, h
<1>2. SumTo(f, g) = SumTo(h, g)
  BY <1>1, SameSum
<1> QED BY <1>2 DEF Generation, f, h

\* Generation g shares the secret by a polynomial of its own.
IsGeneration(p, g) ==
    /\ p \in Polynomials(Threshold)
    /\ p[1] = poly[1]
    /\ \A x \in Field : Evaluate(p, x) = Generation(poly, refreshes, g, x)

LEMMA GenerationPolynomial ==
  ASSUME SharesInv, NEW g \in 0 .. Len(refreshes)
  PROVE  \E p : IsGeneration(p, g)
<1> DEFINE n == Len(refreshes)
           S == {k \in 0 .. n : \E p \in Polynomials(Threshold) :
                    \A x \in Field : Evaluate(p, x) = Generation(poly, refreshes, k, x)
                    /\ Evaluate(p, 0) = poly[1]}
<1>1. n \in Nat /\ poly \in Polynomials(Threshold) /\ refreshes \in Seq(Polynomials(Threshold))
      /\ \A t \in 1 .. n : Evaluate(refreshes[t], 0) = 0
  BY DEF SharesInv
<1>2. Threshold \in Nat \ {0} /\ 0 \in Field /\ poly[1] \in Field
  <2>1. Threshold \in Nat \ {0} /\ 1 \in 1 .. Threshold
    BY Sizes
  <2> QED BY <1>1, <2>1, Closed, PolynomialLength
<1>3. 0 \in S
  <2>1. \A x \in Field : Evaluate(poly, x) = Generation(poly, refreshes, 0, x)
    BY GenerationStep
  <2>2. Evaluate(poly, 0) = poly[1]
    BY <1>1, <1>2, EvaluateAtZero
  <2> QED BY <1>1, <2>1, <2>2
<1>4. ASSUME NEW k \in 0 .. n - 1, k \in S PROVE k + 1 \in S
  <2>1. PICK p \in Polynomials(Threshold) :
            \A x \in Field : Evaluate(p, x) = Generation(poly, refreshes, k, x)
                             /\ Evaluate(p, 0) = poly[1]
    BY <1>4
  <2>2. k + 1 \in 1 .. n
    BY <1>1
  <2> DEFINE q == refreshes[k + 1]
             s == SumOfPolys(p, q, Threshold)
  <2>3. q \in Polynomials(Threshold) /\ Evaluate(q, 0) = 0
    BY <1>1, <2>2
  <2>4. s \in Polynomials(Threshold)
        /\ \A x \in Field : Evaluate(s, x) = Add(Evaluate(p, x), Evaluate(q, x))
    BY <1>2, <2>3, EvaluateSumOfPolys
  <2> HIDE DEF s
  <2>5. \A x \in Field : Evaluate(s, x) = Generation(poly, refreshes, k + 1, x)
    BY <2>1, <2>4, GenerationStep
  <2>6. Evaluate(s, 0) = poly[1]
    BY <1>2, <2>1, <2>3, <2>4, AddLaws
  <2> QED BY <2>2, <2>4, <2>5, <2>6
<1> HIDE DEF S
<1>5. g \in S
  BY <1>1, <1>3, <1>4, InductionUpTo
<1>6. PICK p \in Polynomials(Threshold) :
          \A x \in Field : Evaluate(p, x) = Generation(poly, refreshes, g, x)
                           /\ Evaluate(p, 0) = poly[1]
  BY <1>5 DEF S
<1>7. p[1] = poly[1]
  BY <1>2, <1>6, EvaluateAtZero
<1> QED BY <1>6, <1>7 DEF IsGeneration

-----------------------------------------------------------------------------
(***************************************************************************)
(* Shares of one generation combine to the secret.                         *)
(***************************************************************************)

\* Different participants, in increasing order.
Increasing(q) ==
    /\ Len(q) \in Nat
    /\ \A k \in 1 .. Len(q) : q[k] \in Participants
    /\ \A k, l \in 1 .. Len(q) : k < l => q[k] < q[l]

LEMMA PointsOfIncreasing ==
  ASSUME NEW q, Increasing(q)
  PROVE  /\ Len(Points(q)) = Len(q)
         /\ \A k \in 1 .. Len(q) : Points(q)[k] = DomainPoint(q[k])
         /\ Distinct(Points(q), Len(q))
<1>1. Len(Points(q)) = Len(q)
      /\ \A k \in 1 .. Len(q) : Points(q)[k] = DomainPoint(q[k])
  BY DEF Points, Increasing
<1>2. ASSUME NEW k \in 1 .. Len(q), NEW l \in 1 .. Len(q), q[k] = q[l] PROVE k = l
  <2>1. q[k] \in Int /\ q[l] \in Int
    BY Sizes DEF Increasing, Participants
  <2>2. ~(k < l) /\ ~(l < k)
    BY <1>2, <2>1 DEF Increasing
  <2> QED BY <2>2 DEF Increasing
<1>3. \A k \in 1 .. Len(q) : q[k] \in 1 .. NumPoints
  BY Sizes DEF Increasing, Participants
<1>4. Distinct(Points(q), Len(q))
  BY <1>1, <1>2, <1>3, SelectedPointsDiffer DEF Increasing
<1> QED BY <1>1, <1>4

LEMMA SelectionIncreases ==
  ASSUME NEW n \in Nat, NEW q \in Selections(n)
  PROVE  Len(q) = n /\ Increasing(q)
<1>1. q \in [1 .. n -> Participants] /\ \A k, l \in 1 .. n : k < l => q[k] < q[l]
  BY DEF Selections
<1>2. Len(q) = n
  <2>1. q \in Seq(Participants)
    BY <1>1
  <2> QED BY <1>1, <2>1
<1> QED BY <1>1, <1>2 DEF Increasing

LEMMA CiphertextFacts ==
  ASSUME SharesInv
  PROVE  /\ Randomness \in Field /\ poly[1] \in Field
         /\ Ciphertext.commitment = Randomness
         /\ SharedSecret(Ciphertext, poly[1]) = Mul(Randomness, poly[1])
<1>1. Randomness \in Field
  BY UpdatesAssumption, PrimeAssumption DEF Field
<1>2. poly[1] \in Field
  <2>1. Threshold \in Nat /\ 1 \in 1 .. Threshold
    BY Sizes
  <2> QED BY <2>1, PolynomialLength DEF SharesInv
<1>3. Ciphertext.commitment = Randomness
  BY DEF Ciphertext, Encrypt
<1> QED BY <1>1, <1>2, <1>3 DEF SharedSecret, Pairing

\* A decryption share of the key share z.
LEMMA ShareValue ==
  ASSUME SharesInv, NEW i, NEW z, NEW key
  PROVE  DecryptionShareSimple(Ciphertext, i, z, key).decryption_share = Mul(Randomness, z)
BY CiphertextFacts DEF DecryptionShareSimple, Pairing

LEMMA KeyShareValue ==
  ASSUME SharesInv, NEW i \in Participants, NEW p, IsGeneration(p, gen[i])
  PROVE  share[i] = Evaluate(p, DomainPoint(i)) /\ share[i] \in Field
<1>1. DomainPoint(i) \in Field /\ p \in Polynomials(Threshold) /\ Threshold \in Nat
  BY PointsInField, Sizes DEF IsGeneration
<1>2. share[i] = Evaluate(p, DomainPoint(i))
  BY <1>1 DEF SharesInv, IsGeneration
<1> QED BY <1>1, <1>2, EvaluateInField

LEMMA RefreshKeeps == SharesInv => RefreshKeepsSecret
<1> SUFFICES ASSUME SharesInv, NEW q \in Selections(Threshold),
                    \A k, l \in 1 .. Threshold : gen[q[k]] = gen[q[l]]
             PROVE  CombinesTo(q) = SharedSecret(Ciphertext, poly[1])
  BY DEF RefreshKeepsSecret
<1> DEFINE shares == [k \in 1 .. Len(q) |-> DecryptionShare(q[k])]
           g == gen[q[1]]
<1>1. Threshold \in Nat /\ 1 \in 1 .. Threshold /\ Len(q) = Threshold /\ Increasing(q)
  BY Sizes, SelectionIncreases
<1>2. g \in 0 .. Len(refreshes)
  BY <1>1 DEF Increasing, SharesInv
<1>3. PICK p : IsGeneration(p, g)
  BY <1>2, GenerationPolynomial
<1>4. EnoughPoints(Points(q))
  BY <1>1, PointsOfIncreasing DEF EnoughPoints
<1>5. ASSUME NEW k \in 1 .. Len(q)
      PROVE  shares[k].decryption_share = Mul(Randomness, Evaluate(p, Points(q)[k]))
  <2>1. q[k] \in Participants /\ IsGeneration(p, gen[q[k]])
    BY <1>1, <1>3 DEF Increasing
  <2>2. share[q[k]] = Evaluate(p, DomainPoint(q[k])) /\ Points(q)[k] = DomainPoint(q[k])
    BY <1>1, <2>1, KeyShareValue, PointsOfIncreasing
  <2> QED BY <2>2, ShareValue DEF DecryptionShare
<1>6. Len(shares) = Len(q)
  BY <1>1
<1> HIDE DEF shares
<1>7. SharesOf(shares, Points(q), p, Randomness)
  BY <1>1, <1>5, <1>6, PointsOfIncreasing DEF SharesOf
<1>8. p \in Polynomials(Threshold) /\ p[1] = poly[1] /\ Randomness \in Field
  BY <1>3, CiphertextFacts DEF IsGeneration
<1>9. ShareCombineSimple(shares, PrepareCombineSimple(Points(q))) = Mul(Randomness, p[1])
  BY <1>4, <1>7, <1>8, SharesCombine
<1> QED BY <1>8, <1>9, CiphertextFacts DEF CombinesTo, shares

\* A share that passes verify is of generation 0, or equal to that one.
LEMMA VerifiedKeyShare ==
  ASSUME SharesInv, NEW i \in Participants,
         VerifyShare(DecryptionShare(i), Mul(Evaluate(poly, DomainPoint(i)), Keys[i]),
                     Keys[i], Ciphertext)
  PROVE  DecryptionShare(i).decryption_share
           = Mul(Randomness, Evaluate(poly, DomainPoint(i)))
<1> DEFINE r == Randomness
           z == Evaluate(poly, DomainPoint(i))
           y == Keys[i]
           c == DecryptionShare(i).validator_checksum
<1>1. r \in Field /\ z \in Field /\ y \in Field \ {0}
  <2>1. z \in Field
    BY Sizes, PointsInField, EvaluateInField DEF SharesInv
  <2>2. y \in Field \ {0}
    BY UpdatesAssumption, PrimeAssumption DEF Field, Participants
  <2> QED BY <2>1, <2>2, CiphertextFacts
<1>2. c = Mul(r, Inv(y))
  BY CiphertextFacts DEF DecryptionShare, DecryptionShareSimple
<1>3. DecryptionShare(i).decryption_share = Mul(c, Mul(z, y)) /\ Mul(c, y) = r
  BY CiphertextFacts DEF VerifyShare, Pairing
<1> HIDE DEF r, z, y, c
<1>4. c \in Field
  <2>1. Inv(y) \in Field
    BY <1>1, InverseLaws
  <2> QED BY <1>1, <1>2, <2>1, Closed
<1>5. Mul(z, y) = Mul(y, z)
  BY <1>1, MulLaws
<1>6. Mul(Mul(c, y), z) = Mul(c, Mul(y, z))
  BY <1>1, <1>4, MulLaws
<1> QED BY <1>3, <1>5, <1>6 DEF z, r

LEMMA VerifiedCombine == SharesInv => VerifiedUpdatedSharesCombine
<1> SUFFICES ASSUME SharesInv, NEW q \in Selections(Threshold),
                    \A k \in 1 .. Threshold :
                        VerifyShare(DecryptionShare(q[k]),
                                    Mul(Evaluate(poly, DomainPoint(q[k])), Keys[q[k]]),
                                    Keys[q[k]], Ciphertext)
             PROVE  CombinesTo(q) = SharedSecret(Ciphertext, poly[1])
  BY DEF VerifiedUpdatedSharesCombine
<1> DEFINE shares == [k \in 1 .. Len(q) |-> DecryptionShare(q[k])]
<1>1. Threshold \in Nat /\ Len(q) = Threshold /\ Increasing(q)
  BY Sizes, SelectionIncreases
<1>2. EnoughPoints(Points(q))
  BY <1>1, PointsOfIncreasing DEF EnoughPoints
<1>3. ASSUME NEW k \in 1 .. Len(q)
      PROVE  shares[k].decryption_share = Mul(Randomness, Evaluate(poly, Points(q)[k]))
  <2>1. q[k] \in Participants
    BY <1>1 DEF Increasing
  <2>2. DecryptionShare(q[k]).decryption_share
          = Mul(Randomness, Evaluate(poly, DomainPoint(q[k])))
    BY <1>1, <2>1, VerifiedKeyShare
  <2> QED BY <1>1, <2>2, PointsOfIncreasing
<1>4. Len(shares) = Len(q)
  BY <1>1
<1> HIDE DEF shares
<1>5. SharesOf(shares, Points(q), poly, Randomness)
  BY <1>1, <1>3, <1>4, PointsOfIncreasing DEF SharesOf
<1>6. ShareCombineSimple(shares, PrepareCombineSimple(Points(q))) = Mul(Randomness, poly[1])
  BY <1>2, <1>5, CiphertextFacts, SharesCombine DEF SharesInv
<1> QED BY <1>6, CiphertextFacts DEF CombinesTo, shares

-----------------------------------------------------------------------------
(***************************************************************************)
(* Recovery.                                                               *)
(***************************************************************************)

\* The updates of the participants F, added up, are values of a polynomial
\* that vanishes at the point of the lost share.
LEMMA MaskedUpdatesVanish ==
  ASSUME UpdatesInv, NEW F, F \subseteq DOMAIN updates
  PROVE  \E u \in Polynomials(Threshold) :
             /\ Evaluate(u, x_r) = 0
             /\ \A j \in Remaining :
                   SumTo(Mask(updates, F, j), SharesNum - 1) = Evaluate(u, DomainPoint(j))
<1> DEFINE m == SharesNum - 1
           f == [i \in 1 .. m |-> [j \in Remaining |->
                    IF i \in F THEN updates[i][j] ELSE 0]]
<1>1. Threshold \in Nat /\ m \in Nat /\ x_r \in Field /\ Remaining = 1 .. m
  BY Sizes DEF UpdatesInv, Remaining
<1>2. \A j \in Remaining : DomainPoints[j] = DomainPoint(j) /\ DomainPoints[j] \in Field
  BY Sizes, PointsInField
<1>3. ASSUME NEW i \in 1 .. m
      PROVE  Vanishes(f[i], DomainPoints, Remaining, Threshold, x_r)
  <2>1. CASE i \in F
    <3>1. PICK p \in Polynomials(Threshold) :
              Evaluate(p, x_r) = 0
              /\ \A j \in Remaining : updates[i][j] = Evaluate(p, DomainPoints[j])
      BY <2>1 DEF UpdatesInv, Vanishes
    <3>2. \A j \in Remaining : f[i][j] = Evaluate(p, DomainPoints[j])
      BY <2>1, <3>1
    <3> QED BY <3>1, <3>2 DEF Vanishes
  <2>2. CASE i \notin F
    <3>1. PICK p \in Polynomials(Threshold) : \A x \in Field : Evaluate(p, x) = 0
      BY <1>1, ZeroPolynomial
    <3>2. \A j \in Remaining : f[i][j] = Evaluate(p, DomainPoints[j])
      BY <1>2, <2>2, <3>1
    <3> QED BY <1>1, <3>1, <3>2 DEF Vanishes
  <2> QED BY <2>1, <2>2
<1>4. \A j \in Remaining : Mask(updates, F, j) = [i \in 1 .. m |-> f[i][j]]
  BY <1>1 DEF Mask
<1> HIDE DEF f, m
<1>5. Vanishes(Added(f, Remaining, m), DomainPoints, Remaining, Threshold, x_r)
  BY <1>1, <1>2, <1>3, UpdatesVanish
<1>6. PICK u \in Polynomials(Threshold) :
          Evaluate(u, x_r) = 0
          /\ \A j \in Remaining :
                SumTo([i \in 1 .. m |-> f[i][j]], m) = Evaluate(u, DomainPoints[j])
  BY <1>5 DEF Vanishes, Added
<1>7. \A j \in Remaining :
          SumTo(Mask(updates, F, j), SharesNum - 1) = Evaluate(u, DomainPoint(j))
  BY <1>2, <1>4, <1>6 DEF m
<1> QED BY <1>6, <1>7

\* Fragments of generation g and of the same updates give the value of its
\* polynomial at the point of the lost share.
LEMMA CoherentValue ==
  ASSUME IInv, NEW g \in 0 .. Len(refreshes), CoherentRecovery(g),
         NEW p, IsGeneration(p, g)
  PROVE  recovered[1].value = Evaluate(p, x_r)
<1>1. PICK q : ToCombine(q) /\ RecoveredFrom(q)
  BY DEF IInv, RecoveredInv, CoherentRecovery
<1> DEFINE n == Len(q)
           updated == [k \in 1 .. n |-> fragment[q[k]].value]
           F == fragment[q[1]].from
<1>2. /\ recovered[1].value
            = RecoverShareFromUpdatedPrivateShares(x_r, Points(q), updated)
      /\ recovered[1].of = {q[k] : k \in 1 .. n}
  BY <1>1 DEF RecoveredFrom
<1>3. n \in Nat /\ n >= Threshold /\ 1 \in 1 .. n
  BY <1>1, Sizes DEF ToCombine
<1>4. \A k \in 1 .. n : q[k] \in DOMAIN fragment /\ q[k] \in Remaining
                         /\ q[k] \in recovered[1].of
  BY <1>1, <1>2 DEF ToCombine, IInv, FragmentsInv
<1>5. Increasing(q)
  BY <1>1, <1>3, <1>4, Sizes DEF Increasing, ToCombine
<1>6. F \subseteq DOMAIN updates
  BY <1>3, <1>4 DEF IInv, FragmentsInv, FragmentOf
<1>7. PICK u \in Polynomials(Threshold) :
          /\ Evaluate(u, x_r) = 0
          /\ \A j \in Remaining :
                SumTo(Mask(updates, F, j), SharesNum - 1) = Evaluate(u, DomainPoint(j))
  BY <1>6, MaskedUpdatesVanish DEF IInv
<1>8. EnoughPoints(Points(q))
  BY <1>3, <1>5, PointsOfIncreasing DEF EnoughPoints
<1>9. ASSUME NEW k \in 1 .. n
      PROVE  updated[k] = Add(Evaluate(p, Points(q)[k]), Evaluate(u, Points(q)[k]))
  <2> DEFINE x == DomainPoint(q[k])
  <2>1. fragment[q[k]].gen = g /\ fragment[q[k]].from = F
    BY <1>3, <1>4 DEF CoherentRecovery
  <2>2. fragment[q[k]].value
          = Add(Generation(poly, refreshes, g, x), SumTo(Mask(updates, F, q[k]), SharesNum - 1))
    BY <1>4, <2>1 DEF IInv, FragmentsInv, FragmentOf
  <2>3. x \in Field
    BY <1>4, Sizes, PointsInField
  <2>4. Evaluate(p, x) = Generation(poly, refreshes, g, x)
    BY <2>3 DEF IsGeneration
  <2>5. SumTo(Mask(updates, F, q[k]), SharesNum - 1) = Evaluate(u, x)
    BY <1>4, <1>7
  <2>6. Points(q)[k] = x
    BY <1>5, PointsOfIncreasing
  <2> QED BY <2>2, <2>4, <2>5, <2>6
<1> HIDE DEF updated
<1>10. UpdatedValues(updated, Points(q), p, u)
  BY <1>5, <1>9, PointsOfIncreasing DEF UpdatedValues
<1>11. p \in Polynomials(Threshold) /\ x_r \in Field
  BY DEF IsGeneration, IInv, UpdatesInv
<1>12. RecoverShareFromUpdatedPrivateShares(x_r, Points(q), updated) = Evaluate(p, x_r)
  BY <1>7, <1>8, <1>10, <1>11, RecoveryGivesValue
<1> QED BY <1>2, <1>12

LEMMA RecoveryRestores == IInv => RecoveryRestoresShare
<1> SUFFICES ASSUME IInv, CoherentRecovery(gen[SharesNum]), x_r = DomainPoint(SharesNum)
             PROVE  recovered[1].value = share[SharesNum]
  BY DEF RecoveryRestoresShare
<1>1. SharesNum \in Participants /\ SharesInv
  BY Sizes DEF Participants, IInv
<1>2. gen[SharesNum] \in 0 .. Len(refreshes)
  BY <1>1 DEF SharesInv
<1>3. PICK p : IsGeneration(p, gen[SharesNum])
  BY <1>1, <1>2, GenerationPolynomial
<1>4. share[SharesNum] = Evaluate(p, DomainPoint(SharesNum))
  BY <1>1, <1>3, KeyShareValue
<1> QED BY <1>2, <1>3, <1>4, CoherentValue

LEMMA RecoveredCombines == IInv => RecoveredShareCombines
<1> DEFINE m == Threshold - 1
           new == DecryptionShareSimple(Ciphertext, SharesNum, recovered[1].value, 1)
<1> SUFFICES ASSUME IInv, NEW g \in 0 .. Len(refreshes), CoherentRecovery(g),
                    NEW q \in Selections(m),
                    \A k \in 1 .. m : gen[q[k]] = g /\ DomainPoint(q[k]) # x_r
             PROVE  ShareCombineSimple(
                        [k \in 1 .. m |-> DecryptionShare(q[k])] \o <<new>>,
                        PrepareCombineSimple(Points(q) \o <<x_r>>))
                      = SharedSecret(Ciphertext, poly[1])
  BY DEF RecoveredShareCombines
<1> DEFINE xs == Points(q) \o <<x_r>>
           made == [k \in 1 .. m |-> DecryptionShare(q[k])]
           shares == made \o <<new>>
<1>1. m \in Nat /\ m + 1 = Threshold /\ Threshold \in Nat /\ SharesInv /\ x_r \in Field
  BY Sizes DEF IInv, UpdatesInv
<1>2. Len(q) = m /\ Increasing(q)
  BY <1>1, SelectionIncreases
<1>3. PICK p : IsGeneration(p, g)
  BY <1>1, GenerationPolynomial
<1>4. recovered[1].value = Evaluate(p, x_r)
  BY <1>3, CoherentValue
<1>5. /\ Len(Points(q)) = m
      /\ \A k \in 1 .. m : Points(q)[k] = DomainPoint(q[k])
      /\ Distinct(Points(q), m)
  BY <1>2, PointsOfIncreasing
<1>6. /\ Len(xs) = Threshold /\ xs[Threshold] = x_r
      /\ \A k \in 1 .. m : xs[k] = DomainPoint(q[k]) /\ xs[k] = Points(q)[k]
  <2>1. Points(q) = [k \in 1 .. m |-> DomainPoint(q[k])]
    BY <1>2 DEF Points
  <2>2. Points(q) \in Seq({DomainPoint(q[k]) : k \in 1 .. m})
    BY <1>1, <2>1
  <2> QED BY <1>1, <1>5, <2>2
<1>7. /\ Len(shares) = Threshold /\ shares[Threshold] = new
      /\ \A k \in 1 .. m : shares[k] = DecryptionShare(q[k])
  <2>1. made \in Seq({DecryptionShare(q[k]) : k \in 1 .. m}) /\ Len(made) = m
        /\ \A k \in 1 .. m : made[k] = DecryptionShare(q[k])
    BY <1>1
  <2> HIDE DEF made, new
  <2> QED BY <1>1, <2>1
<1> HIDE DEF xs, shares
<1>8. EnoughPoints(xs)
  <2>1. \A k \in 1 .. Threshold : k = Threshold \/ k \in 1 .. m
    BY <1>1
  <2>2. \A k \in 1 .. Threshold : xs[k] \in Field
    BY <1>1, <1>5, <1>6, <2>1 DEF Distinct
  <2>3. \A k \in 1 .. m : xs[k] # x_r
    BY <1>6
  <2>4. \A k, l \in 1 .. Threshold : xs[k] = xs[l] => k = l
    BY <1>5, <1>6, <2>1, <2>3 DEF Distinct
  <2> QED BY <1>1, <1>6, <2>2, <2>4 DEF EnoughPoints, Distinct
<1>9. ASSUME NEW k \in 1 .. Threshold
      PROVE  shares[k].decryption_share = Mul(Randomness, Evaluate(p, xs[k]))
  <2>1. CASE k = Threshold
    BY <1>1, <1>4, <1>6, <1>7, <2>1, ShareValue
  <2>2. CASE k \in 1 .. m
    <3>1. q[k] \in Participants /\ IsGeneration(p, gen[q[k]])
      BY <1>2, <1>3, <2>2 DEF Increasing
    <3>2. share[q[k]] = Evaluate(p, DomainPoint(q[k]))
      BY <1>1, <3>1, KeyShareValue
    <3> QED BY <1>1, <1>6, <1>7, <2>2, <3>2, ShareValue DEF DecryptionShare
  <2> QED BY <1>1, <2>1, <2>2
<1>10. SharesOf(shares, xs, p, Randomness)
  BY <1>6, <1>7, <1>9 DEF SharesOf
<1>11. p \in Polynomials(Threshold) /\ p[1] = poly[1] /\ Randomness \in Field
  BY <1>1, <1>3, CiphertextFacts DEF IsGeneration
<1>12. ShareCombineSimple(shares, PrepareCombineSimple(xs)) = Mul(Randomness, p[1])
  BY <1>8, <1>10, <1>11, SharesCombine
<1>13. SharedSecret(Ciphertext, poly[1]) = Mul(Randomness, poly[1])
  BY <1>1, CiphertextFacts
<1> QED BY <1>11, <1>12, <1>13 DEF shares, xs

-----------------------------------------------------------------------------
(***************************************************************************)
(* The invariant.                                                          *)
(***************************************************************************)

LEMMA InvInit == Init => IInv
<1> SUFFICES ASSUME Init PROVE IInv
  OBVIOUS
<1>1. poly \in Polynomials(Threshold) /\ refreshes = <<>> /\ Len(refreshes) = 0
  BY UpdatesAssumption DEF Init
<1>2. \A x \in Field : Generation(poly, refreshes, 0, x) = Evaluate(poly, x)
  <2> TAKE x \in Field
  <2>1. Evaluate(poly, x) \in Field
    BY <1>1, Sizes, EvaluateInField
  <2> QED BY <2>1, SumUnfolds, AddLaws DEF Generation
<1>3. SharesInv
  <2>1. \A i \in Participants : gen[i] = 0
        /\ Evaluate(poly, DomainPoint(i)) = Generation(poly, refreshes, gen[i], DomainPoint(i))
    BY <1>2, PointsInField DEF Init
  <2>2. share = [i \in Participants |->
                    Generation(poly, refreshes, gen[i], DomainPoint(i))]
    BY <2>1 DEF Init
  <2> QED BY <1>1, <2>2 DEF Init, SharesInv
<1>4. UpdatesInv /\ FragmentsInv /\ RecoveredInv
  BY Closed DEF Init, UpdatesInv, FragmentsInv, RecoveredInv
<1> QED BY <1>3, <1>4 DEF IInv

LEMMA StartRefreshKeeps == ASSUME IInv, StartRefresh PROVE IInv'
<1>1. PICK higher \in [1 .. Threshold - 1 -> Slopes] :
          refreshes' = Append(refreshes, MakeRandomPolynomialAt(higher, 0))
  BY DEF StartRefresh
<1> DEFINE p == MakeRandomPolynomialAt(higher, 0)
           n == Len(refreshes)
<1>2. p \in Polynomials(Threshold) /\ Evaluate(p, 0) = 0
  BY DrawnPolynomial, Closed
<1>3. UNCHANGED <<poly, share, gen, x_r, updates, fragment, recovered>>
  BY DEF StartRefresh
<1>4. refreshes \in Seq(Polynomials(Threshold)) /\ n \in Nat
  BY DEF IInv, SharesInv
<1>5. refreshes' = Append(refreshes, p)
  BY <1>1
<1> HIDE DEF p
<1>6. /\ refreshes' \in Seq(Polynomials(Threshold)) /\ Len(refreshes') = n + 1
      /\ refreshes'[n + 1] = p
      /\ \A t \in 1 .. n : refreshes'[t] = refreshes[t]
  BY <1>2, <1>4, <1>5
<1>7. ASSUME NEW g \in 0 .. n, NEW x
      PROVE  Generation(poly, refreshes, g, x) = Generation(poly, refreshes', g, x)
  <2>1. g \in Nat /\ \A t \in 1 .. g : refreshes[t] = refreshes'[t]
    BY <1>4, <1>6
  <2> QED BY <2>1, GenerationStays
<1>8. SharesInv'
  <2>1. gen' \in [Participants -> 0 .. Len(refreshes')]
    BY <1>3, <1>4, <1>6 DEF IInv, SharesInv
  <2>2. \A i \in Participants : gen[i] \in 0 .. n
    BY DEF IInv, SharesInv
  <2>3. share' = [i \in Participants |->
                     Generation(poly, refreshes', gen[i], DomainPoint(i))]
    BY <1>3, <1>7, <2>2 DEF IInv, SharesInv
  <2>4. \A t \in 1 .. Len(refreshes') : Evaluate(refreshes'[t], 0) = 0
    BY <1>2, <1>4, <1>6 DEF IInv, SharesInv
  <2> QED BY <1>3, <1>6, <2>1, <2>3, <2>4 DEF IInv, SharesInv
<1>9. FragmentsInv'
  <2>1. ASSUME NEW j \in DOMAIN fragment PROVE FragmentOf(fragment[j], j, updates)'
    <3>1. FragmentOf(fragment[j], j, updates)
      BY DEF IInv, FragmentsInv
    <3> QED BY <1>3, <1>4, <1>6, <1>7, <3>1 DEF FragmentOf
  <2> QED BY <1>3, <2>1 DEF IInv, FragmentsInv
<1>10. UpdatesInv' /\ RecoveredInv'
  BY <1>3 DEF IInv, UpdatesInv, RecoveredInv, ToCombine, RecoveredFrom
<1> QED BY <1>8, <1>9, <1>10 DEF IInv

LEMMA RefreshStepKeeps ==
  ASSUME IInv, NEW i \in Participants, Refresh(i)
  PROVE  IInv'
<1> DEFINE g == gen[i]
           x == DomainPoint(i)
<1>1. UNCHANGED <<poly, refreshes, x_r, updates, fragment, recovered>>
  BY DEF Refresh
<1>2. SharesInv /\ x \in Field
  BY PointsInField DEF IInv
<1>3. g \in 0 .. Len(refreshes) - 1 /\ g + 1 \in 0 .. Len(refreshes)
  BY <1>2 DEF Refresh, SharesInv
<1>4. share[i] = Generation(poly, refreshes, g, x)
  BY <1>2 DEF SharesInv
<1>5. share' = [share EXCEPT ![i] = Add(share[i], Evaluate(refreshes[g + 1], x))]
      /\ gen' = [gen EXCEPT ![i] = g + 1]
  BY DEF Refresh, RefreshPrivateKeyShare
<1>6. share' = [share EXCEPT ![i] = Generation(poly, refreshes, g + 1, x)]
  BY <1>2, <1>3, <1>4, <1>5, GenerationStep
<1>7. gen \in [Participants -> 0 .. Len(refreshes)]
      /\ share = [k \in Participants |->
                     Generation(poly, refreshes, gen[k], DomainPoint(k))]
  BY <1>2 DEF SharesInv
<1>8. /\ gen' \in [Participants -> 0 .. Len(refreshes)]
      /\ share' = [k \in Participants |->
                      Generation(poly, refreshes, gen'[k], DomainPoint(k))]
  BY <1>3, <1>5, <1>6, <1>7
<1>9. SharesInv'
  BY <1>1, <1>2, <1>8 DEF SharesInv
<1>10. UpdatesInv' /\ FragmentsInv' /\ RecoveredInv'
  BY <1>1 DEF IInv, UpdatesInv, FragmentsInv, FragmentOf, RecoveredInv, ToCombine,
              RecoveredFrom
<1> QED BY <1>9, <1>10 DEF IInv

\* Nothing was made for a recovery before it starts.
LEMMA StartRecoveryKeeps == ASSUME IInv, StartRecovery PROVE IInv'
<1>1. x_r = 0 /\ x_r' \in RecoveryPoints
      /\ UNCHANGED <<poly, share, refreshes, gen, updates, fragment, recovered>>
  BY DEF StartRecovery
<1>2. DOMAIN updates = {} /\ DOMAIN fragment = {}
  BY <1>1 DEF IInv, UpdatesInv
<1>3. x_r' \in Field /\ x_r' # 0
  BY <1>1, UpdatesAssumption
<1>4. UpdatesInv'
  BY <1>1, <1>2, <1>3 DEF UpdatesInv
<1>5. RecoveredInv'
  <2>1. \A q : ~ToCombine(q)
    <3> SUFFICES ASSUME NEW q, ToCombine(q) PROVE FALSE
      OBVIOUS
    <3>1. 1 \in 1 .. Len(q)
      BY Sizes DEF ToCombine
    <3> QED BY <1>2, <3>1 DEF ToCombine
  <2>2. recovered = <<>>
    BY <2>1 DEF IInv, RecoveredInv
  <2> QED BY <1>1, <2>2 DEF RecoveredInv
<1>6. SharesInv' /\ FragmentsInv'
  BY <1>1 DEF IInv, SharesInv, FragmentsInv, FragmentOf
<1> QED BY <1>4, <1>5, <1>6 DEF IInv

\* Updates that arrive later are not in the fragments made before.
LEMMA PrepareUpdatesKeeps ==
  ASSUME IInv, NEW i \in Remaining, PrepareUpdates(i)
  PROVE  IInv'
<1> DEFINE points == [j \in Remaining |-> DomainPoint(j)]
<1>1. PICK higher \in [1 .. Threshold - 1 -> Slopes] :
          updates' = [k \in DOMAIN updates \cup {i} |->
                         IF k = i
                         THEN PrepareShareUpdatesForRecovery(points,
                                  MakeRandomPolynomialAt(higher, x_r))
                         ELSE updates[k]]
  BY DEF PrepareUpdates
<1> DEFINE p == MakeRandomPolynomialAt(higher, x_r)
           new == PrepareShareUpdatesForRecovery(points, p)
<1>2. /\ x_r # 0 /\ i \notin DOMAIN updates
      /\ UNCHANGED <<poly, share, refreshes, gen, x_r, fragment, recovered>>
  BY DEF PrepareUpdates
<1>3. p \in Polynomials(Threshold) /\ Evaluate(p, x_r) = 0
  BY DrawnPolynomial DEF IInv, UpdatesInv
<1>4. Vanishes(new, DomainPoints, Remaining, Threshold, x_r)
  <2> HIDE DEF p
  <2>1. \A j \in Remaining : new[j] = Evaluate(p, DomainPoints[j])
    BY DEF PrepareShareUpdatesForRecovery, DomainPoint
  <2> QED BY <1>3, <2>1 DEF Vanishes
<1>5. updates' = [k \in DOMAIN updates \cup {i} |-> IF k = i THEN new ELSE updates[k]]
  BY <1>1
<1> HIDE DEF new
<1>6. /\ DOMAIN updates' = DOMAIN updates \cup {i} /\ updates'[i] = new
      /\ \A k \in DOMAIN updates : updates'[k] = updates[k]
  BY <1>2, <1>5
<1>7. UpdatesInv'
  <2>1. \A k \in DOMAIN updates' :
            Vanishes(updates'[k], DomainPoints, Remaining, Threshold, x_r)
    BY <1>4, <1>6 DEF IInv, UpdatesInv
  <2> QED BY <1>2, <1>6, <2>1 DEF IInv, UpdatesInv
<1>8. FragmentsInv'
  <2>1. ASSUME NEW j \in DOMAIN fragment
        PROVE  FragmentOf(fragment[j], j, updates)'
    <3>1. FragmentOf(fragment[j], j, updates)
      BY DEF IInv, FragmentsInv
    <3>2. fragment[j].from \subseteq DOMAIN updates
      BY <3>1 DEF FragmentOf
    <3>3. Mask(updates, fragment[j].from, j) = Mask(updates', fragment[j].from, j)
      BY <1>6, <3>2 DEF Mask
    <3> QED BY <1>2, <1>6, <3>1, <3>2, <3>3 DEF FragmentOf
  <2> QED BY <1>2, <2>1 DEF IInv, FragmentsInv
<1>9. SharesInv' /\ RecoveredInv'
  BY <1>2 DEF IInv, SharesInv, RecoveredInv, ToCombine, RecoveredFrom
<1> QED BY <1>7, <1>8, <1>9 DEF IInv

LEMMA UpdateShareKeeps ==
  ASSUME IInv, NEW j \in Remaining, UpdateShare(j)
  PROVE  IInv'
<1> DEFINE mask == Mask(updates, DOMAIN updates, j)
           new == [value |-> UpdateShareForRecovery(share[j], mask),
                   from |-> DOMAIN updates, gen |-> gen[j]]
<1>1. /\ x_r # 0 /\ j \notin DOMAIN fragment
      /\ UNCHANGED <<poly, share, refreshes, gen, x_r, updates, recovered>>
  BY DEF UpdateShare
<1>2. fragment' = [k \in DOMAIN fragment \cup {j} |-> IF k = j THEN new ELSE fragment[k]]
  BY DEF UpdateShare, Mask
<1>3. j \in Participants /\ gen[j] \in 0 .. Len(refreshes)
      /\ share[j] = Generation(poly, refreshes, gen[j], DomainPoint(j))
  BY Sizes DEF IInv, SharesInv
<1>4. new.value = Add(Generation(poly, refreshes, gen[j], DomainPoint(j)),
                      SumTo(mask, SharesNum - 1))
  <2>1. Len(mask) = SharesNum - 1
    BY Sizes DEF Mask, Remaining
  <2> QED BY <1>3, <2>1 DEF UpdateShareForRecovery
<1>5. FragmentOf(new, j, updates)
  BY <1>3, <1>4 DEF FragmentOf
<1> HIDE DEF new
<1>6. /\ DOMAIN fragment' = DOMAIN fragment \cup {j} /\ fragment'[j] = new
      /\ \A k \in DOMAIN fragment : fragment'[k] = fragment[k]
  BY <1>1, <1>2
<1>7. FragmentsInv'
  <2>1. \A k \in DOMAIN fragment' : FragmentOf(fragment'[k], k, updates)
    BY <1>5, <1>6 DEF IInv, FragmentsInv
  <2>2. \A k \in DOMAIN fragment' : FragmentOf(fragment[k], k, updates)'
    BY <1>1, <2>1 DEF FragmentOf
  <2> QED BY <1>6, <2>2 DEF IInv, FragmentsInv
<1>8. RecoveredInv'
  <2>1. CASE recovered = <<>>
    BY <1>1, <2>1 DEF RecoveredInv
  <2>2. CASE \E q : ToCombine(q) /\ RecoveredFrom(q)
    <3>1. PICK q : ToCombine(q) /\ RecoveredFrom(q)
      BY <2>2
    <3>2. ToCombine(q)'
      BY <1>6, <3>1 DEF ToCombine
    <3>3. [k \in 1 .. Len(q) |-> fragment'[q[k]].value]
            = [k \in 1 .. Len(q) |-> fragment[q[k]].value]
      BY <1>6, <3>1 DEF ToCombine
    <3>4. RecoveredFrom(q)'
      BY <1>1, <3>1, <3>3 DEF RecoveredFrom
    <3> QED BY <3>2, <3>4 DEF RecoveredInv
  <2> QED BY <2>1, <2>2 DEF IInv, RecoveredInv
<1>9. SharesInv' /\ UpdatesInv'
  BY <1>1 DEF IInv, SharesInv, UpdatesInv
<1> QED BY <1>7, <1>8, <1>9 DEF IInv

LEMMA RecoverKeeps == ASSUME IInv, Recover PROVE IInv'
<1>1. PICK q \in UNION {[1 .. n -> DOMAIN fragment] : n \in Threshold .. SharesNum} :
          /\ \A k, l \in 1 .. Len(q) : k < l => q[k] < q[l]
          /\ recovered' = <<[value |-> RecoverShareFromUpdatedPrivateShares(
                                x_r, Points(q),
                                [k \in 1 .. Len(q) |-> fragment[q[k]].value]),
                             of |-> {q[k] : k \in 1 .. Len(q)}]>>
  BY DEF Recover
<1>2. UNCHANGED <<poly, share, refreshes, gen, x_r, updates, fragment>>
  BY DEF Recover
<1>3. PICK n \in Threshold .. SharesNum : q \in [1 .. n -> DOMAIN fragment]
  BY <1>1
<1>4. Len(q) = n /\ n \in Nat /\ n >= Threshold
  <2>1. n \in Nat /\ n >= Threshold
    BY Sizes
  <2>2. q \in Seq(DOMAIN fragment)
    BY <1>3, <2>1
  <2> QED BY <1>3, <2>1, <2>2
<1>5. ToCombine(q)' /\ RecoveredFrom(q)'
  BY <1>1, <1>2, <1>3, <1>4 DEF ToCombine, RecoveredFrom
<1>6. SharesInv' /\ UpdatesInv' /\ FragmentsInv'
  BY <1>2 DEF IInv, SharesInv, UpdatesInv, FragmentsInv, FragmentOf
<1> QED BY <1>5, <1>6 DEF IInv, RecoveredInv

LEMMA InvStep == IInv /\ [Next]_vars => IInv'
<1> SUFFICES ASSUME IInv, [Next]_vars PROVE IInv'
  OBVIOUS
<1>1. CASE UNCHANGED vars
  <2>1. SharesInv'
    BY <1>1 DEF vars, IInv, SharesInv
  <2>2. UpdatesInv' /\ FragmentsInv'
    BY <1>1 DEF vars, IInv, UpdatesInv, FragmentsInv, FragmentOf
  <2>3. RecoveredInv'
    BY <1>1 DEF vars, IInv, RecoveredInv, ToCombine, RecoveredFrom
  <2> QED BY <2>1, <2>2, <2>3 DEF IInv
<1> QED BY <1>1, StartRefreshKeeps, RefreshStepKeeps, StartRecoveryKeeps,
           PrepareUpdatesKeeps, UpdateShareKeeps, RecoverKeeps DEF Next

LEMMA Inductive == Spec => []IInv
<1>1. Init => IInv
  BY InvInit
<1>2. IInv /\ [Next]_vars => IInv'
  BY InvStep
<1> QED BY <1>1, <1>2, PTL DEF Spec

-----------------------------------------------------------------------------
(***************************************************************************)
(* refresh_private_key_share: participants that have applied the same      *)
(* refreshes decrypt what was encrypted before any of them, however far    *)
(* the others are.                                                         *)
(***************************************************************************)
THEOREM RefreshedSharesGiveSecret == Spec => []RefreshKeepsSecret
<1>1. IInv => RefreshKeepsSecret
  BY RefreshKeeps DEF IInv
<1> QED BY <1>1, Inductive, PTL

(***************************************************************************)
(* DecryptionShareSimple::verify with the contexts of the setup: what      *)
(* passes combines to the secret, refreshed in the meantime or not.        *)
(***************************************************************************)
THEOREM VerifiedSharesGiveSecret == Spec => []VerifiedUpdatedSharesCombine
<1>1. IInv => VerifiedUpdatedSharesCombine
  BY VerifiedCombine DEF IInv
<1> QED BY <1>1, Inductive, PTL

(***************************************************************************)
(* A share recovered at any point from fragments of one generation that    *)
(* used the same updates decrypts with the others of that generation.      *)
(***************************************************************************)
THEOREM RecoveredSharesGiveSecret == Spec => []RecoveredShareCombines
BY Inductive, RecoveredCombines, PTL

(***************************************************************************)
(* recover_share_from_updated_private_shares at the point of the lost      *)
(* share gives that share.                                                 *)
(***************************************************************************)
THEOREM RecoveryRestoresLostShare == Spec => []RecoveryRestoresShare
BY Inductive, RecoveryRestores, PTL
=============================================================================
