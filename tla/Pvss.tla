-------------------------------- MODULE Pvss --------------------------------
(***************************************************************************)
(* The arithmetic of ferveo/src/vss/pvss.rs: validators deal transcripts   *)
(* of secret polynomials, the transcripts are aggregated, and validators   *)
(* decrypt their private key shares from the aggregate and use them to     *)
(* decrypt a ciphertext made for the final key, to refresh them, and to    *)
(* recover one that is lost.  This is the arithmetic that PvDkg abstracts  *)
(* to coeff0, sigma and consistent.                                        *)
(***************************************************************************)
EXTENDS Refresh

CONSTANTS
    NumValidators,  \* the length of `validators`, shares_num aside
    SessionKeys,    \* the vectors of decryption keys to consider, not 0
    Coefficients,   \* the values of the random coefficients to consider
    MaxDealers,     \* bound: dealers
    Randomness,     \* the values of encrypt's r to consider
    Damage          \* whether one dealt share may be wrong

\* One share per validator: Pvss::new indexes the evaluations over the domain
\* with the position of each, and nothing compares their number to shares_num.
ASSUME PvssAssumption ==
    /\ NumValidators \in 1 .. Len(DomainPoints)
    /\ SessionKeys \subseteq [1 .. NumValidators -> 1 .. P - 1]
    /\ Coefficients \subseteq Field
    /\ MaxDealers \in 1 .. NumValidators
    /\ Randomness \subseteq Field
    /\ Damage \in BOOLEAN

VARIABLES
    dk,   \* dk[i]: validator i's session decryption key
    vss   \* the transcripts received, by dealer

vars == <<dk, vss>>

\* Keypair::public, [dk]H.
EncryptionKey(i) == dk[i]

-----------------------------------------------------------------------------
\* Seeded fault: the last validator gets no share.
PvssNewOneShort(phi) ==
    [coeffs |-> phi,
     shares |-> [i \in 1 .. NumValidators - 1 |->
                    Mul(Evaluate(phi, DomainPoint(i)), EncryptionKey(i))],
     sigma |-> phi[1]]

\* Pvss::new for the polynomial phi, whose constant term is the secret.
PvssNew(phi) ==
    [coeffs |-> phi,
     shares |-> [i \in 1 .. NumValidators |->
                    Mul(Evaluate(phi, DomainPoint(i)), EncryptionKey(i))],
     sigma |-> phi[1]]

VerifyOptimistic(pvss) == Pairing(pvss.coeffs[1], 1) = Pairing(1, pvss.sigma)

\* e(G, Y_i) = e(A_i, ek_i) for the commitment A at every validator's point.
VerifyFull(pvss) ==
    \A i \in 1 .. NumValidators :
        Pairing(1, pvss.shares[i])
            = Pairing(Evaluate(pvss.coeffs, DomainPoint(i)), EncryptionKey(i))

\* Adds sequences of the same length, the vectors f[d] of the dealers d.
SumOver(D, f, n) ==
    [i \in 1 .. n |->
        SumTo([d \in 1 .. NumValidators |-> IF d \in D THEN f[d][i] ELSE 0],
              NumValidators)]

\* Seeded fault: the first transcript, which starts the sums, is skipped.
AggregateOfRest(D) ==
    LET rest == D \ {CHOOSE d \in D : \A e \in D : d <= e}
    IN  [coeffs |-> SumOver(D, [d \in D |-> vss[d].coeffs], Threshold),
         shares |-> SumOver(rest, [d \in D |-> vss[d].shares], NumValidators),
         sigma |-> SumOver(D, [d \in D |-> <<vss[d].sigma>>], 1)[1]]

\* Seeded fault: the proof of knowledge of the first transcript is kept.
AggregateWithFirstSigma(D) ==
    [coeffs |-> SumOver(D, [d \in D |-> vss[d].coeffs], Threshold),
     shares |-> SumOver(D, [d \in D |-> vss[d].shares], NumValidators),
     sigma |-> vss[CHOOSE d \in D : \A e \in D : d <= e].sigma]

\* aggregate: coefficients, shares and sigma added up over the transcripts of
\* the dealers D.
AggregateOf(D) ==
    [coeffs |-> SumOver(D, [d \in D |-> vss[d].coeffs], Threshold),
     shares |-> SumOver(D, [d \in D |-> vss[d].shares], NumValidators),
     sigma |-> SumOver(D, [d \in D |-> <<vss[d].sigma>>], 1)[1]]

\* final_key: the sum of the F_0.
FinalKey ==
    SumTo([d \in 1 .. NumValidators |->
              IF d \in DOMAIN vss THEN vss[d].coeffs[1] ELSE 0], NumValidators)

\* Seeded fault: multiplied by the key instead of its inverse.
MultiplyPrivateKeyShare(pvss, key, i) == Mul(pvss.shares[i], key)

DecryptPrivateKeyShare(pvss, key, i) == Mul(pvss.shares[i], Inv(key))

MakeDecryptionShareSimple(pvss, c, i) ==
    DecryptionShareSimple(c, i, DecryptPrivateKeyShare(pvss, dk[i], i), dk[i])

\* Seeded fault: the update is added to the share before it is decrypted.
RefreshEncryptedShare(pvss, c, i, polynomial) ==
    LET y == RefreshPrivateKeyShare(DomainPoint(i), polynomial, pvss.shares[i])
    IN  DecryptionShareSimple(c, i, Mul(y, Inv(dk[i])), dk[i])

RefreshDecryptionShare(pvss, c, i, polynomial) ==
    LET z == RefreshPrivateKeyShare(DomainPoint(i), polynomial,
                                    DecryptPrivateKeyShare(pvss, dk[i], i))
    IN  DecryptionShareSimple(c, i, z, dk[i])

\* Seeded fault: the updates are added to the share before it is decrypted.
UpdateEncryptedShare(pvss, i, updates) ==
    Mul(UpdateShareForRecovery(pvss.shares[i], updates), Inv(dk[i]))

UpdatePrivateKeyShareForRecovery(pvss, i, updates) ==
    UpdateShareForRecovery(DecryptPrivateKeyShare(pvss, dk[i], i), updates)

-----------------------------------------------------------------------------
Init ==
    /\ dk \in SessionKeys
    /\ vss = <<>>

Consistent == \A d \in DOMAIN vss : VerifyFull(vss[d])

Received(d, pvss) ==
    vss' = [e \in DOMAIN vss \cup {d} |-> IF e = d THEN pvss ELSE vss[e]]

\* Dealer d deals for a polynomial with its secret as constant term.
Deal(d) ==
    /\ d \notin DOMAIN vss
    /\ Cardinality(DOMAIN vss) < MaxDealers
    /\ \E phi \in [1 .. Threshold -> Coefficients] :
          Received(d, PvssNew(phi))
    /\ UNCHANGED dk

\* Dealer d gets one validator's share wrong; at most one dealer does.
DealWrongShare(d) ==
    /\ Damage /\ Consistent
    /\ d \notin DOMAIN vss
    /\ Cardinality(DOMAIN vss) < MaxDealers
    /\ \E phi \in [1 .. Threshold -> Coefficients], i \in 1 .. NumValidators :
          Received(d, [PvssNew(phi) EXCEPT !.shares[i] = Add(@, 1)])
    /\ UNCHANGED dk

Next == \E d \in 1 .. NumValidators : Deal(d) \/ DealWrongShare(d)

Spec == Init /\ [][Next]_vars

-----------------------------------------------------------------------------
(***************************************************************************)
(* Properties, of the aggregate of everything received.                    *)
(***************************************************************************)
Aggregate == AggregateOf(DOMAIN vss)

\* Threshold different validators, in any order.
Selections ==
    {q \in [1 .. Threshold -> 1 .. NumValidators] :
        \A k, l \in 1 .. Threshold : q[k] = q[l] => k = l}

\* Keys and transcripts have their shapes.
TypeOK ==
    /\ dk \in [1 .. NumValidators -> 1 .. P - 1]
    /\ \A d \in DOMAIN vss :
          /\ d \in 1 .. NumValidators
          /\ vss[d].coeffs \in Polynomials(Threshold)
          /\ vss[d].shares \in [1 .. NumValidators -> Field]
          /\ vss[d].sigma \in Field

\* verify_full of the aggregate tells whether the shares of all transcripts
\* match their commitments: the sum of consistent transcripts passes, and one
\* wrong share among them makes it fail.  (PvDkg models this as consistent;
\* verify_aggregation computes it and does not use it.)
FullCheckOfAggregate ==
    DOMAIN vss # {} => (VerifyFull(Aggregate) <=> Consistent)

\* The aggregate carries the final key and a proof of knowledge for it.
AggregateIsOfFinalKey ==
    DOMAIN vss # {} =>
        /\ Aggregate.coeffs[1] = FinalKey
        /\ VerifyOptimistic(Aggregate)

\* Each validator's decryption share passes DecryptionShareSimple::verify
\* against the aggregate, and any Threshold of them combine to the secret of
\* a ciphertext made for the final key: the shares of different dealers, each
\* encrypted to the validator's session key, add up to shares of the sum.
AggregateDecrypts ==
    DOMAIN vss # {} /\ Consistent =>
        \A r \in Randomness :
            LET c == Encrypt("message", <<"aad">>, FinalKey, r)
                share == [i \in 1 .. NumValidators |->
                             MakeDecryptionShareSimple(Aggregate, c, i)]
            IN  /\ \A i \in 1 .. NumValidators :
                      VerifyShare(share[i], Aggregate.shares[i],
                                  EncryptionKey(i), c)
                /\ \A q \in Selections :
                      ShareCombineSimple(
                          [k \in 1 .. Threshold |-> share[q[k]]],
                          PrepareCombineSimple(
                              [k \in 1 .. Threshold |-> DomainPoint(q[k])]))
                      = SharedSecret(c, FinalKey)

\* The random coefficients of an update polynomial.
Updates == [1 .. Threshold - 1 -> Coefficients]

PointsOf(q) == [k \in 1 .. Len(q) |-> DomainPoint(q[k])]

\* Any Threshold validators that refresh their shares of the aggregate by one
\* polynomial with a zero at 0 still decrypt what was encrypted for the final
\* key.  The aggregate is not refreshed with them: a refreshed share verifies
\* against it only if the update vanishes at the validator's point, unless
\* the commitment is zero.
RefreshedSharesDecrypt ==
    DOMAIN vss # {} /\ Consistent =>
        \A r \in Randomness, higher \in Updates :
            LET c == Encrypt("message", <<"aad">>, FinalKey, r)
                update == MakeRandomPolynomialAt(higher, 0)
                share == [i \in 1 .. NumValidators |->
                             RefreshDecryptionShare(Aggregate, c, i, update)]
            IN  /\ \A q \in Selections :
                      ShareCombineSimple([k \in 1 .. Threshold |-> share[q[k]]],
                                         PrepareCombineSimple(PointsOf(q)))
                      = SharedSecret(c, FinalKey)
                /\ \A i \in 1 .. NumValidators :
                      r # 0 /\ VerifyShare(share[i], Aggregate.shares[i],
                                           EncryptionKey(i), c)
                      => Evaluate(update, DomainPoint(i)) = 0

\* Threshold validators recover the private key share that another one lost:
\* each prepares updates that vanish at the lost point and adds the updates it
\* receives to its share of the aggregate, and interpolating the results at
\* that point gives the share the lost session key would decrypt.
RecoveredFromAggregate ==
    DOMAIN vss # {} /\ Consistent =>
        \A q \in Selections, lost \in 1 .. NumValidators,
           higher \in [1 .. Threshold -> Updates] :
            (\A k \in 1 .. Threshold : q[k] # lost) =>
            LET deltas == [k \in 1 .. Threshold |->
                              PrepareShareUpdatesForRecovery(PointsOf(q),
                                  MakeRandomPolynomialAt(higher[k],
                                                         DomainPoint(lost)))]
                updated == [j \in 1 .. Threshold |->
                               UpdatePrivateKeyShareForRecovery(Aggregate, q[j],
                                   [k \in 1 .. Threshold |-> deltas[k][j]])]
            IN  RecoverShareFromUpdatedPrivateShares(DomainPoint(lost),
                                                     PointsOf(q), updated)
                = DecryptPrivateKeyShare(Aggregate, dk[lost], lost)
=============================================================================
