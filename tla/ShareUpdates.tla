---------------------------- MODULE ShareUpdates ----------------------------
(***************************************************************************)
(* Participants that hold private key shares refresh them with polynomials *)
(* of a dealer, each at its own pace, and recover a share that one of them *)
(* lost: every other one prepares updates for all of them, adds the        *)
(* updates that have reached it to its share, and the results are          *)
(* interpolated at the point of the new share.  The code has the           *)
(* functions; who calls them when, and that messages may be late or        *)
(* missing, is the participants' side (tests of tpke/src/lib.rs, 602-887). *)
(***************************************************************************)
EXTENDS Refresh

CONSTANTS
    SecretPolynomials, \* the polynomials of setup_simple to consider
    Slopes,          \* the random coefficients of the others to consider
    Keys,            \* Keys[i]: the validator key of participant i
    Randomness,      \* encrypt's r
    RecoveryPoints,  \* the points at which a share may be recovered
    MaxRefreshes     \* bound: polynomials of the dealer

ASSUME UpdatesAssumption ==
    /\ Threshold >= 2
    /\ DomainSizeFor(SharesNum) = SharesNum
    /\ SecretPolynomials \subseteq Polynomials(Threshold)
    /\ Slopes \subseteq Field
    /\ Randomness \in 1 .. P - 1
    /\ \A i \in 1 .. SharesNum : Keys[i] \in 1 .. P - 1
    /\ RecoveryPoints \subseteq Field \ {0}
    /\ MaxRefreshes \in Nat

VARIABLES
    poly,       \* the secret polynomial of setup_simple
    share,      \* share[i]: the private key share i holds
    refreshes,  \* the dealer's polynomials, in order
    gen,        \* gen[i]: how many of them i has applied
    x_r,        \* the point of the share under recovery, or 0
    updates,    \* updates[i][j]: what i prepared for j, once it has
    fragment,   \* what j made of its share and of which updates
    recovered   \* the recovered share and the fragments used

vars == <<poly, share, refreshes, gen, x_r, updates, fragment, recovered>>

Participants == 1 .. SharesNum

\* The last participant is the one whose share is lost.
Remaining == 1 .. SharesNum - 1

Points(q) == [k \in 1 .. Len(q) |-> DomainPoint(q[k])]

Init ==
    /\ poly \in SecretPolynomials
    /\ share = [i \in Participants |-> Evaluate(poly, DomainPoint(i))]
    /\ refreshes = <<>>
    /\ gen = [i \in Participants |-> 0]
    /\ x_r = 0
    /\ updates = <<>>
    /\ fragment = <<>>
    /\ recovered = <<>>

\* The dealer draws a polynomial with value 0 at 0.
StartRefresh ==
    /\ Len(refreshes) < MaxRefreshes
    /\ \E higher \in [1 .. Threshold - 1 -> Slopes] :
          refreshes' = Append(refreshes, MakeRandomPolynomialAt(higher, 0))
    /\ UNCHANGED <<poly, share, gen, x_r, updates, fragment, recovered>>

\* i applies the next one; the new share takes the place of the old.
Refresh(i) ==
    /\ gen[i] < Len(refreshes)
    /\ share' = [share EXCEPT ![i] =
          RefreshPrivateKeyShare(DomainPoint(i), refreshes[gen[i] + 1], @)]
    /\ gen' = [gen EXCEPT ![i] = @ + 1]
    /\ UNCHANGED <<poly, refreshes, x_r, updates, fragment, recovered>>

StartRecovery ==
    /\ x_r = 0
    /\ x_r' \in RecoveryPoints
    /\ UNCHANGED <<poly, share, refreshes, gen, updates, fragment, recovered>>

PrepareUpdates(i) ==
    /\ x_r # 0
    /\ i \notin DOMAIN updates
    /\ \E higher \in [1 .. Threshold - 1 -> Slopes] :
          LET new == PrepareShareUpdatesForRecovery(
                         [j \in Remaining |-> DomainPoint(j)],
                         MakeRandomPolynomialAt(higher, x_r))
          IN  updates' = [k \in DOMAIN updates \cup {i} |->
                             IF k = i THEN new ELSE updates[k]]
    /\ UNCHANGED <<poly, share, refreshes, gen, x_r, fragment, recovered>>

\* j updates its share with the updates there are by now; later ones miss it.
UpdateShare(j) ==
    /\ x_r # 0
    /\ j \notin DOMAIN fragment
    /\ LET sum == UpdateShareForRecovery(share[j],
                     [i \in Remaining |->
                         IF i \in DOMAIN updates THEN updates[i][j] ELSE 0])
           new == [value |-> sum, from |-> DOMAIN updates, gen |-> gen[j]]
       IN  fragment' = [k \in DOMAIN fragment \cup {j} |->
                           IF k = j THEN new ELSE fragment[k]]
    /\ UNCHANGED <<poly, share, refreshes, gen, x_r, updates, recovered>>

\* At least a threshold of the fragments are combined.
Recover ==
    /\ recovered = <<>>
    /\ \E q \in UNION {[1 .. n -> DOMAIN fragment] : n \in Threshold .. SharesNum} :
          /\ \A k, l \in 1 .. Len(q) : k < l => q[k] < q[l]
          /\ recovered' = <<[value |-> RecoverShareFromUpdatedPrivateShares(
                                x_r, Points(q),
                                [k \in 1 .. Len(q) |-> fragment[q[k]].value]),
                             of |-> {q[k] : k \in 1 .. Len(q)}]>>
    /\ UNCHANGED <<poly, share, refreshes, gen, x_r, updates, fragment>>

Next ==
    \/ StartRefresh
    \/ \E i \in Participants : Refresh(i)
    \/ StartRecovery
    \/ \E i \in Remaining : PrepareUpdates(i) \/ UpdateShare(i)
    \/ Recover

Spec == Init /\ [][Next]_vars

-----------------------------------------------------------------------------
(***************************************************************************)
(* Properties.                                                             *)
(***************************************************************************)
Ciphertext == Encrypt("message", <<"aad">>, poly[1], Randomness)

DecryptionShare(i) == DecryptionShareSimple(Ciphertext, i, share[i], Keys[i])

\* Sequences of n different participants, in increasing order.
Selections(n) ==
    {q \in [1 .. n -> Participants] : \A k, l \in 1 .. n : k < l => q[k] < q[l]}

CombinesTo(q) ==
    ShareCombineSimple([k \in 1 .. Len(q) |-> DecryptionShare(q[k])],
                       PrepareCombineSimple(Points(q)))

\* Participants that have applied the same refreshes, whatever the others
\* have done, can still decrypt what was encrypted before.
RefreshKeepsSecret ==
    \A q \in Selections(Threshold) :
        (\A k, l \in 1 .. Threshold : gen[q[k]] = gen[q[l]]) =>
            CombinesTo(q) = SharedSecret(Ciphertext, poly[1])

\* DecryptionShareSimple::verify tells generations apart: decryption shares
\* that pass it against the contexts of the setup combine to the secret, also
\* when some of their makers have refreshed.
VerifiedUpdatedSharesCombine ==
    \A q \in Selections(Threshold) :
        (\A k \in 1 .. Threshold :
            VerifyShare(DecryptionShare(q[k]),
                        Mul(Evaluate(poly, DomainPoint(q[k])), Keys[q[k]]),
                        Keys[q[k]], Ciphertext)) =>
            CombinesTo(q) = SharedSecret(Ciphertext, poly[1])

\* The fragments used were made from the same updates and generation g.
CoherentRecovery(g) ==
    /\ recovered # <<>>
    /\ \A j, k \in recovered[1].of : fragment[j].from = fragment[k].from
    /\ \A j \in recovered[1].of : fragment[j].gen = g

\* A recovered share decrypts together with the shares of any Threshold - 1
\* others of the generation it was recovered in, at whatever point it is,
\* even if participants missed the same late updates.
RecoveredShareCombines ==
    \A g \in 0 .. Len(refreshes) : CoherentRecovery(g) =>
        \A q \in Selections(Threshold - 1) :
            (\A k \in 1 .. Threshold - 1 :
                gen[q[k]] = g /\ DomainPoint(q[k]) # x_r) =>
                ShareCombineSimple(
                    [k \in 1 .. Threshold - 1 |-> DecryptionShare(q[k])] \o
                    <<DecryptionShareSimple(Ciphertext, SharesNum,
                                            recovered[1].value, 1)>>,
                    PrepareCombineSimple(Points(q) \o <<x_r>>))
                = SharedSecret(Ciphertext, poly[1])

\* Recovery at the point of the lost share restores that share, if its holder
\* had applied the same refreshes as those who recovered it.
RecoveryRestoresShare ==
    CoherentRecovery(gen[SharesNum]) /\ x_r = DomainPoint(SharesNum) =>
        recovered[1].value = share[SharesNum]
=============================================================================
