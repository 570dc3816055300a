------------------------------ MODULE TpkeFast ------------------------------
(***************************************************************************)
(* The fast variant of threshold decryption: shares in G1, verified and    *)
(* combined by pairings, with Lagrange coefficients from a subproduct      *)
(* tree.                                                                   *)
(***************************************************************************)
EXTENDS Tpke, SubproductDomain

-----------------------------------------------------------------------------
(***************************************************************************)
(* Setup.                                                                  *)
(***************************************************************************)

\* BlindedKeyShare::multiply_by_omega_inv multiplies by -omega^-1.
\* Seeded fault: the sign is forgotten.
MultiplyByOmegaInvUnsigned(key_share, omega) == Mul(key_share, Inv(omega))

MultiplyByOmegaInv(key_share, omega) == Mul(key_share, Neg(Inv(omega)))

\* The public context of decrypter i; lagrange_n_0 is the domain point.
PublicContextFast(poly, b, i) ==
    LET omega == DomainPoint(i)
    IN  [domain |-> omega,
         blinding_key |-> b[i],
         blinded_key_share |->
            MultiplyByOmegaInv(Mul(Evaluate(poly, omega), b[i]), omega),
         lagrange_n_0 |-> omega]

\* setup_fast makes shares_num contexts, not one for each domain point.
SetupFast(poly, b) ==
    [i \in 1 .. SharesNum |-> PublicContextFast(poly, b, i)]

-----------------------------------------------------------------------------
(***************************************************************************)
(* Shares.                                                                 *)
(***************************************************************************)

\* Seeded fault: an index off by one.
DecryptionShareFastOffByOne(c, i, b_inv) ==
    [decrypter_index |-> i - 1, decryption_share |-> Mul(c.commitment, b_inv)]

\* D_i = [b^-1] U, in PrivateDecryptionContextFast::create_share after its
\* check of the ciphertext and, without one, in to_decryption_share.
DecryptionShareFast(c, i, b_inv) ==
    [decrypter_index |-> i, decryption_share |-> Mul(c.commitment, b_inv)]

\* e(U, -H) e(D_i, [b_i]H) = 1, the key taken by the share's own index.  Like
\* the batch below it is asked only about indices that contexts has; on others
\* it panics as prepare_combine_fast does, which callers run first.
VerifyDecryptionSharesFast(contexts, c, shares) ==
    \A k \in 1 .. Len(shares) :
        Pairing(shares[k].decryption_share,
                contexts[shares[k].decrypter_index].blinding_key)
            = c.commitment

\* batch_verify_decryption_shares, on a vector of shares for each ciphertext
\* and scalars alpha[i][j].  Seeded fault: the keys go by position.
BatchVerifyByPosition(contexts, cs, shares, alpha) ==
    LET n == Len(shares[1])
        m == Len(cs)
        sum_u == SumTo([i \in 1 .. m |->
                    Mul(cs[i].commitment, SumTo(alpha[i], n))], m)
        sum_d(j) == SumTo([i \in 1 .. m |->
                        IF j <= Len(shares[i])
                        THEN Mul(shares[i][j].decryption_share, alpha[i][j])
                        ELSE 0], m)
    IN  sum_u = SumTo([j \in 1 .. n |->
                    Pairing(sum_d(j), contexts[j].blinding_key)], n)

\* The number of shares and the blinding keys are those of the first vector;
\* a longer vector is cut there and a shorter one adds nothing.
BatchVerifyDecryptionShares(contexts, cs, shares, alpha) ==
    LET n == Len(shares[1])
        m == Len(cs)
        sum_u == SumTo([i \in 1 .. m |->
                    Mul(cs[i].commitment, SumTo(alpha[i], n))], m)
        sum_d(j) == SumTo([i \in 1 .. m |->
                        IF j <= Len(shares[i])
                        THEN Mul(shares[i][j].decryption_share, alpha[i][j])
                        ELSE 0], m)
        key(j) == contexts[shares[1][j].decrypter_index].blinding_key
    IN  sum_u = SumTo([j \in 1 .. n |-> Pairing(sum_d(j), key(j))], n)

-----------------------------------------------------------------------------
(***************************************************************************)
(* Combination.                                                            *)
(***************************************************************************)

\* batch_inversion_and_mul leaves zeros alone.
BatchInversionAndMul(v, coeff) ==
    [k \in 1 .. Len(v) |-> IF v[k] = 0 THEN 0 ELSE Div(coeff, v[k])]

\* The shares' decrypters all have a context to be found at their index.
KnownIndices(contexts, shares) ==
    \A k \in 1 .. Len(shares) : shares[k].decrypter_index \in 1 .. Len(contexts)

\* The key shares times the Lagrange coefficients of the shares' points, in
\* the order of the shares; Panic where the subproduct tree panics, or already
\* the access to the contexts.
PrepareCombineFast(contexts, shares) ==
    LET n == Len(shares)
        of == [k \in 1 .. n |-> contexts[shares[k].decrypter_index]]
        n_0 == ProductTo([k \in 1 .. n |-> of[k].lagrange_n_0], n)
        Weighted(inverses) ==
            LET lagrange == BatchInversionAndMul(inverses, n_0)
            IN  IF inverses = Panic THEN Panic
                ELSE [k \in 1 .. n |-> Mul(of[k].blinded_key_share, lagrange[k])]
    IN  IF ~KnownIndices(contexts, shares) THEN Panic
        ELSE Weighted(InverseLagrangeCoefficients([k \in 1 .. n |-> of[k].domain]))

ShareCombineFast(shares, prepared) ==
    SumTo([k \in 1 .. Len(shares) |->
              Pairing(shares[k].decryption_share, prepared[k])], Len(shares))

\* Seeded fault: the shares are combined without the check.
UncheckedShareCombineFast(contexts, c, shares, prepared) ==
    <<ShareCombineFast(shares, prepared)>>

\* checked_share_combine_fast: no secret, an Err, if a share does not verify.
CheckedShareCombineFast(contexts, c, shares, prepared) ==
    IF VerifyDecryptionSharesFast(contexts, c, shares)
    THEN <<ShareCombineFast(shares, prepared)>>
    ELSE <<>>
=============================================================================
