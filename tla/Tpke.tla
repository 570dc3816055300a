-------------------------------- MODULE Tpke --------------------------------
(***************************************************************************)
(* Threshold public-key encryption: the functions of tpke/src on           *)
(* ciphertexts, key shares and decryption shares.  The fast variant of the *)
(* shares is in TpkeFast.                                                  *)
(* Vectors are sequences counted from 1, so the decrypter index i of the   *)
(* code is i + 1 here.                                                     *)
(***************************************************************************)
EXTENDS PrimeField

CONSTANTS
    Threshold,   \* the number of coefficients of the secret polynomial
    SharesNum    \* the number of shares asked of setup

\* setup_fast and setup_simple assert shares_num >= threshold; threshold - 1
\* is the degree of the polynomial.  The field has the domain it needs: the
\* result of Radix2EvaluationDomain::new is unwrapped.
ASSUME SetupAssumption ==
    /\ Threshold \in Nat \ {0}
    /\ SharesNum \in Nat
    /\ SharesNum >= Threshold
    /\ \E w \in Field : PrimitiveRoot(w, DomainSizeFor(SharesNum))

DomainPoints ==
    [i \in 1 .. DomainSizeFor(SharesNum) |-> Element(SharesNum, i - 1)]

DomainPoint(i) == DomainPoints[i]

-----------------------------------------------------------------------------
(***************************************************************************)
(* Ciphertexts.  The authenticated cipher and the hash to G2 are ideal:    *)
(* a sealed text opens under its own key and nonce only, and the multiple  *)
(* r of the hash of a text is the pair of r and that text.                 *)
(***************************************************************************)
Seal(key, nonce, plaintext) == <<[key |-> key, nonce |-> nonce,
                                  plaintext |-> plaintext]>>

\* decrypt_with_shared_secret unwraps the result of the cipher.
Opens(key, nonce, sealed) ==
    Len(sealed) = 1 /\ sealed[1].key = key /\ sealed[1].nonce = nonce

\* The bytes of U, V and aad, one after the other.
ConstructTagHash(u, v, aad) == <<u>> \o v \o aad

Encrypt(message, aad, pubkey, r) ==
    LET product == Pairing(Mul(pubkey, r), 1)
        v == Seal(product, r, message)
    IN  [commitment |-> r,
         ciphertext |-> v,
         auth_tag |-> <<r, ConstructTagHash(r, v, aad)>>]

\* Seeded fault: the hashed text is not compared.
CheckWithoutAad(c, aad) == c.auth_tag[1] = c.commitment

\* e(U, H(U, V, aad)) = e(G, W).
CheckCiphertextValidity(c, aad) ==
    c.auth_tag = <<c.commitment, ConstructTagHash(c.commitment, c.ciphertext, aad)>>

\* What encrypt used and every correct combination must arrive at: e(U, [x]H).
SharedSecret(c, x) == Pairing(c.commitment, x)

\* checked_decrypt_with_shared_secret: an Err, the text, or a panic.
CheckedDecryptWithSharedSecret(c, aad, s) ==
    IF ~CheckCiphertextValidity(c, aad) THEN "err"
    ELSE IF Opens(s, c.commitment, c.ciphertext)
         THEN c.ciphertext[1].plaintext
         ELSE "panic"

CheckedDecrypt(c, aad, privkey) ==
    CheckedDecryptWithSharedSecret(c, aad, Pairing(c.commitment, privkey))

-----------------------------------------------------------------------------
(***************************************************************************)
(* Setup.  poly is the secret polynomial and b[i] the blinding of share i; *)
(* b.inverse() is unwrapped, so the b[i] are not zero.                     *)
(***************************************************************************)

PublicContextSimple(poly, b, i) ==
    LET z == Evaluate(poly, DomainPoint(i))
    IN  [domain |-> DomainPoint(i),
         private_key_share |-> z,
         blinded_key_share |-> Mul(z, b[i]),
         validator_public_key |-> b[i]]

\* setup_simple makes a context for each point of the domain.
SetupSimple(poly, b) ==
    [i \in 1 .. DomainSizeFor(SharesNum) |-> PublicContextSimple(poly, b, i)]

-----------------------------------------------------------------------------
(***************************************************************************)
(* The simple variant.                                                     *)
(***************************************************************************)

\* Seeded fault: an index off by one.
DecryptionShareSimpleOffByOne(c, i, z, dk) ==
    [decrypter_index |-> i - 1,
     decryption_share |-> Pairing(c.commitment, z),
     validator_checksum |-> Mul(c.commitment, Inv(dk))]

\* DecryptionShareSimple::create after its check: D_i = e(U, Z_i) and the
\* checksum C_i = [dk_i^-1] U.
DecryptionShareSimple(c, i, z, dk) ==
    [decrypter_index |-> i,
     decryption_share |-> Pairing(c.commitment, z),
     validator_checksum |-> Mul(c.commitment, Inv(dk))]

\* DecryptionShareSimple::verify.  Seeded fault: only the first equation.
VerifyShareWithoutKey(share, share_aggregate, public_key, c) ==
    share.decryption_share = Pairing(share.validator_checksum, share_aggregate)

\* Seeded fault: only the second equation.
VerifyShareWithoutAggregate(share, share_aggregate, public_key, c) ==
    Pairing(share.validator_checksum, public_key) = c.commitment

VerifyShare(share, share_aggregate, public_key, c) ==
    /\ share.decryption_share = Pairing(share.validator_checksum, share_aggregate)
    /\ Pairing(share.validator_checksum, public_key) = c.commitment

\* verify_decryption_shares_simple pairs shares and contexts by position and
\* stops at the shorter of the two.
VerifyDecryptionSharesSimple(contexts, c, shares) ==
    \A k \in 1 .. Len(shares) :
        k <= Len(contexts) =>
            VerifyShare(shares[k], contexts[k].blinded_key_share,
                        contexts[k].validator_public_key, c)

\* lagrange_basis_at.  Seeded fault: the difference in the denominator is
\* taken the other way round.
LagrangeBasisSwapped(xs, x) ==
    [j \in 1 .. Len(xs) |->
        ProductTo([m \in 1 .. Len(xs) |->
            IF xs[m] = xs[j] THEN 1
            ELSE Div(Sub(xs[m], x), Sub(xs[j], xs[m]))], Len(xs))]

LagrangeBasisAt(xs, x) ==
    [j \in 1 .. Len(xs) |->
        ProductTo([m \in 1 .. Len(xs) |->
            IF xs[m] = xs[j] THEN 1
            ELSE Div(Sub(xs[m], x), Sub(xs[m], xs[j]))], Len(xs))]

PrepareCombineSimple(domain) == LagrangeBasisAt(domain, 0)

\* izip!: the shorter of the two vectors decides.
ShareCombineSimple(shares, lagrange) ==
    LET n == IF Len(shares) <= Len(lagrange) THEN Len(shares) ELSE Len(lagrange)
    IN  SumTo([k \in 1 .. n |->
                  Mul(shares[k].decryption_share, lagrange[k])], n)

\* Seeded fault: the coefficient is not applied.
CreateShareUnscaled(c, i, z, lagrange_coeff) ==
    [decrypter_index |-> i,
     decryption_share |-> Pairing(c.commitment, z)]

\* create_share_precomputed raises U to the coefficient before the pairing.
CreateSharePrecomputed(c, i, z, lagrange_coeff) ==
    [decrypter_index |-> i,
     decryption_share |-> Pairing(Mul(c.commitment, lagrange_coeff), z)]

ShareCombineSimplePrecomputed(shares) ==
    SumTo([k \in 1 .. Len(shares) |-> shares[k].decryption_share], Len(shares))
=============================================================================
