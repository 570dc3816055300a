----------------------------- MODULE TpkeSimple -----------------------------
(***************************************************************************)
(* A threshold decryption with the simple variant: validators make         *)
(* decryption shares of one ciphertext, which reach the client in any      *)
(* order, some of them damaged; the client combines what it has, checked   *)
(* or not, and decrypts.  A share that is never received is a lost one.    *)
(* The ciphertext comes from outside and need not be one encrypt returned. *)
(***************************************************************************)
EXTENDS Tpke

CONSTANTS
    Blindings,   \* the vectors of validator keys to consider
    Randomness,  \* the values of encrypt's r to consider, not 0
    Damage       \* whether shares, ciphertext and aad may be other than sent

ASSUME SimpleAssumption ==
    /\ \A b \in Blindings : \A i \in 1 .. DomainSizeFor(SharesNum) :
          b[i] \in Field \ {0}
    /\ Randomness \subseteq Field \ {0}
    /\ Damage \in BOOLEAN

VARIABLES
    poly,        \* the secret polynomial of setup_simple
    contexts,    \* the contexts it returned
    ciphertext,  \* the ciphertext as the validators and the client see it
    aad,         \* the additional data they check it with
    received,    \* the shares the client has, in order of arrival
    outcome      \* of the client's decryption

vars == <<poly, contexts, ciphertext, aad, received, outcome>>

Message == "message"
Aad == <<"aad">>
OtherAad == <<"other">>

NoOutcome == [from |-> "none"]

\* What encrypt returns when it draws r.
Sent(r) == Encrypt(Message, Aad, poly[1], r)

\* Texts that do not open under the shared secret: the sealed text cut off,
\* sealed under another secret, or with the additional data moved into it.
OtherTexts(r) ==
    LET sealed == Sent(r).ciphertext
    IN  {<<>>, Seal(Add(sealed[1].key, 1), r, Message), sealed \o Aad}

\* Such a text under the tag of the one sent, or under a tag of its own.
Altered(r, v) == [Sent(r) EXCEPT !.ciphertext = v]

Retagged(r, v) ==
    [Sent(r) EXCEPT !.ciphertext = v,
                    !.auth_tag = <<r, ConstructTagHash(r, v, Aad)>>]

Ciphertexts(r) ==
    {Sent(r)} \cup
    IF Damage THEN {Altered(r, v) : v \in OtherTexts(r)}
                   \cup {Retagged(r, v) : v \in OtherTexts(r)}
    ELSE {}

\* Nothing separates text and additional data in what the tag is made of, so
\* these include the data that continue a cut or a longer text.
AdditionalData(r) ==
    IF Damage THEN {Aad, OtherAad, <<>>, Sent(r).ciphertext \o Aad} ELSE {Aad}

Init ==
    /\ poly \in Polynomials(Threshold)
    /\ \E b \in Blindings : contexts = SetupSimple(poly, b)
    /\ \E r \in Randomness :
          ciphertext \in Ciphertexts(r) /\ aad \in AdditionalData(r)
    /\ received = <<>>
    /\ outcome = NoOutcome

Shares(i) == {k \in 1 .. Len(received) : received[k].decrypter_index = i}

\* PrivateDecryptionContextSimple::create_share, and the share's arrival.
CreateShare(i) ==
    /\ outcome = NoOutcome
    /\ Shares(i) = {}
    /\ CheckCiphertextValidity(ciphertext, aad)
    /\ received' = Append(received,
            DecryptionShareSimple(ciphertext, i,
                                  contexts[i].private_key_share,
                                  contexts[i].validator_public_key))
    /\ UNCHANGED <<poly, contexts, ciphertext, aad, outcome>>

\* A share whose value, or whose value and checksum, is not what create
\* returns; at most one.
DamagedShare(i) ==
    /\ Damage
    /\ outcome = NoOutcome
    /\ Shares(i) = {}
    /\ CheckCiphertextValidity(ciphertext, aad)
    /\ LET share == DecryptionShareSimple(ciphertext, i,
                                          contexts[i].private_key_share,
                                          contexts[i].validator_public_key)
       IN  /\ \A k \in 1 .. Len(received) :
                 LET j == received[k].decrypter_index
                 IN  received[k] = DecryptionShareSimple(ciphertext, j,
                                       contexts[j].private_key_share,
                                       contexts[j].validator_public_key)
           /\ \/ received' = Append(received,
                    [share EXCEPT !.decryption_share = Add(@, 1)])
              \/ received' = Append(received,
                    [share EXCEPT !.decryption_share =
                                     Pairing(1, contexts[i].blinded_key_share),
                                  !.validator_checksum = 1])
    /\ UNCHANGED <<poly, contexts, ciphertext, aad, outcome>>

VerifiedShare(share) ==
    LET context == contexts[share.decrypter_index]
    IN  VerifyShare(share, context.blinded_key_share,
                    context.validator_public_key, ciphertext)

\* The received shares that verify, in order of arrival.
VerifiedShares ==
    LET kept[k \in 0 .. Len(received)] ==
            IF k = 0 THEN <<>>
            ELSE IF VerifiedShare(received[k]) THEN Append(kept[k - 1], received[k])
            ELSE kept[k - 1]
    IN  kept[Len(received)]

DomainOf(shares) ==
    [k \in 1 .. Len(shares) |-> contexts[shares[k].decrypter_index].domain]

\* What share_combine_simple makes of the shares, with the domain points of
\* their decrypters taken in the same order.
CombinedSecret(shares) ==
    ShareCombineSimple(shares, PrepareCombineSimple(DomainOf(shares)))

Ends(from, result) ==
    /\ outcome = NoOutcome
    /\ outcome' = [from |-> from, result |-> result]
    /\ UNCHANGED <<poly, contexts, ciphertext, aad, received>>

\* A careful client waits for Threshold shares that verify and combines those.
Decrypt ==
    /\ Len(VerifiedShares) >= Threshold
    /\ Ends("verified", CheckedDecryptWithSharedSecret(ciphertext, aad,
                                                       CombinedSecret(VerifiedShares)))

\* Nothing in the functions it calls makes it: neither share_combine_simple nor
\* checked_decrypt_with_shared_secret looks at the number of shares or at what
\* verify says of them.
DecryptUnchecked ==
    Ends("received", CheckedDecryptWithSharedSecret(ciphertext, aad,
                                                    CombinedSecret(received)))

\* The holder of the private key decrypts alone: checked_decrypt.
DecryptAlone == Ends("key", CheckedDecrypt(ciphertext, aad, poly[1]))

Next ==
    \/ \E i \in 1 .. Len(contexts) : CreateShare(i) \/ DamagedShare(i)
    \/ Decrypt
    \/ DecryptUnchecked
    \/ DecryptAlone

Spec == Init /\ [][Next]_vars

-----------------------------------------------------------------------------
(***************************************************************************)
(* Properties.                                                             *)
(***************************************************************************)

\* Each decrypter is received once; the outcome is an Err, the text or none.
TypeOK ==
    /\ poly \in Polynomials(Threshold)
    /\ \A k \in 1 .. Len(received) :
          /\ received[k].decrypter_index \in 1 .. Len(contexts)
          /\ received[k].decryption_share \in Field
          /\ received[k].validator_checksum \in Field
    /\ \A i \in 1 .. Len(contexts) : Cardinality(Shares(i)) <= 1
    /\ outcome # NoOutcome => outcome.result \in {"err", "panic", Message}

\* Shares that pass verify, in whatever order they arrive and from whichever
\* decrypters, combine to the secret of the ciphertext's commitment as soon
\* as there are Threshold of them (share_combine_simple, lagrange_basis_at).
AnyVerifiedSharesCombine ==
    Len(VerifiedShares) >= Threshold =>
        CombinedSecret(VerifiedShares) = SharedSecret(ciphertext, poly[1])

\* verify_decryption_shares_simple does not look at decrypter_index; still,
\* when it accepts a vector of shares, combining that vector with the domain
\* points taken in order, which ignores the index as well, gives the secret.
PositionalCheckSuffices ==
    /\ Len(received) \in Threshold .. Len(contexts)
    /\ VerifyDecryptionSharesSimple(contexts, ciphertext, received)
    => ShareCombineSimple(received,
            PrepareCombineSimple([k \in 1 .. Len(received) |-> contexts[k].domain]))
        = SharedSecret(ciphertext, poly[1])

\* Raising U to the Lagrange coefficient before the pairing, as the validators
\* do in create_share_precomputed, gives shares whose plain product is the
\* secret, for the decrypters of the shares received in whatever order.
PrecomputedSharesAgree ==
    LET n == Len(received)
        lagrange == PrepareCombineSimple(DomainOf(received))
        index == [k \in 1 .. n |-> received[k].decrypter_index]
        precomputed == [k \in 1 .. n |->
            CreateSharePrecomputed(ciphertext, index[k],
                contexts[index[k]].private_key_share, lagrange[k])]
    IN  n >= Threshold =>
            ShareCombineSimplePrecomputed(precomputed)
                = SharedSecret(ciphertext, poly[1])

\* Whoever decrypts gets an Err exactly if the tag is not one of the text and
\* additional data at hand.  The key holder, and a client whose shares are
\* Threshold or more that all verify, get the message exactly from the text and
\* data encrypt was given: what is left for the unwrap of the cipher's result
\* to panic on (ciphertext.rs:155) is a text not sealed under the shared
\* secret, which the tag does not exclude, and the secret of unchecked shares.
DecryptionOutcome ==
    outcome # NoOutcome =>
        LET c == ciphertext
            SecretKnown ==
                outcome.from = "received" =>
                    /\ Len(received) >= Threshold
                    /\ \A k \in 1 .. Len(received) : VerifiedShare(received[k])
        IN  /\ outcome.result = "err" <=>
                  c.auth_tag[2] # ConstructTagHash(c.commitment, c.ciphertext, aad)
            /\ SecretKnown =>
                  (outcome.result = Message <=>
                      /\ c.ciphertext = Sent(c.commitment).ciphertext
                      /\ aad = Aad)
=============================================================================
