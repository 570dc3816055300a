------------------------- MODULE SharedSecretBuilder -------------------------
(***************************************************************************)
(* A threshold decryption with the fast variant, as the bindings offer it  *)
(* (tpke/src/api.rs, tpke-wasm/src/lib.rs and tpke-python/src/lib.rs): the *)
(* client sends each participant a payload for one of its ciphertexts, the *)
(* participants answer with decryption shares that arrive in any order,    *)
(* possibly repeated, for the wrong ciphertext or one of them damaged, and *)
(* the client collects them in a SharedSecretBuilder, builds the secret    *)
(* and decrypts.                                                           *)
(***************************************************************************)
EXTENDS TpkeFast

CONSTANTS
    Polys,       \* the secret polynomials to consider
    Blindings,   \* the vectors of blinding factors to consider
    Randomness,  \* the r of the client's ciphertexts, all different, not 0
    Alphas,      \* the scalars a batch verification may draw, not 0
    MaxReceived, \* bound: shares added to the builder
    Damage,      \* whether one received share may be damaged
    WrongIndices \* the indices a damaged share may have, if not its own

ASSUME BuilderAssumption ==
    /\ Polys \subseteq Polynomials(Threshold)
    /\ \A b \in Blindings : \A i \in 1 .. SharesNum : b[i] \in Field \ {0}
    /\ Randomness \subseteq Field \ {0}
    /\ Alphas \subseteq Field \ {0}
    /\ MaxReceived \in Nat
    /\ Damage \in BOOLEAN
    /\ WrongIndices \subseteq 1 .. SharesNum + 1

VARIABLES
    setup,        \* Setup: the keys, and the private and public contexts
    ciphertexts,  \* the client's ciphertexts, by their r
    shares,       \* SharedSecretBuilder.shares
    origin,       \* of each share: the ciphertext asked about, and damage
    outcome       \* of decrypt, or of build and decrypt_with_shared_secret

vars == <<setup, ciphertexts, shares, origin, outcome>>

Message == "message"
Aad == <<"aad">>

NoOutcome == [by |-> "none"]

\* Setup::new: the private contexts are the inverse blindings and indices.
SetupOf(poly, b) ==
    [public_key |-> poly[1],
     private_key |-> poly[1],
     private_contexts |-> [i \in 1 .. SharesNum |->
                             [b_inv |-> Inv(b[i]), decrypter_index |-> i]],
     public_contexts |-> SetupFast(poly, b)]

Init ==
    /\ \E poly \in Polys, b \in Blindings :
          setup = SetupOf(poly, b)
    /\ ciphertexts = [r \in Randomness |->
                        Encrypt(Message, Aad, setup.public_key, r)]
    /\ shares = <<>>
    /\ origin = <<>>
    /\ outcome = NoOutcome

-----------------------------------------------------------------------------
(***************************************************************************)
(* Bytes: one element for each value of a fixed width.                     *)
(***************************************************************************)

\* Ciphertext::to_bytes writes the commitment and the tag only, so from_bytes
\* finds no sealed text after them.
CiphertextToBytes(c) == <<c.commitment, c.auth_tag>>

CiphertextFromBytes(bytes) == [commitment |-> bytes[1],
                               auth_tag |-> bytes[2],
                               ciphertext |-> SubSeq(bytes, 3, Len(bytes))]

PrivateContextToBytes(context) == <<context.b_inv, context.decrypter_index>>

PrivateContextFromBytes(bytes) == [b_inv |-> bytes[1],
                                   decrypter_index |-> bytes[2]]

\* PrivateDecryptionContext::serialized_size, where the payload is cut.
SerializedSize == 2

ParticipantPayloadToBytes(context, c) ==
    PrivateContextToBytes(context) \o CiphertextToBytes(c)

ParticipantPayloadFromBytes(bytes) ==
    [decryption_context |->
        PrivateContextFromBytes(SubSeq(bytes, 1, SerializedSize)),
     ciphertext |->
        CiphertextFromBytes(SubSeq(bytes, SerializedSize + 1, Len(bytes)))]

ToDecryptionShare(payload) ==
    DecryptionShareFast(payload.ciphertext,
                        payload.decryption_context.decrypter_index,
                        payload.decryption_context.b_inv)

\* DecryptionShareFast::to_bytes and from_bytes.
ShareToBytes(share) == <<share.decrypter_index, share.decryption_share>>

ShareFromBytes(bytes) == [decrypter_index |-> bytes[1],
                          decryption_share |-> bytes[2]]

\* private_context_at asserts that contexts are stored by their index.
PrivateContextAt(i) == setup.private_contexts[i]

\* What the client reads when participant i has answered the payload for r.
Answer(i, r) ==
    LET sent == ParticipantPayloadToBytes(PrivateContextAt(i), ciphertexts[r])
        payload == ParticipantPayloadFromBytes(sent)
    IN  ShareFromBytes(ShareToBytes(ToDecryptionShare(payload)))

-----------------------------------------------------------------------------
\* The builder keeps whatever share it is given.
AddDecryptionShare(i, r) ==
    /\ outcome = NoOutcome
    /\ Len(shares) < MaxReceived
    /\ shares' = Append(shares, Answer(i, r))
    /\ origin' = Append(origin, [of |-> r, damaged |-> FALSE])
    /\ UNCHANGED <<setup, ciphertexts, outcome>>

\* An answer with another value, or with another index: that of another
\* participant, or the first that has no context.
DamagedAnswers(i, r) ==
    {[Answer(i, r) EXCEPT !.decryption_share = Add(@, 1)]} \cup
    {[Answer(i, r) EXCEPT !.decrypter_index = j] : j \in WrongIndices \ {i}}

\* At most one answer arrives damaged.
AddDamagedShare(i, r) ==
    /\ Damage
    /\ outcome = NoOutcome
    /\ Len(shares) < MaxReceived
    /\ \A k \in 1 .. Len(origin) : ~origin[k].damaged
    /\ \E share \in DamagedAnswers(i, r) : shares' = Append(shares, share)
    /\ origin' = Append(origin, [of |-> r, damaged |-> TRUE])
    /\ UNCHANGED <<setup, ciphertexts, outcome>>

\* build panics unless it has as many shares as contexts, prepares the key
\* shares and unwraps the checked combination; the client decrypts with the
\* secret that build returns.  Each way to fail is a panic there: "count" is
\* the one of build itself, "invalid_share" the one on the combination's Err,
\* and "panic" any further inside.
BuildAndDecrypt(r) ==
    LET contexts == setup.public_contexts
        prepared == PrepareCombineFast(contexts, shares)
        secret == CheckedShareCombineFast(contexts, ciphertexts[r],
                                          shares, prepared)
    IN  IF Len(shares) # Len(contexts) THEN "count"
        ELSE IF prepared = Panic THEN "panic"
        ELSE IF secret = <<>> THEN "invalid_share"
        ELSE CheckedDecryptWithSharedSecret(ciphertexts[r], Aad, secret[1])

Build(r) ==
    /\ outcome = NoOutcome
    /\ outcome' = [by |-> "build", of |-> r, result |-> BuildAndDecrypt(r)]
    /\ UNCHANGED <<setup, ciphertexts, shares, origin>>

\* decrypt: the holder of the private key needs no shares.
Decrypt(r) ==
    /\ outcome = NoOutcome
    /\ outcome' = [by |-> "decrypt", of |-> r,
                   result |-> CheckedDecrypt(ciphertexts[r], Aad,
                                             setup.private_key)]
    /\ UNCHANGED <<setup, ciphertexts, shares, origin>>

Next ==
    \E r \in Randomness :
        \/ \E i \in 1 .. SharesNum :
              AddDecryptionShare(i, r) \/ AddDamagedShare(i, r)
        \/ Build(r)
        \/ Decrypt(r)

Spec == Init /\ [][Next]_vars

-----------------------------------------------------------------------------
(***************************************************************************)
(* Properties.                                                             *)
(***************************************************************************)

\* The contexts and shares keep their shape, and build ends in one of its
\* outcomes.
TypeOK ==
    /\ setup.public_key \in Field
    /\ Len(setup.public_contexts) = SharesNum
    /\ Len(origin) = Len(shares)
    /\ \A k \in 1 .. Len(shares) :
          /\ shares[k].decrypter_index \in 1 .. SharesNum + 1
          /\ shares[k].decryption_share \in Field
          /\ origin[k] \in [of : Randomness, damaged : BOOLEAN]
    /\ outcome # NoOutcome =>
          outcome.result \in {"count", "invalid_share", "panic", Message}

DistinctDecrypters ==
    \A k, l \in 1 .. Len(shares) :
        shares[k].decrypter_index = shares[l].decrypter_index => k = l

Prepared == PrepareCombineFast(setup.public_contexts, shares)

\* Shares of different participants, at least Threshold, that pass
\* verify_decryption_shares_fast for a ciphertext combine to its secret,
\* whichever participants they are from and in whatever order they came, if
\* prepare_combine_fast does not panic and their number is even.  With an odd
\* number they combine to its inverse, since lagrange_n_0, the domain point,
\* lacks the sign (-1)^|domain| that context.rs:9 gives it.
VerifiedSharesCombine ==
    Len(shares) >= Threshold /\ DistinctDecrypters /\ Prepared # Panic =>
        \A r \in Randomness :
            LET secret == SharedSecret(ciphertexts[r], setup.public_key)
            IN  VerifyDecryptionSharesFast(setup.public_contexts,
                                           ciphertexts[r], shares) =>
                    ShareCombineFast(shares, Prepared) =
                        IF Len(shares) % 2 = 0 THEN secret ELSE Neg(secret)

\* With an even number of participants, building from one answer of each for
\* the ciphertext at hand decrypts the message, although the answers are
\* computed from payloads that went through bytes without the sealed text.  It
\* fails in the one way that fits the shares otherwise: on their number, on a
\* repeated or unknown participant, or on the check that finds a share which is
\* not its participant's answer, damaged or made for another ciphertext.  No
\* secret reaches decryption but the right one.
BuildDecrypts ==
    outcome # NoOutcome =>
        LET answers == \A k \in 1 .. Len(shares) :
                shares[k] = Answer(shares[k].decrypter_index, outcome.of)
        IN  outcome.result =
                IF outcome.by = "decrypt" THEN Message
                ELSE IF Len(shares) # SharesNum THEN "count"
                ELSE IF ~DistinctDecrypters \/ Prepared = Panic THEN "panic"
                ELSE IF answers THEN Message
                ELSE "invalid_share"

\* Up to four shares of different participants can be prepared in any order:
\* the panic of prepare_combine_fast on the order of its shares takes five.
FewSharesPrepare ==
    /\ Len(shares) \in 1 .. 4
    /\ DistinctDecrypters
    /\ KnownIndices(setup.public_contexts, shares)
    => Prepared # Panic

\* The shares received for ciphertext r, in order.
Vector(r) ==
    LET v[k \in 0 .. Len(shares)] ==
            IF k = 0 THEN <<>>
            ELSE IF origin[k].of = r THEN Append(v[k - 1], shares[k])
            ELSE v[k - 1]
    IN  v[Len(shares)]

Decrypters(vector) == [j \in 1 .. Len(vector) |-> vector[j].decrypter_index]

\* batch_verify_decryption_shares on vectors of the same decrypters in the same
\* order accepts exactly when verify_decryption_shares_fast accepts each of
\* them, one damaged share included, whatever scalars it draws.
BatchVerifyIsConjunction ==
    \A r, s \in Randomness :
        LET first == Vector(r)
            second == Vector(s)
            contexts == setup.public_contexts
        IN  /\ r # s /\ first # <<>>
            /\ Decrypters(first) = Decrypters(second)
            /\ KnownIndices(contexts, first)
            => \A alpha, beta \in [1 .. Len(first) -> Alphas] :
                   BatchVerifyDecryptionShares(contexts,
                         <<ciphertexts[r], ciphertexts[s]>>,
                         <<first, second>>, <<alpha, beta>>)
                   <=> /\ VerifyDecryptionSharesFast(contexts,
                                                     ciphertexts[r], first)
                       /\ VerifyDecryptionSharesFast(contexts,
                                                     ciphertexts[s], second)
=============================================================================
