-------------------------- MODULE TpkeSimpleProofs --------------------------
(***************************************************************************)
(* Threshold decryption with the simple variant, for every prime, every    *)
(* threshold, any number of shares, any keys and any arrivals.             *)
(*                                                                         *)
(* The inductive invariant says where the state comes from: the contexts   *)
(* are those of setup_simple, the ciphertext was made with some r, and no  *)
(* two received shares are of one decrypter.  The properties then follow   *)
(* from interpolation (SharesCombine).                                     *)
(***************************************************************************)
EXTENDS TpkeSimple, InterpolationProofs

DecryptionShares ==
    [decrypter_index : 1 .. NumPoints, decryption_share : Field,
     validator_checksum : Field]

ContextsOf(b) == contexts = SetupSimple(poly, b)
CiphertextOf(r) == ciphertext \in Ciphertexts(r)

Results == {"err", "panic", Message}

Outcomes ==
    {NoOutcome} \cup [from : {"verified", "received", "key"}, result : Results]

OncePerDecrypter ==
    \A k, l \in 1 .. Len(received) :
        received[k].decrypter_index = received[l].decrypter_index => k = l

IInv ==
    /\ poly \in Polynomials(Threshold)
    /\ \E b \in Blindings : ContextsOf(b)
    /\ \E r \in Randomness : CiphertextOf(r) /\ aad \in AdditionalData(r)
    /\ received \in Seq(DecryptionShares)
    /\ OncePerDecrypter
    /\ outcome \in Outcomes

-----------------------------------------------------------------------------
(***************************************************************************)
(* What setup and encrypt return.                                          *)
(***************************************************************************)

LEMMA SuccessorDiffers == \A a \in Field : Add(a, 1) # a
<1>1. P \in Nat /\ P > 1
  BY PrimeAssumption
<1>2. ASSUME NEW a \in 0 .. P - 1 PROVE (a + 1) % P # a
  <2>1. CASE a + 1 < P
    BY <1>1, <2>1
  <2>2. CASE a + 1 = P
    BY <1>1, <2>2
  <2> QED BY <1>1, <2>1, <2>2
<1> QED BY <1>2 DEF Field, Add

LEMMA ShareFields ==
  ASSUME NEW shares \in Seq(DecryptionShares), NEW k \in 1 .. Len(shares)
  PROVE  /\ shares[k] \in DecryptionShares
         /\ shares[k].decrypter_index \in 1 .. NumPoints
         /\ shares[k].decryption_share \in Field
         /\ shares[k].validator_checksum \in Field
<1>1. shares[k] \in DecryptionShares
  OBVIOUS
<1> QED BY <1>1 DEF DecryptionShares

\* The key share of decrypter i.
KeyShare(i) == Evaluate(poly, DomainPoint(i))

LEMMA ContextFacts ==
  ASSUME poly \in Polynomials(Threshold), NEW b \in Blindings, ContextsOf(b)
  PROVE  /\ Len(contexts) = NumPoints
         /\ \A i \in 1 .. NumPoints :
               /\ KeyShare(i) \in Field
               /\ b[i] \in Field \ {0}
               /\ contexts[i].domain = DomainPoint(i)
               /\ contexts[i].private_key_share = KeyShare(i)
               /\ contexts[i].blinded_key_share = Mul(KeyShare(i), b[i])
               /\ contexts[i].blinded_key_share \in Field
               /\ contexts[i].validator_public_key = b[i]
<1>1. contexts = [i \in 1 .. NumPoints |-> PublicContextSimple(poly, b, i)]
  BY DEF ContextsOf, SetupSimple, NumPoints
<1>2. NumPoints \in Nat /\ Threshold \in Nat
  BY DomainPointsDiffer, SetupAssumption
<1>3. Len(contexts) = NumPoints
  BY <1>1, <1>2
<1>4. ASSUME NEW i \in 1 .. NumPoints
      PROVE  /\ KeyShare(i) \in Field
             /\ b[i] \in Field \ {0}
             /\ contexts[i].domain = DomainPoint(i)
             /\ contexts[i].private_key_share = KeyShare(i)
             /\ contexts[i].blinded_key_share = Mul(KeyShare(i), b[i])
             /\ contexts[i].blinded_key_share \in Field
             /\ contexts[i].validator_public_key = b[i]
  <2>1. KeyShare(i) \in Field
    BY <1>2, DomainPointsDiffer, EvaluateInField DEF KeyShare
  <2>2. b[i] \in Field \ {0}
    BY SimpleAssumption DEF NumPoints
  <2>3. contexts[i] = [domain |-> DomainPoint(i),
                       private_key_share |-> KeyShare(i),
                       blinded_key_share |-> Mul(KeyShare(i), b[i]),
                       validator_public_key |-> b[i]]
    BY <1>1 DEF PublicContextSimple, KeyShare
  <2>4. Mul(KeyShare(i), b[i]) \in Field
    BY <2>1, <2>2, Closed
  <2> QED BY <2>1, <2>2, <2>3, <2>4
<1> QED BY <1>3, <1>4

\* The one-element sequence encrypt seals the message in.
LEMMA SentFacts ==
  ASSUME NEW r
  PROVE  /\ Sent(r) = [commitment |-> r, ciphertext |-> Sent(r).ciphertext,
                       auth_tag |-> <<r, ConstructTagHash(r, Sent(r).ciphertext, Aad)>>]
         /\ Sent(r).ciphertext = <<[key |-> Pairing(Mul(poly[1], r), 1), nonce |-> r,
                                    plaintext |-> Message]>>
<1>1. Sent(r) = [commitment |-> r,
                 ciphertext |-> Seal(Pairing(Mul(poly[1], r), 1), r, Message),
                 auth_tag |-> <<r, ConstructTagHash(r,
                     Seal(Pairing(Mul(poly[1], r), 1), r, Message), Aad)>>]
  BY DEF Sent, Encrypt
<1>2. Sent(r).ciphertext = Seal(Pairing(Mul(poly[1], r), 1), r, Message)
  BY <1>1
<1> QED BY <1>1, <1>2 DEF Seal

\* The tag belongs to r, and the text sent comes with the tag encrypt gave it.
LEMMA CiphertextFields ==
  ASSUME NEW r, CiphertextOf(r)
  PROVE  /\ ciphertext.commitment = r
         /\ ciphertext.ciphertext \in {Sent(r).ciphertext} \cup OtherTexts(r)
         /\ ciphertext.auth_tag = <<ciphertext.auth_tag[1], ciphertext.auth_tag[2]>>
         /\ ciphertext.auth_tag[1] = r
         /\ ciphertext.ciphertext = Sent(r).ciphertext =>
                ciphertext.auth_tag[2] = ConstructTagHash(r, Sent(r).ciphertext, Aad)
<1> DEFINE v == Sent(r).ciphertext  W(u) == <<r, ConstructTagHash(r, u, Aad)>>
<1>1. Sent(r) = [commitment |-> r, ciphertext |-> v, auth_tag |-> W(v)]
  BY SentFacts
<1> HIDE DEF v
<1>2. \E u \in {v} \cup OtherTexts(r), t \in {v} \cup OtherTexts(r) :
          /\ ciphertext = [commitment |-> r, ciphertext |-> u, auth_tag |-> W(t)]
          /\ t \in {u, v}
  <2>1. CASE ciphertext = Sent(r)
    BY <1>1, <2>1
  <2>2. CASE \E u \in OtherTexts(r) : ciphertext = Altered(r, u)
    <3>1. PICK u \in OtherTexts(r) : ciphertext = Altered(r, u)
      BY <2>2
    <3>2. ciphertext = [commitment |-> r, ciphertext |-> u, auth_tag |-> W(v)]
      BY <1>1, <3>1 DEF Altered
    <3> QED BY <3>2
  <2>3. CASE \E u \in OtherTexts(r) : ciphertext = Retagged(r, u)
    <3>1. PICK u \in OtherTexts(r) : ciphertext = Retagged(r, u)
      BY <2>3
    <3>2. Altered(r, u) = [commitment |-> r, ciphertext |-> u, auth_tag |-> W(v)]
      BY <1>1 DEF Altered
    <3>3. Retagged(r, u) = [Altered(r, u) EXCEPT !.auth_tag = W(u)]
      BY DEF Retagged, Altered
    <3>4. ciphertext = [commitment |-> r, ciphertext |-> u, auth_tag |-> W(u)]
      BY <3>1, <3>2, <3>3
    <3> QED BY <3>4
  <2> QED BY <2>1, <2>2, <2>3 DEF CiphertextOf, Ciphertexts
<1>3. PICK u \in {v} \cup OtherTexts(r), t \in {v} \cup OtherTexts(r) :
          /\ ciphertext = [commitment |-> r, ciphertext |-> u, auth_tag |-> W(t)]
          /\ t \in {u, v}
  BY <1>2
<1>4. /\ ciphertext.commitment = r
      /\ ciphertext.ciphertext = u
      /\ ciphertext.auth_tag = <<r, ConstructTagHash(r, t, Aad)>>
  BY <1>3
<1>5. u = v => t = v
  BY <1>3
<1> QED BY <1>3, <1>4, <1>5 DEF v

LEMMA CiphertextFacts ==
  ASSUME poly \in Polynomials(Threshold), NEW r \in Randomness, CiphertextOf(r)
  PROVE  /\ r \in Field \ {0} /\ poly[1] \in Field
         /\ ciphertext.commitment = r
         /\ SharedSecret(ciphertext, poly[1]) = Mul(r, poly[1])
<1>1. r \in Field \ {0}
  BY SimpleAssumption
<1>2. Threshold \in Nat /\ 1 \in 1 .. Threshold
  BY SetupAssumption
<1>3. poly[1] \in Field
  BY <1>2, PolynomialLength
<1>4. ciphertext.commitment = r
  BY CiphertextFields
<1> QED BY <1>1, <1>3, <1>4 DEF SharedSecret, Pairing

\* A share of decrypter i that passes verify holds e(U, Z_i).
LEMMA VerifiedValue ==
  ASSUME poly \in Polynomials(Threshold), NEW b \in Blindings, ContextsOf(b),
         NEW r \in Randomness, CiphertextOf(r),
         NEW share \in DecryptionShares, NEW i \in 1 .. NumPoints,
         VerifyShare(share, contexts[i].blinded_key_share,
                     contexts[i].validator_public_key, ciphertext)
  PROVE  share.decryption_share = Mul(r, KeyShare(i))
<1> DEFINE s == share.validator_checksum
           z == KeyShare(i)
           y == b[i]
<1>1. s \in Field /\ z \in Field /\ y \in Field
  BY ContextFacts DEF DecryptionShares
<1>2. share.decryption_share = Mul(s, Mul(z, y)) /\ Mul(s, y) = r
  BY ContextFacts, CiphertextFacts DEF VerifyShare, Pairing
<1> HIDE DEF s, z, y
<1>3. Mul(z, y) = Mul(y, z)
  BY <1>1, MulLaws
<1>4. Mul(Mul(s, y), z) = Mul(s, Mul(y, z))
  BY <1>1, MulLaws
<1> QED BY <1>2, <1>3, <1>4 DEF z

\* n shares with those values, of the different decrypters index, and their
\* points.
ValidShares(shares, domain, index, n, r) ==
    /\ n \in Nat /\ n >= Threshold
    /\ Len(shares) = n /\ Len(domain) = n
    /\ \A k \in 1 .. n :
          /\ index[k] \in 1 .. NumPoints
          /\ shares[k].decryption_share = Mul(r, KeyShare(index[k]))
          /\ domain[k] = contexts[index[k]].domain
    /\ \A i, j \in 1 .. n : index[i] = index[j] => i = j

\* They combine to the secret.
LEMMA ValuesCombine ==
  ASSUME poly \in Polynomials(Threshold), NEW b \in Blindings, ContextsOf(b),
         NEW r \in Randomness, CiphertextOf(r),
         NEW shares, NEW domain, NEW index, NEW n,
         ValidShares(shares, domain, index, n, r)
  PROVE  ShareCombineSimple(shares, PrepareCombineSimple(domain))
           = SharedSecret(ciphertext, poly[1])
<1>0. /\ n \in Nat /\ n >= Threshold /\ Len(shares) = n /\ Len(domain) = n
      /\ \A k \in 1 .. n : index[k] \in 1 .. NumPoints
      /\ \A i, j \in 1 .. n : index[i] = index[j] => i = j
  BY DEF ValidShares
<1>1. \A k \in 1 .. n : domain[k] = DomainPoint(index[k])
  BY <1>0, ContextFacts DEF ValidShares
<1>2. EnoughPoints(domain)
  <2>1. Distinct(domain, n)
    BY <1>0, <1>1, SelectedPointsDiffer
  <2> QED BY <1>0, <2>1 DEF EnoughPoints
<1>3. r \in Field
  BY CiphertextFacts
<1>4. SharesOf(shares, domain, poly, r)
  BY <1>0, <1>1 DEF ValidShares, SharesOf, KeyShare
<1>5. ShareCombineSimple(shares, PrepareCombineSimple(domain)) = Mul(r, poly[1])
  BY <1>2, <1>3, <1>4, SharesCombine
<1> QED BY <1>5, CiphertextFacts

-----------------------------------------------------------------------------
(***************************************************************************)
(* The shares that verify.                                                 *)
(***************************************************************************)

IsKept(g, n) ==
    g = [k \in 0 .. n |->
            IF k = 0 THEN <<>>
            ELSE IF VerifiedShare(received[k]) THEN Append(g[k - 1], received[k])
            ELSE g[k - 1]]

LEMMA KeptExists == \A n \in Nat : \E g : IsKept(g, n)
<1> DEFINE S == {n \in Nat : \E g : IsKept(g, n)}
<1>1. 0 \in S
  <2> DEFINE g == [k \in 0 .. 0 |-> <<>>]
  <2>1. IsKept(g, 0)
    BY DEF IsKept
  <2> QED BY <2>1
<1>2. ASSUME NEW n \in Nat, n \in S PROVE n + 1 \in S
  <2>1. PICK g : IsKept(g, n)
    BY <1>2
  <2> DEFINE top == IF VerifiedShare(received[n + 1])
                    THEN Append(g[n], received[n + 1]) ELSE g[n]
             h == [k \in 0 .. n + 1 |-> IF k = n + 1 THEN top ELSE g[k]]
  <2>2. \A k \in 0 .. n :
            g[k] = IF k = 0 THEN <<>>
                   ELSE IF VerifiedShare(received[k]) THEN Append(g[k - 1], received[k])
                   ELSE g[k - 1]
    BY <2>1 DEF IsKept
  <2>3. ASSUME NEW k \in 0 .. n + 1
        PROVE  h[k] = IF k = 0 THEN <<>>
                      ELSE IF VerifiedShare(received[k]) THEN Append(h[k - 1], received[k])
                      ELSE h[k - 1]
    <3>1. CASE k = n + 1
      BY <3>1
    <3>2. CASE k # n + 1
      BY <2>2, <3>2
    <3> QED BY <3>1, <3>2
  <2>4. h = [k \in 0 .. n + 1 |-> h[k]]
    OBVIOUS
  <2> HIDE DEF h
  <2>5. IsKept(h, n + 1)
    BY <2>3, <2>4 DEF IsKept
  <2> QED BY <2>5
<1> HIDE DEF S
<1>3. Nat \subseteq S
  BY <1>1, <1>2, Induction
<1> QED BY <1>3 DEF S

\* A sequence of verified shares among the first n, one of each decrypter.
VerifiedAmong(shares, n) ==
    /\ shares \in Seq(DecryptionShares)
    /\ \A a \in 1 .. Len(shares) :
          \E m \in 1 .. n : shares[a] = received[m] /\ VerifiedShare(received[m])
    /\ \A a, c \in 1 .. Len(shares) :
          shares[a].decrypter_index = shares[c].decrypter_index => a = c

LEMMA VerifiedStep ==
  ASSUME received \in Seq(DecryptionShares), OncePerDecrypter,
         NEW n \in 0 .. Len(received) - 1, NEW s, VerifiedAmong(s, n)
  PROVE  /\ VerifiedAmong(s, n + 1)
         /\ VerifiedShare(received[n + 1]) => VerifiedAmong(Append(s, received[n + 1]), n + 1)
<1> DEFINE x == received[n + 1]
<1>1. n \in Nat /\ n + 1 \in 1 .. Len(received) /\ x \in DecryptionShares
      /\ 1 .. n \subseteq 1 .. n + 1
  OBVIOUS
<1>2. VerifiedAmong(s, n + 1)
  BY <1>1 DEF VerifiedAmong
<1>3. ASSUME VerifiedShare(x) PROVE VerifiedAmong(Append(s, x), n + 1)
  <2> DEFINE t == Append(s, x)
  <2>1. /\ s \in Seq(DecryptionShares) /\ t \in Seq(DecryptionShares)
        /\ Len(t) = Len(s) + 1 /\ t[Len(s) + 1] = x
        /\ \A a \in 1 .. Len(s) : t[a] = s[a]
    BY <1>1 DEF VerifiedAmong
  <2> HIDE DEF t, x
  <2>2. ASSUME NEW a \in 1 .. Len(t)
        PROVE  \E m \in 1 .. n + 1 : t[a] = received[m] /\ VerifiedShare(received[m])
    <3>1. CASE a = Len(s) + 1
      <4>1. n + 1 \in 1 .. n + 1 /\ t[a] = received[n + 1] /\ VerifiedShare(received[n + 1])
        BY <1>1, <1>3, <2>1, <3>1 DEF x
      <4> QED BY <4>1
    <3>2. CASE a # Len(s) + 1
      <4>1. a \in 1 .. Len(s) /\ t[a] = s[a]
        BY <2>1, <3>2
      <4>2. \E m \in 1 .. n : s[a] = received[m] /\ VerifiedShare(received[m])
        BY <4>1 DEF VerifiedAmong
      <4> QED BY <1>1, <4>1, <4>2
    <3> QED BY <3>1, <3>2
  <2>3. \A a \in 1 .. Len(s) : s[a].decrypter_index # x.decrypter_index
    <3> TAKE a \in 1 .. Len(s)
    <3>1. PICK m \in 1 .. n : s[a] = received[m]
      BY DEF VerifiedAmong
    <3>2. m \in 1 .. Len(received) /\ m # n + 1
      BY <1>1
    <3> QED BY <1>1, <3>1, <3>2 DEF OncePerDecrypter, x
  <2>4. ASSUME NEW a \in 1 .. Len(t), NEW c \in 1 .. Len(t),
               t[a].decrypter_index = t[c].decrypter_index
        PROVE  a = c
    <3>1. CASE a \in 1 .. Len(s) /\ c \in 1 .. Len(s)
      BY <2>1, <2>4, <3>1 DEF VerifiedAmong
    <3>2. CASE a = Len(s) + 1 /\ c \in 1 .. Len(s)
      BY <2>1, <2>3, <2>4, <3>2
    <3>3. CASE c = Len(s) + 1 /\ a \in 1 .. Len(s)
      BY <2>1, <2>3, <2>4, <3>3
    <3> QED BY <2>1, <3>1, <3>2, <3>3
  <2>5. VerifiedAmong(t, n + 1)
    BY <2>1, <2>2, <2>4 DEF VerifiedAmong
  <2> QED BY <2>5 DEF t
<1> QED BY <1>2, <1>3

LEMMA VerifiedSharesFacts ==
  ASSUME received \in Seq(DecryptionShares), OncePerDecrypter
  PROVE  VerifiedAmong(VerifiedShares, Len(received))
<1> DEFINE n == Len(received)
           g == CHOOSE g : IsKept(g, n)
           S == {k \in 0 .. n : VerifiedAmong(g[k], k)}
<1>1. n \in Nat
  OBVIOUS
<1>2. IsKept(g, n)
  BY <1>1, KeptExists
<1>3. VerifiedShares = g[n]
  BY DEF VerifiedShares, IsKept
<1> HIDE DEF g
<1>4. \A k \in 0 .. n :
          g[k] = IF k = 0 THEN <<>>
                 ELSE IF VerifiedShare(received[k]) THEN Append(g[k - 1], received[k])
                 ELSE g[k - 1]
  BY <1>2 DEF IsKept
<1>5. 0 \in S
  <2>1. g[0] = <<>>
    BY <1>1, <1>4
  <2>2. VerifiedAmong(<<>>, 0)
    BY DEF VerifiedAmong
  <2> QED BY <1>1, <2>1, <2>2
<1>6. ASSUME NEW k \in 0 .. n - 1, k \in S PROVE k + 1 \in S
  <2>1. k + 1 \in 0 .. n /\ k + 1 # 0 /\ (k + 1) - 1 = k
    BY <1>1
  <2>2. g[k + 1] = IF VerifiedShare(received[k + 1]) THEN Append(g[k], received[k + 1])
                   ELSE g[k]
    BY <1>4, <2>1
  <2>3. VerifiedAmong(g[k], k)
    BY <1>6
  <2>4. VerifiedAmong(g[k + 1], k + 1)
    BY <2>2, <2>3, VerifiedStep
  <2> QED BY <2>1, <2>4
<1> HIDE DEF S
<1>7. 0 .. n \subseteq S
  BY <1>1, <1>5, <1>6, InductionUpTo
<1> QED BY <1>1, <1>3, <1>7 DEF S

-----------------------------------------------------------------------------
(***************************************************************************)
(* The invariant implies the properties of the combination.                *)
(***************************************************************************)

LEMMA VerifiedValuesCombine ==
  ASSUME IInv, NEW shares, VerifiedAmong(shares, Len(received)),
         Len(shares) >= Threshold
  PROVE  CombinedSecret(shares) = SharedSecret(ciphertext, poly[1])
<1> DEFINE index == [k \in 1 .. Len(shares) |-> shares[k].decrypter_index]
           domain == DomainOf(shares)
<1>1. PICK b \in Blindings : ContextsOf(b)
  BY DEF IInv
<1>2. PICK r \in Randomness : CiphertextOf(r)
  BY DEF IInv
<1>3. poly \in Polynomials(Threshold) /\ received \in Seq(DecryptionShares)
  BY DEF IInv
<1>4. shares \in Seq(DecryptionShares)
  BY DEF VerifiedAmong
<1>5. \A k \in 1 .. Len(shares) : shares[k] \in DecryptionShares
                                   /\ shares[k].decrypter_index \in 1 .. NumPoints
  BY <1>4, ShareFields
<1>6. Len(shares) \in Nat /\ index \in [1 .. Len(shares) -> 1 .. NumPoints]
  BY <1>4, <1>5
<1>7. \A i, j \in 1 .. Len(shares) : index[i] = index[j] => i = j
  BY DEF VerifiedAmong
<1>8. ASSUME NEW k \in 1 .. Len(shares)
      PROVE  shares[k].decryption_share = Mul(r, KeyShare(index[k]))
  <2>1. VerifiedShare(shares[k])
    BY DEF VerifiedAmong
  <2>2. index[k] = shares[k].decrypter_index
    OBVIOUS
  <2> HIDE DEF index
  <2>3. VerifyShare(shares[k], contexts[index[k]].blinded_key_share,
                    contexts[index[k]].validator_public_key, ciphertext)
    BY <2>1, <2>2 DEF VerifiedShare
  <2> QED BY <1>1, <1>2, <1>3, <1>5, <2>2, <2>3, VerifiedValue
<1>9. Len(domain) = Len(shares)
       /\ \A k \in 1 .. Len(shares) : domain[k] = contexts[index[k]].domain
  BY <1>4 DEF DomainOf
<1> HIDE DEF index, domain
<1>10. ValidShares(shares, domain, index, Len(shares), r)
  BY <1>6, <1>7, <1>8, <1>9 DEF ValidShares
<1>11. ShareCombineSimple(shares, PrepareCombineSimple(domain))
         = SharedSecret(ciphertext, poly[1])
  BY <1>1, <1>2, <1>3, <1>10, ValuesCombine
<1> QED BY <1>11 DEF CombinedSecret, domain

LEMMA VerifiedCombine == IInv => AnyVerifiedSharesCombine
<1> SUFFICES ASSUME IInv, Len(VerifiedShares) >= Threshold
             PROVE  CombinedSecret(VerifiedShares) = SharedSecret(ciphertext, poly[1])
  BY DEF AnyVerifiedSharesCombine
<1>1. VerifiedAmong(VerifiedShares, Len(received))
  BY VerifiedSharesFacts DEF IInv
<1> QED BY <1>1, VerifiedValuesCombine

\* Unchecked shares do as well when they all happen to verify.
LEMMA ReceivedCombine ==
  ASSUME IInv, Len(received) >= Threshold,
         \A k \in 1 .. Len(received) : VerifiedShare(received[k])
  PROVE  CombinedSecret(received) = SharedSecret(ciphertext, poly[1])
<1>1. VerifiedAmong(received, Len(received))
  BY DEF IInv, OncePerDecrypter, VerifiedAmong
<1> QED BY <1>1, VerifiedValuesCombine

LEMMA PositionalCombine == IInv => PositionalCheckSuffices
<1> DEFINE domain == [k \in 1 .. Len(received) |-> contexts[k].domain]
<1> SUFFICES ASSUME IInv,
                    Len(received) \in Threshold .. Len(contexts),
                    VerifyDecryptionSharesSimple(contexts, ciphertext, received)
             PROVE  ShareCombineSimple(received, PrepareCombineSimple(domain))
                      = SharedSecret(ciphertext, poly[1])
  BY DEF PositionalCheckSuffices
<1> DEFINE index == [k \in 1 .. Len(received) |-> k]
<1>1. PICK b \in Blindings : ContextsOf(b)
  BY DEF IInv
<1>2. PICK r \in Randomness : CiphertextOf(r)
  BY DEF IInv
<1>3. poly \in Polynomials(Threshold) /\ received \in Seq(DecryptionShares)
  BY DEF IInv
<1>4. Len(contexts) = NumPoints /\ NumPoints \in Nat /\ Threshold \in Nat
  BY <1>1, <1>3, ContextFacts, DomainPointsDiffer, SetupAssumption
<1>5. Len(received) \in Nat /\ index \in [1 .. Len(received) -> 1 .. NumPoints]
  BY <1>3, <1>4
<1>6. \A i, j \in 1 .. Len(received) : index[i] = index[j] => i = j
  OBVIOUS
<1>7. ASSUME NEW k \in 1 .. Len(received)
      PROVE  received[k].decryption_share = Mul(r, KeyShare(index[k]))
  <2>1. k \in 1 .. NumPoints /\ received[k] \in DecryptionShares /\ index[k] = k
    BY <1>3, <1>4
  <2>2. VerifyShare(received[k], contexts[k].blinded_key_share,
                    contexts[k].validator_public_key, ciphertext)
    BY <1>3, <1>4, <2>1 DEF VerifyDecryptionSharesSimple
  <2>3. received[k].decryption_share = Mul(r, KeyShare(k))
    BY <1>1, <1>2, <1>3, <2>1, <2>2, VerifiedValue
  <2> QED BY <2>1, <2>3
<1>8. Len(domain) = Len(received)
      /\ \A k \in 1 .. Len(received) : domain[k] = contexts[index[k]].domain
  BY <1>3
<1>9. Len(received) >= Threshold
  BY <1>3, <1>4
<1> HIDE DEF index, domain
<1>10. ValidShares(received, domain, index, Len(received), r)
  BY <1>5, <1>6, <1>7, <1>8, <1>9 DEF ValidShares
<1> QED BY <1>1, <1>2, <1>3, <1>10, ValuesCombine

LEMMA PrecomputedCombine == IInv => PrecomputedSharesAgree
<1> DEFINE n == Len(received)
           domain == DomainOf(received)
           lagrange == PrepareCombineSimple(domain)
           index == [k \in 1 .. n |-> received[k].decrypter_index]
           precomputed == [k \in 1 .. n |->
               CreateSharePrecomputed(ciphertext, index[k],
                   contexts[index[k]].private_key_share, lagrange[k])]
<1> SUFFICES ASSUME IInv, n >= Threshold
             PROVE  ShareCombineSimplePrecomputed(precomputed)
                      = SharedSecret(ciphertext, poly[1])
  BY DEF PrecomputedSharesAgree
<1>1. PICK b \in Blindings : ContextsOf(b)
  BY DEF IInv
<1>2. PICK r \in Randomness : CiphertextOf(r)
  BY DEF IInv
<1>3. poly \in Polynomials(Threshold) /\ received \in Seq(DecryptionShares) /\ n \in Nat
  BY DEF IInv
<1>4. \A k \in 1 .. n : received[k].decrypter_index \in 1 .. NumPoints
  BY <1>3, ShareFields
<1>5. /\ index \in [1 .. n -> 1 .. NumPoints]
      /\ \A k \in 1 .. n : index[k] \in 1 .. NumPoints
      /\ \A i, j \in 1 .. n : index[i] = index[j] => i = j
  BY <1>4 DEF IInv, OncePerDecrypter
<1>6. Len(domain) = n /\ \A k \in 1 .. n : domain[k] = contexts[index[k]].domain
  BY <1>3 DEF DomainOf
<1>7. \A k \in 1 .. n : domain[k] = DomainPoint(index[k])
  BY <1>1, <1>3, <1>5, <1>6, ContextFacts
<1>8. Distinct(domain, n)
  BY <1>3, <1>5, <1>7, SelectedPointsDiffer
<1>9. r \in Field /\ 0 \in Field /\ ciphertext.commitment = r
  BY <1>2, <1>3, CiphertextFacts, Closed
\* The shares the client would get without the coefficients.
<1> DEFINE shares == [k \in 1 .. n |-> [decryption_share |-> Mul(r, KeyShare(index[k]))]]
           f == [k \in 1 .. n |-> precomputed[k].decryption_share]
           g == [k \in 1 .. n |-> Mul(shares[k].decryption_share, lagrange[k])]
<1>10. ASSUME NEW k \in 1 .. n PROVE f[k] = g[k]
  <2> DEFINE z == KeyShare(index[k])  l == lagrange[k]
  <2>1. z \in Field /\ z = contexts[index[k]].private_key_share
    BY <1>1, <1>3, <1>5, ContextFacts
  <2>2. l \in Field
    BY <1>3, <1>6, <1>8, <1>9, LagrangeIsBasis, BasisInField DEF PrepareCombineSimple
  <2>3. f[k] = Mul(Mul(r, l), z)
    BY <1>9, <2>1 DEF CreateSharePrecomputed, Pairing
  <2>4. g[k] = Mul(Mul(r, z), l)
    OBVIOUS
  <2> HIDE DEF z, l, f, g
  <2>5. Mul(Mul(r, l), z) = Mul(r, Mul(l, z)) /\ Mul(Mul(r, z), l) = Mul(r, Mul(z, l))
    BY <1>9, <2>1, <2>2, MulLaws
  <2>6. Mul(l, z) = Mul(z, l)
    BY <2>1, <2>2, MulLaws
  <2> QED BY <2>3, <2>4, <2>5, <2>6
<1>11. ShareCombineSimplePrecomputed(precomputed) = SumTo(f, n)
  <2>1. Len(precomputed) = n
    BY <1>3
  <2> HIDE DEF precomputed
  <2> QED BY <2>1 DEF ShareCombineSimplePrecomputed
<1>12. SumTo(f, n) = SumTo(g, n)
  <2> HIDE DEF f, g
  <2> QED BY <1>3, <1>10, SameSum
<1>13. Len(shares) = n /\ \A k \in 1 .. n :
           shares[k].decryption_share = Mul(r, KeyShare(index[k]))
  BY <1>3
<1>14. ShareCombineSimple(shares, lagrange) = SumTo(g, n)
  <2>1. Len(lagrange) = n
    BY <1>3, <1>6 DEF PrepareCombineSimple, LagrangeBasisAt
  <2> HIDE DEF shares, lagrange
  <2> QED BY <1>3, <1>13, <2>1 DEF ShareCombineSimple
<1> HIDE DEF domain, index, shares
<1>15. ShareCombineSimple(shares, lagrange) = SharedSecret(ciphertext, poly[1])
  <2>1. ValidShares(shares, domain, index, n, r)
    BY <1>3, <1>5, <1>6, <1>13 DEF ValidShares
  <2> QED BY <1>1, <1>2, <1>3, <2>1, ValuesCombine
<1> QED BY <1>11, <1>12, <1>14, <1>15

-----------------------------------------------------------------------------
(***************************************************************************)
(* Decryption.                                                             *)
(***************************************************************************)

\* Every text but the one sent fails to open under the shared secret, and the
\* text of what does open is the message.
LEMMA OpeningTexts ==
  ASSUME NEW r, NEW v \in {Sent(r).ciphertext} \cup OtherTexts(r)
  PROVE  /\ \A s : Opens(s, r, v) => v[1].plaintext = Message
         /\ Pairing(Mul(poly[1], r), 1) \in Field =>
                (Opens(Pairing(Mul(poly[1], r), 1), r, v) <=> v = Sent(r).ciphertext)
<1> DEFINE key == Pairing(Mul(poly[1], r), 1)
           sealed == Sent(r).ciphertext
<1>1. sealed = <<[key |-> key, nonce |-> r, plaintext |-> Message]>>
  BY SentFacts
<1> HIDE DEF key, sealed
<1>2. CASE v = sealed
  BY <1>1, <1>2 DEF Opens, sealed, key
<1>3. CASE v = <<>>
  <2>1. v # sealed /\ Len(v) = 0
    BY <1>1, <1>3
  <2> QED BY <2>1 DEF Opens, sealed, key
<1>4. CASE v = sealed \o Aad
  <2>1. Len(sealed) = 1 /\ Len(v) = 2
    BY <1>1, <1>4 DEF Aad
  <2> QED BY <2>1 DEF Opens, sealed, key
<1>5. CASE v = Seal(Add(sealed[1].key, 1), r, Message)
  <2>1. v = <<[key |-> Add(key, 1), nonce |-> r, plaintext |-> Message]>>
    BY <1>1, <1>5 DEF Seal
  <2>2. v[1].plaintext = Message /\ v[1].key = Add(key, 1) /\ sealed[1].key = key
    BY <1>1, <2>1
  <2>3. key \in Field => Add(key, 1) # key
    BY SuccessorDiffers
  <2> QED BY <2>2, <2>3 DEF Opens, sealed, key
<1> QED BY <1>2, <1>3, <1>4, <1>5 DEF OtherTexts, sealed

\* For the text sent, the tag tells the additional data apart.
LEMMA TagTellsData ==
  ASSUME NEW r, NEW data \in AdditionalData(r)
  PROVE  ConstructTagHash(r, Sent(r).ciphertext, data)
             = ConstructTagHash(r, Sent(r).ciphertext, Aad) <=> data = Aad
<1> DEFINE H(d) == ConstructTagHash(r, Sent(r).ciphertext, d)
           long == Sent(r).ciphertext \o Aad
<1>1. PICK x : Sent(r).ciphertext = <<x>>
  BY SentFacts
<1>2. \A y : Len(<<r>> \o <<x>> \o <<y>>) = 3 /\ (<<r>> \o <<x>> \o <<y>>)[3] = y
  OBVIOUS
<1>3. /\ Len(H(Aad)) = 3 /\ H(Aad)[3] = "aad"
      /\ H(OtherAad)[3] = "other"
  BY <1>1, <1>2 DEF ConstructTagHash, Aad, OtherAad
<1>4. Len(H(<<>>)) = 2
  BY <1>1 DEF ConstructTagHash
<1>5. Len(H(long)) = 4
  BY <1>1 DEF ConstructTagHash, Aad
<1> HIDE DEF H, long
<1>6. \A d : (Len(H(d)) # 3 \/ H(d)[3] # "aad") => H(d) # H(Aad)
  BY <1>3
<1>7. data \in {Aad, OtherAad, <<>>, long}
  BY DEF AdditionalData, long
<1>8. CASE data = OtherAad
  BY <1>3, <1>6, <1>8 DEF H, Aad, OtherAad
<1>9. CASE data = <<>>
  BY <1>4, <1>6, <1>9 DEF H, Aad
<1>10. CASE data = long
  <2>1. H(data) # H(Aad)
    BY <1>5, <1>6, <1>10
  <2>2. data # Aad
    BY <2>1
  <2> QED BY <2>1, <2>2 DEF H
<1> QED BY <1>7, <1>8, <1>9, <1>10 DEF H

\* What decryption makes of a secret, and of the right one.
LEMMA DecryptionResult ==
  ASSUME IInv, NEW s
  PROVE  LET c == ciphertext
             result == CheckedDecryptWithSharedSecret(c, aad, s)
         IN  /\ result \in Results
             /\ result = "err" <=>
                   c.auth_tag[2] # ConstructTagHash(c.commitment, c.ciphertext, aad)
             /\ s = SharedSecret(c, poly[1]) =>
                   (result = Message <=>
                       c.ciphertext = Sent(c.commitment).ciphertext /\ aad = Aad)
<1> DEFINE c == ciphertext
           v == c.ciphertext
           result == CheckedDecryptWithSharedSecret(c, aad, s)
<1>1. PICK r \in Randomness : CiphertextOf(r) /\ aad \in AdditionalData(r)
  BY DEF IInv
<1>2. /\ c.commitment = r
      /\ v \in {Sent(r).ciphertext} \cup OtherTexts(r)
      /\ c.auth_tag = <<r, c.auth_tag[2]>>
      /\ v = Sent(r).ciphertext =>
             c.auth_tag[2] = ConstructTagHash(r, Sent(r).ciphertext, Aad)
  BY <1>1, CiphertextFields
<1>3. CheckCiphertextValidity(c, aad) <=> c.auth_tag[2] = ConstructTagHash(r, v, aad)
  <2> DEFINE h == ConstructTagHash(r, v, aad)  t == c.auth_tag[2]
  <2>1. CheckCiphertextValidity(c, aad) <=> <<r, t>> = <<r, h>>
    BY <1>2 DEF CheckCiphertextValidity
  <2> HIDE DEF h, t
  <2> QED BY <2>1 DEF h, t
<1>4. result = IF ~CheckCiphertextValidity(c, aad) THEN "err"
               ELSE IF Opens(s, r, v) THEN v[1].plaintext ELSE "panic"
  BY <1>2 DEF CheckedDecryptWithSharedSecret
<1>5. Opens(s, r, v) => v[1].plaintext = Message
  BY <1>2, OpeningTexts
<1>6. Message # "err" /\ Message # "panic"
  BY DEF Message
<1>7. ASSUME s = SharedSecret(c, poly[1]) PROVE Opens(s, r, v) <=> v = Sent(r).ciphertext
  <2>1. r \in Field /\ poly[1] \in Field /\ s = Mul(r, poly[1])
    BY <1>1, <1>7, CiphertextFacts DEF IInv
  <2>2. Mul(poly[1], r) = s /\ s \in Field
    BY <2>1, MulLaws, Closed
  <2>3. Pairing(Mul(poly[1], r), 1) = s
    BY <2>2, MulLaws DEF Pairing
  <2> QED BY <1>2, <2>2, <2>3, OpeningTexts
<1>8. v = Sent(r).ciphertext => (CheckCiphertextValidity(c, aad) <=> aad = Aad)
  BY <1>1, <1>2, <1>3, TagTellsData
<1> HIDE DEF result, v
<1>9. result \in Results /\ (result = "err" <=> ~CheckCiphertextValidity(c, aad))
  BY <1>4, <1>5, <1>6 DEF Results
<1>10. ASSUME s = SharedSecret(c, poly[1])
       PROVE  result = Message <=> v = Sent(r).ciphertext /\ aad = Aad
  BY <1>4, <1>5, <1>6, <1>7, <1>8, <1>10
<1> QED BY <1>2, <1>3, <1>9, <1>10 DEF result, v

-----------------------------------------------------------------------------
(***************************************************************************)
(* The invariant.                                                          *)
(***************************************************************************)

LEMMA InvInit == Init => IInv /\ DecryptionOutcome
<1> SUFFICES ASSUME Init PROVE IInv /\ DecryptionOutcome
  OBVIOUS
<1>1. poly \in Polynomials(Threshold) /\ outcome = NoOutcome
  BY DEF Init
<1>2. /\ \E b \in Blindings : ContextsOf(b)
      /\ \E r \in Randomness : CiphertextOf(r) /\ aad \in AdditionalData(r)
  BY DEF Init, ContextsOf, CiphertextOf
<1>3. received \in Seq(DecryptionShares) /\ OncePerDecrypter
  BY DEF Init, OncePerDecrypter
<1> QED BY <1>1, <1>2, <1>3 DEF IInv, Outcomes, DecryptionOutcome

\* No step touches the contexts, the ciphertext or the data.
InputsKept ==
    /\ poly' \in Polynomials(Threshold)
    /\ (\E b \in Blindings : ContextsOf(b))'
    /\ (\E r \in Randomness : CiphertextOf(r) /\ aad \in AdditionalData(r))'

LEMMA SameInputs ==
  ASSUME IInv, UNCHANGED <<poly, contexts, ciphertext, aad>>
  PROVE  InputsKept
<1>1. PICK b \in Blindings : ContextsOf(b)
  BY DEF IInv
<1>2. PICK r \in Randomness : CiphertextOf(r) /\ aad \in AdditionalData(r)
  BY DEF IInv
<1>3. ContextsOf(b)'
  BY <1>1 DEF ContextsOf
<1>4. (CiphertextOf(r) /\ aad \in AdditionalData(r))'
  BY <1>2 DEF CiphertextOf, Ciphertexts, AdditionalData, OtherTexts, Altered,
              Retagged, Sent
<1> QED BY <1>3, <1>4 DEF IInv, InputsKept

\* A share of a decrypter that has none yet may arrive.
LEMMA ArrivalKeepsInv ==
  ASSUME IInv, NEW share \in DecryptionShares,
         Shares(share.decrypter_index) = {},
         received' = Append(received, share),
         UNCHANGED <<poly, contexts, ciphertext, aad, outcome>>
  PROVE  IInv'
<1>1. received \in Seq(DecryptionShares)
  BY DEF IInv
<1>2. /\ received' \in Seq(DecryptionShares)
      /\ Len(received') = Len(received) + 1
      /\ received'[Len(received) + 1] = share
      /\ \A k \in 1 .. Len(received) : received'[k] = received[k]
  BY <1>1
<1>3. \A k \in 1 .. Len(received) :
          received[k].decrypter_index # share.decrypter_index
  BY DEF Shares
<1>4. OncePerDecrypter'
  <2> SUFFICES ASSUME NEW k \in 1 .. Len(received'), NEW l \in 1 .. Len(received'),
                      received'[k].decrypter_index = received'[l].decrypter_index
               PROVE  k = l
    BY DEF OncePerDecrypter
  <2>1. CASE k \in 1 .. Len(received) /\ l \in 1 .. Len(received)
    BY <1>2, <2>1 DEF IInv, OncePerDecrypter
  <2>2. CASE k = Len(received) + 1 \/ l = Len(received) + 1
    BY <1>1, <1>2, <1>3, <2>2
  <2> QED BY <1>1, <1>2, <2>1, <2>2
<1>5. InputsKept
  BY SameInputs
<1> QED BY <1>2, <1>4, <1>5 DEF IInv, InputsKept

\* What create makes, and its damaged forms, are shares.
LEMMA CreatedIsShare ==
  ASSUME IInv, NEW i \in 1 .. Len(contexts)
  PROVE  LET share == DecryptionShareSimple(ciphertext, i, contexts[i].private_key_share,
                                            contexts[i].validator_public_key)
             blinded == contexts[i].blinded_key_share
         IN  /\ share \in DecryptionShares
             /\ share.decrypter_index = i
             /\ [share EXCEPT !.decryption_share = Add(@, 1)] \in DecryptionShares
             /\ [share EXCEPT !.decryption_share = Add(@, 1)].decrypter_index = i
             /\ [share EXCEPT !.decryption_share = Pairing(1, blinded),
                              !.validator_checksum = 1] \in DecryptionShares
             /\ [share EXCEPT !.decryption_share = Pairing(1, blinded),
                              !.validator_checksum = 1].decrypter_index = i
<1>1. PICK b \in Blindings : ContextsOf(b)
  BY DEF IInv
<1>2. PICK r \in Randomness : CiphertextOf(r)
  BY DEF IInv
<1>3. poly \in Polynomials(Threshold)
  BY DEF IInv
<1> DEFINE z == contexts[i].private_key_share
           y == contexts[i].validator_public_key
           blinded == contexts[i].blinded_key_share
           share == DecryptionShareSimple(ciphertext, i, z, y)
<1>4. i \in 1 .. NumPoints
  BY <1>1, <1>3, ContextFacts
<1>5. z \in Field /\ y \in Field \ {0} /\ blinded \in Field
  BY <1>1, <1>3, <1>4, ContextFacts
<1>6. r \in Field /\ ciphertext.commitment = r
  BY <1>2, <1>3, CiphertextFacts
<1> HIDE DEF z, y, blinded
<1>7. Inv(y) \in Field
  BY <1>5, InverseLaws
<1>8. Mul(r, z) \in Field /\ Mul(r, Inv(y)) \in Field
  BY <1>5, <1>6, <1>7, Closed
<1>9. Add(Mul(r, z), 1) \in Field /\ Mul(1, blinded) \in Field /\ 1 \in Field
  BY <1>5, <1>8, Closed
<1>10. share = [decrypter_index |-> i, decryption_share |-> Mul(r, z),
                validator_checksum |-> Mul(r, Inv(y))]
  BY <1>6 DEF DecryptionShareSimple, Pairing
<1> HIDE DEF share
<1>11. share \in DecryptionShares /\ share.decrypter_index = i
  BY <1>4, <1>8, <1>10 DEF DecryptionShares
<1>12. /\ [share EXCEPT !.decryption_share = Add(@, 1)] \in DecryptionShares
       /\ [share EXCEPT !.decryption_share = Add(@, 1)].decrypter_index = i
  BY <1>4, <1>8, <1>9, <1>10 DEF DecryptionShares
<1>13. /\ [share EXCEPT !.decryption_share = Pairing(1, blinded),
                        !.validator_checksum = 1] \in DecryptionShares
       /\ [share EXCEPT !.decryption_share = Pairing(1, blinded),
                        !.validator_checksum = 1].decrypter_index = i
  BY <1>4, <1>8, <1>9, <1>10 DEF DecryptionShares, Pairing
<1> QED BY <1>11, <1>12, <1>13 DEF share, z, y, blinded

\* A decryption, whose secret is the right one where the property asks for it.
LEMMA EndsKeepsInv ==
  ASSUME IInv, NEW s, NEW from \in {"verified", "received", "key"},
         Ends(from, CheckedDecryptWithSharedSecret(ciphertext, aad, s)),
         (from = "received" =>
             /\ Len(received) >= Threshold
             /\ \A k \in 1 .. Len(received) : VerifiedShare(received[k]))
           => s = SharedSecret(ciphertext, poly[1])
  PROVE  IInv' /\ DecryptionOutcome'
<1> DEFINE result == CheckedDecryptWithSharedSecret(ciphertext, aad, s)
<1>1. /\ outcome' = [from |-> from, result |-> result]
      /\ UNCHANGED <<poly, contexts, ciphertext, aad, received>>
  BY DEF Ends
<1>2. /\ result \in Results
      /\ result = "err" <=>
            ciphertext.auth_tag[2] #
                ConstructTagHash(ciphertext.commitment, ciphertext.ciphertext, aad)
      /\ s = SharedSecret(ciphertext, poly[1]) =>
            (result = Message <=>
                /\ ciphertext.ciphertext = Sent(ciphertext.commitment).ciphertext
                /\ aad = Aad)
  BY DecryptionResult
<1> HIDE DEF result
<1>3. outcome'.from = from /\ outcome'.result = result
  BY <1>1
<1>4. outcome' \in Outcomes
  BY <1>1, <1>2 DEF Outcomes
<1>5. OncePerDecrypter' /\ received' \in Seq(DecryptionShares)
  BY <1>1 DEF IInv, OncePerDecrypter
<1>6. IInv'
  BY <1>1, <1>4, <1>5, SameInputs DEF IInv, InputsKept
<1>7. \A k : VerifiedShare(received[k])' <=> VerifiedShare(received[k])
  BY <1>1 DEF VerifiedShare
<1>8. Sent(ciphertext.commitment)' = Sent(ciphertext.commitment)
  BY <1>1 DEF Sent
<1>9. DecryptionOutcome'
  BY <1>1, <1>2, <1>3, <1>7, <1>8 DEF DecryptionOutcome
<1> QED BY <1>6, <1>9

LEMMA InvStep ==
  IInv /\ DecryptionOutcome /\ [Next]_vars => IInv' /\ DecryptionOutcome'
<1> SUFFICES ASSUME IInv, DecryptionOutcome, [Next]_vars
             PROVE  IInv' /\ DecryptionOutcome'
  OBVIOUS
<1>1. ASSUME NEW i \in 1 .. Len(contexts), CreateShare(i)
      PROVE  IInv' /\ DecryptionOutcome'
  <2> DEFINE share == DecryptionShareSimple(ciphertext, i, contexts[i].private_key_share,
                                            contexts[i].validator_public_key)
  <2>1. share \in DecryptionShares /\ share.decrypter_index = i
    BY CreatedIsShare
  <2>2. received' = Append(received, share)
    BY <1>1 DEF CreateShare
  <2>3. Shares(i) = {} /\ UNCHANGED <<poly, contexts, ciphertext, aad, outcome>>
        /\ outcome = NoOutcome
    BY <1>1 DEF CreateShare
  <2> HIDE DEF share
  <2>4. IInv'
    BY <2>1, <2>2, <2>3, ArrivalKeepsInv
  <2> QED BY <2>3, <2>4 DEF DecryptionOutcome
<1>2. ASSUME NEW i \in 1 .. Len(contexts), DamagedShare(i)
      PROVE  IInv' /\ DecryptionOutcome'
  <2> DEFINE share == DecryptionShareSimple(ciphertext, i, contexts[i].private_key_share,
                                            contexts[i].validator_public_key)
             wrong == [share EXCEPT !.decryption_share = Add(@, 1)]
             other == [share EXCEPT !.decryption_share =
                                        Pairing(1, contexts[i].blinded_key_share),
                                    !.validator_checksum = 1]
  <2>1. /\ wrong \in DecryptionShares /\ wrong.decrypter_index = i
        /\ other \in DecryptionShares /\ other.decrypter_index = i
    BY CreatedIsShare
  <2>2. received' = Append(received, wrong) \/ received' = Append(received, other)
    BY <1>2 DEF DamagedShare
  <2>3. Shares(i) = {} /\ UNCHANGED <<poly, contexts, ciphertext, aad, outcome>>
        /\ outcome = NoOutcome
    BY <1>2 DEF DamagedShare
  <2> HIDE DEF wrong, other
  <2>4. IInv'
    BY <2>1, <2>2, <2>3, ArrivalKeepsInv
  <2> QED BY <2>3, <2>4 DEF DecryptionOutcome
<1>3. CASE Decrypt
  <2>1. CombinedSecret(VerifiedShares) = SharedSecret(ciphertext, poly[1])
    BY <1>3, VerifiedCombine DEF Decrypt, AnyVerifiedSharesCombine
  <2>2. Ends("verified", CheckedDecryptWithSharedSecret(ciphertext, aad,
                                                        CombinedSecret(VerifiedShares)))
    BY <1>3 DEF Decrypt
  <2> QED BY <2>1, <2>2, EndsKeepsInv
<1>4. CASE DecryptUnchecked
  <2>1. Ends("received", CheckedDecryptWithSharedSecret(ciphertext, aad,
                                                        CombinedSecret(received)))
    BY <1>4 DEF DecryptUnchecked
  <2> QED BY <2>1, ReceivedCombine, EndsKeepsInv
<1>5. CASE DecryptAlone
  <2>1. Ends("key", CheckedDecryptWithSharedSecret(ciphertext, aad,
                                                   SharedSecret(ciphertext, poly[1])))
    BY <1>5 DEF DecryptAlone, CheckedDecrypt, SharedSecret
  <2> QED BY <2>1, EndsKeepsInv
<1>6. CASE UNCHANGED vars
  <2>1. OncePerDecrypter'
    BY <1>6 DEF vars, IInv, OncePerDecrypter
  <2>2. InputsKept
    BY <1>6, SameInputs DEF vars
  <2>3. DecryptionOutcome'
    BY <1>6 DEF vars, DecryptionOutcome, Sent, VerifiedShare
  <2> QED BY <1>6, <2>1, <2>2, <2>3 DEF vars, IInv, InputsKept
<1> QED BY <1>1, <1>2, <1>3, <1>4, <1>5, <1>6 DEF Next

LEMMA InvImpliesTypeOK == IInv => TypeOK
<1> SUFFICES ASSUME IInv PROVE TypeOK
  OBVIOUS
<1>1. PICK b \in Blindings : ContextsOf(b)
  BY DEF IInv
<1>2. poly \in Polynomials(Threshold) /\ received \in Seq(DecryptionShares)
      /\ outcome \in Outcomes
  BY DEF IInv
<1>3. Len(contexts) = NumPoints
  BY <1>1, <1>2, ContextFacts
<1>4. \A k \in 1 .. Len(received) :
          /\ received[k].decrypter_index \in 1 .. Len(contexts)
          /\ received[k].decryption_share \in Field
          /\ received[k].validator_checksum \in Field
  BY <1>2, <1>3, ShareFields
<1>5. ASSUME NEW i \in 1 .. Len(contexts) PROVE Cardinality(Shares(i)) <= 1
  <2>1. CASE Shares(i) = {}
    BY <2>1, FS_EmptySet
  <2>2. CASE Shares(i) # {}
    <3>1. PICK k \in Shares(i) : TRUE
      BY <2>2
    <3>2. Shares(i) = {k}
      BY <3>1 DEF Shares, IInv, OncePerDecrypter
    <3>3. Cardinality(Shares(i)) = 1
      BY <3>2, FS_Singleton, Zenon
    <3> QED BY <3>3
  <2> QED BY <2>1, <2>2
<1>6. outcome # NoOutcome => outcome.result \in {"err", "panic", Message}
  BY <1>2 DEF Outcomes, Results
<1> QED BY <1>2, <1>4, <1>5, <1>6 DEF TypeOK

LEMMA Inductive == Spec => [](IInv /\ DecryptionOutcome)
<1>1. Init => IInv /\ DecryptionOutcome
  BY InvInit
<1>2. IInv /\ DecryptionOutcome /\ [Next]_vars => IInv' /\ DecryptionOutcome'
  BY InvStep
<1> QED BY <1>1, <1>2, PTL DEF Spec

-----------------------------------------------------------------------------
(***************************************************************************)
(* Every decrypter is received once, with values in the field, and the     *)
(* outcome is one of those checked_decrypt_with_shared_secret has.         *)
(***************************************************************************)
THEOREM TypeCorrect == Spec => []TypeOK
BY Inductive, InvImpliesTypeOK, PTL

(***************************************************************************)
(* share_combine_simple: shares that pass verify, of any decrypters in any *)
(* order, combine to the secret once there are Threshold of them.          *)
(***************************************************************************)
THEOREM VerifiedSharesGiveSecret == Spec => []AnyVerifiedSharesCombine
BY Inductive, VerifiedCombine, PTL

(***************************************************************************)
(* verify_decryption_shares_simple ignores decrypter_index, and may: what  *)
(* it accepts by position combines by position to the secret.              *)
(***************************************************************************)
THEOREM PositionalCheckIsEnough == Spec => []PositionalCheckSuffices
BY Inductive, PositionalCombine, PTL

(***************************************************************************)
(* create_share_precomputed: applying the Lagrange coefficient before the  *)
(* pairing gives shares whose plain sum is the secret.                     *)
(***************************************************************************)
THEOREM PrecomputedSharesGiveSecret == Spec => []PrecomputedSharesAgree
BY Inductive, PrecomputedCombine, PTL

(***************************************************************************)
(* checked_decrypt and checked_decrypt_with_shared_secret, on ciphertexts  *)
(* and data encrypt did not make as well: an Err exactly when the tag is   *)
(* not theirs, and, from the right secret, the message exactly when text   *)
(* and data are those encrypt had.  All else is the panic of the unwrap.   *)
(***************************************************************************)
THEOREM DecryptionOutcomes == Spec => []DecryptionOutcome
BY Inductive, PTL
=============================================================================
