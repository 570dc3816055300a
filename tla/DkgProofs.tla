----------------------------- MODULE DkgProofs ------------------------------
(***************************************************************************)
(* Theorems about DkgChain, for every validator set, every parameters and  *)
(* every bound, in three parts: what one replica's session satisfies, the  *)
(* agreement of the replicas, and the refinement of KeyGeneration.         *)
(***************************************************************************)
EXTENDS DkgRefinement, FiniteSetTheorems, TLAPS

-----------------------------------------------------------------------------
(***************************************************************************)
(* Lemmas about the operators of PvDkg.                                    *)
(***************************************************************************)

\* The sum of the F_0 of received transcripts is a formal sum of secrets.
LEMMA FinalKeyType ==
    ASSUME NEW vss, IsVss(vss)
    PROVE  FinalKey(vss) \in KeySums
<1>1. ASSUME NEW s \in Secrets
      PROVE  Cardinality({v \in DOMAIN vss : vss[v].coeff0 = s}) \in Nat
    <2>1. {v \in DOMAIN vss : vss[v].coeff0 = s} \subseteq Validators
        BY DEF IsVss
    <2>2. QED
        BY <2>1, FS_Subset, FS_CardinalityType, ValidatorsAssumption
<1>2. QED
    BY <1>1 DEF FinalKey, KeySums

\* Inserting a transcript keeps the map a map of transcripts.
LEMMA InsertVssType ==
    ASSUME NEW vss, IsVss(vss), NEW v \in Validators, NEW pvss \in Transcripts
    PROVE  IsVss(InsertVss(vss, v, pvss))
BY DEF IsVss, InsertVss

\* A transcript that Pvss::new or a faulty validator builds has its type.
LEMMA PvssNewType ==
    ASSUME NEW s \in Secrets
    PROVE  PvssNew(s) \in Transcripts
BY DEF PvssNew, Transcripts

\* apply_message returns a session, for every message.
LEMMA ApplyMessageType ==
    ASSUME NEW d, IsDkg(d), NEW m \in Messages
    PROVE  IsDkg(ApplyMessage(d, m))
<1>1. CASE ~ApplyDefined(d, m)
    BY <1>1 DEF ApplyMessage
<1>2. CASE ApplyDefined(d, m) /\ m.type = "Deal"
    <2>1. m.sender.address \in Validators /\ m.pvss \in Transcripts
        BY <1>2 DEF ApplyDefined, Messages
    <2>2. IsVss(InsertVss(d.vss, m.sender.address, m.pvss))
        BY <2>1, InsertVssType DEF IsDkg
    <2>3. IsDkg(ApplyDeal(d, m))
        BY <2>2 DEF IsDkg, ApplyDeal
    <2>4. QED
        BY <1>2, <2>3 DEF ApplyMessage
<1>3. CASE ApplyDefined(d, m) /\ m.type # "Deal"
    <2>1. FinalKey(d.vss) \in KeySums
        BY FinalKeyType DEF IsDkg
    <2>2. IsDkg(ApplyAggregate(d))
        BY <2>1 DEF IsDkg, ApplyAggregate
    <2>3. QED
        BY <1>3, <2>2 DEF ApplyMessage
<1>4. QED
    BY <1>1, <1>2, <1>3

\* A session that is saved and read back is the same session; the block
\* counter comes back as it was or, outside Sharing, as 0.
LEMMA SaveRestore ==
    ASSUME NEW d, IsDkg(d), NEW b, NEW h
    PROVE  LET s == Save(d, b, h)
           IN  /\ Deserialize(s.bytes, s.vss) = d
               /\ DeserializeBlock(s.bytes) \in {0, b}
               /\ s.height = h
<1> DEFINE s == Save(d, b, h)
<1>1. s.bytes = Serialize(d, b) /\ s.vss = d.vss /\ s.height = h
    BY DEF Save
<1>2. CASE d.state = "Sharing"
    <2>1. s.bytes = <<0, d.accumulated_shares, b>>
        BY <1>1, <1>2 DEF Serialize
    <2>2. QED
        BY <1>1, <1>2, <2>1 DEF Deserialize, DeserializeBlock, IsDkg
<1>3. CASE d.state = "Dealt"
    <2>1. s.bytes = <<1>>
        BY <1>1, <1>3 DEF Serialize
    <2>2. QED
        BY <1>1, <1>3, <2>1 DEF Deserialize, DeserializeBlock, IsDkg
<1>4. CASE d.state = "Success"
    <2>1. s.bytes = <<2, d.final_key>>
        BY <1>1, <1>4 DEF Serialize
    <2>2. QED
        BY <1>1, <1>4, <2>1 DEF Deserialize, DeserializeBlock, IsDkg
<1>5. QED
    BY <1>2, <1>3, <1>4 DEF IsDkg

-----------------------------------------------------------------------------
(***************************************************************************)
(* Type correctness.                                                       *)
(***************************************************************************)

\* Whatever a faulty validator posts as a Deal is a message.
LEMMA FaultyDealType ==
    ASSUME NEW v \in Validators, NEW s \in Secrets,
           NEW fault \in Faults \ {"wrong_key", "wrong_sum"}
    PROVE  FaultyDeal(v, PvssNew(s), fault) \in Messages
<1>1. fault \in {"bad_proof", "bad_shares", "bad_length", "rotated_key",
                 "stranger"}
    BY ChainAssumption DEF FaultKinds
<1>2. /\ [PvssNew(s) EXCEPT !.sigma = NoSecret] \in Transcripts
      /\ [PvssNew(s) EXCEPT !.consistent = FALSE] \in Transcripts
      /\ [PvssNew(s) EXCEPT !.len = "other"] \in Transcripts
      /\ PvssNew(s) \in Transcripts
    BY DEF PvssNew, Transcripts
<1>3. /\ Listed(v) \in Senders
      /\ Listed(Stranger) \in Senders
      /\ [address |-> v, public_key |-> "rotated"] \in Senders
    BY DEF Listed, Senders
<1>4. \A snd \in Senders, p \in Transcripts : Deal(snd, p) \in Messages
    BY DEF Deal, Messages
<1>5. QED
    BY <1>1, <1>2, <1>3, <1>4 DEF FaultyDeal

\* The secret of a draw within the bound is a secret.
LEMMA DrawIsSecret ==
    ASSUME NEW v \in Validators, NEW n \in 0 .. MaxShares, n < MaxShares
    PROVE  /\ <<v, n + 1>> \in Secrets
           /\ n + 1 \in 0 .. MaxShares
BY ParamsAssumption DEF Secrets

\* A larger pool keeps the chain a sequence of posted messages.
LEMMA SeqMonotone ==
    ASSUME NEW S, NEW T, S \subseteq T, NEW c \in Seq(S)
    PROVE  c \in Seq(T)
OBVIOUS

\* Posting one message changes no typing.
LEMMA PostType ==
    ASSUME TypeOK, NEW m \in Messages, pool' = pool \cup {m},
           UNCHANGED <<dkg, block, height, snapshot, chain, restarts>>
    PROVE  pool' \subseteq Messages /\ chain' \in Seq(pool')
BY SeqMonotone DEF TypeOK

\* The typing is inductive.
LEMMA TypeStep == TypeOK /\ [Next]_vars => TypeOK'
<1> SUFFICES ASSUME TypeOK, [Next]_vars
             PROVE  TypeOK'
    OBVIOUS
<1> USE ParamsAssumption, ChainAssumption
<1>1. ASSUME NEW v \in Validators, Share(v)
      PROVE  TypeOK'
    <2>1. issued[v] \in 0 .. MaxShares /\ issued[v] < MaxShares
        BY <1>1 DEF TypeOK, Share
    <2>2. <<v, issued[v] + 1>> \in Secrets /\ issued[v] + 1 \in 0 .. MaxShares
        BY <2>1, DrawIsSecret
    <2>3. Deal(Listed(v), PvssNew(<<v, issued[v] + 1>>)) \in Messages
        BY <2>2, PvssNewType DEF Deal, Listed, Senders, Messages
    <2>4. pool' \subseteq Messages /\ chain' \in Seq(pool')
        BY <1>1, <2>3, PostType DEF Share
    <2>5. issued' \in [Validators -> 0 .. MaxShares]
        BY <1>1, <2>2 DEF TypeOK, Share
    <2>6. QED
        BY <1>1, <2>4, <2>5 DEF TypeOK, Share
<1>2. ASSUME NEW v \in Faulty, FaultyShare(v)
      PROVE  TypeOK'
    <2> v \in Validators
        OBVIOUS
    <2>1. issued[v] \in 0 .. MaxShares /\ issued[v] < MaxShares
        BY <1>2 DEF TypeOK, FaultyShare
    <2>2. <<v, issued[v] + 1>> \in Secrets /\ issued[v] + 1 \in 0 .. MaxShares
        BY <2>1, DrawIsSecret
    <2>3. PICK fault \in Faults \ {"wrong_key", "wrong_sum"} :
             pool' = pool \cup
                       {FaultyDeal(v, PvssNew(<<v, issued[v] + 1>>), fault)}
        BY <1>2 DEF FaultyShare
    <2>4. FaultyDeal(v, PvssNew(<<v, issued[v] + 1>>), fault) \in Messages
        BY <2>2, FaultyDealType
    <2>5. pool' \subseteq Messages /\ chain' \in Seq(pool')
        BY <1>2, <2>3, <2>4, PostType DEF FaultyShare
    <2>6. issued' \in [Validators -> 0 .. MaxShares]
        BY <1>2, <2>2 DEF TypeOK, FaultyShare
    <2>7. QED
        BY <1>2, <2>5, <2>6 DEF TypeOK, FaultyShare
<1>3. ASSUME NEW v \in Validators, AggregateTranscripts(v)
      PROVE  TypeOK'
    <2>1. FinalKey(dkg[v].vss) \in KeySums
        BY FinalKeyType DEF TypeOK, IsDkg
    <2>2. AggregateOf(dkg[v]) \in Messages
        BY <2>1 DEF AggregateOf, Aggregation, Messages
    <2>3. pool' \subseteq Messages /\ chain' \in Seq(pool')
        BY <1>3, <2>2, PostType DEF AggregateTranscripts
    <2>4. QED
        BY <1>3, <2>3 DEF TypeOK, AggregateTranscripts
<1>4. ASSUME NEW v \in Faulty, FaultyAggregate(v)
      PROVE  TypeOK'
    <2>1. FinalKey(dkg[v].vss) \in KeySums /\ ZeroKey \in KeySums
        BY FinalKeyType DEF TypeOK, IsDkg, ZeroKey, KeySums
    <2>2. /\ Aggregation(FinalKey(dkg[v].vss), TRUE, ZeroKey) \in Messages
          /\ Aggregation(ZeroKey, TRUE, FinalKey(dkg[v].vss)) \in Messages
        BY <2>1 DEF Aggregation, Messages
    <2>3. pool' \subseteq Messages /\ chain' \in Seq(pool')
        BY <1>4, <2>2, PostType DEF FaultyAggregate
    <2>4. QED
        BY <1>4, <2>3 DEF TypeOK, FaultyAggregate
<1>5. ASSUME NEW v \in Validators, Propose(v)
      PROVE  TypeOK'
    <2>1. PICK b \in Blocks(v) : chain' = chain \o b
        BY <1>5 DEF Propose
    <2>2. b \in Seq(pool)
        BY DEF Blocks
    <2>3. chain' \in Seq(pool') /\ Len(chain) <= Len(chain')
        BY <1>5, <2>1, <2>2 DEF TypeOK, Propose
    <2>4. 0 .. Len(chain) \subseteq 0 .. Len(chain')
        BY <2>1, <2>2, <2>3 DEF TypeOK
    <2>5. /\ height' \in [Validators -> 0 .. Len(chain')]
          /\ \A w \in Validators : snapshot'[w].height \in 0 .. Len(chain')
        BY <1>5, <2>4 DEF TypeOK, Propose
    <2>6. QED
        BY <1>5, <2>3, <2>5 DEF TypeOK, Propose
<1>6. ASSUME NEW v \in Validators, ApplyNext(v)
      PROVE  TypeOK'
    <2> DEFINE d == ApplyMessage(dkg[v], chain[height[v] + 1])
    <2>1. chain[height[v] + 1] \in Messages
        BY <1>6 DEF TypeOK, ApplyNext
    <2>2. IsDkg(d)
        BY <2>1, ApplyMessageType DEF TypeOK
    <2>3. dkg' = [dkg EXCEPT ![v] = d]
        BY <1>6 DEF ApplyNext
    <2>4. \A w \in Validators : IsDkg(dkg'[w])
        BY <2>2, <2>3 DEF TypeOK
    <2>5. dkg' = [w \in Validators |-> dkg'[w]]
        BY <2>3 DEF TypeOK
    <2>6. block' \in [Validators -> 0 .. MaxBlocks]
        BY <1>6 DEF TypeOK, ApplyNext
    <2>7. height' \in [Validators -> 0 .. Len(chain')]
        <3>1. Len(chain) \in Nat /\ height \in [Validators -> 0 .. Len(chain)]
            BY DEF TypeOK
        <3>2. /\ height[v] < Len(chain) /\ chain' = chain
              /\ height' = [height EXCEPT ![v] = @ + 1]
            BY <1>6 DEF ApplyNext
        <3>3. height[v] + 1 \in 0 .. Len(chain)
            BY <3>1, <3>2
        <3>4. QED
            BY <3>1, <3>2, <3>3
    <2>8. QED
        BY <1>6, <2>4, <2>5, <2>6, <2>7 DEF TypeOK, ApplyNext
<1>7. ASSUME NEW v \in Watchers, IncreaseBlock(v)
      PROVE  TypeOK'
    <2>1. block' \in [Validators -> 0 .. MaxBlocks]
        <3>1. /\ block \in [Validators -> 0 .. MaxBlocks] /\ MaxBlocks \in Nat
              /\ v \in Validators
            BY ChainAssumption DEF TypeOK
        <3>2. block[v] < MaxBlocks /\ block' = [block EXCEPT ![v] = @ + 1]
            BY <1>7 DEF IncreaseBlock
        <3>3. block[v] + 1 \in 0 .. MaxBlocks
            BY <3>1, <3>2
        <3>4. QED
            BY <3>1, <3>2, <3>3
    <2>2. QED
        BY <1>7, <2>1 DEF TypeOK, IncreaseBlock
<1>8. ASSUME NEW v \in Validators, SaveSession(v)
      PROVE  TypeOK'
    <2> DEFINE s == Save(dkg[v], block[v], height[v])
    <2>1. /\ Deserialize(s.bytes, s.vss) = dkg[v]
          /\ DeserializeBlock(s.bytes) \in {0, block[v]}
          /\ s.height = height[v]
        BY SaveRestore DEF TypeOK
    <2>2. snapshot' = [snapshot EXCEPT ![v] = s]
        BY <1>8 DEF SaveSession
    <2>3. /\ IsDkg(Deserialize(s.bytes, s.vss))
          /\ DeserializeBlock(s.bytes) \in 0 .. MaxBlocks
          /\ s.height \in 0 .. Len(chain)
        BY <2>1 DEF TypeOK
    <2> HIDE DEF s
    <2>4. QED
        BY <1>8, <2>2, <2>3 DEF TypeOK, SaveSession
<1>9. ASSUME NEW v \in Validators, Restart(v)
      PROVE  TypeOK'
    <2> DEFINE d == Deserialize(snapshot[v].bytes, snapshot[v].vss)
               b == DeserializeBlock(snapshot[v].bytes)
    <2>1. /\ IsDkg(d)
          /\ b \in 0 .. MaxBlocks
          /\ snapshot[v].height \in 0 .. Len(chain)
        BY DEF TypeOK
    <2>2. /\ dkg' = [dkg EXCEPT ![v] = d]
          /\ block' = [block EXCEPT ![v] = b]
          /\ height' = [height EXCEPT ![v] = snapshot[v].height]
        BY <1>9 DEF Restart
    <2> HIDE DEF d, b
    <2>3. (\A w \in Validators : IsDkg(dkg'[w]))
          /\ dkg' = [w \in Validators |-> dkg'[w]]
        BY <2>1, <2>2 DEF TypeOK
    <2>4. /\ block' \in [Validators -> 0 .. MaxBlocks]
          /\ height' \in [Validators -> 0 .. Len(chain)]
        BY <2>1, <2>2 DEF TypeOK
    <2>5. restarts' \in 0 .. MaxRestarts
        <3>1. restarts \in 0 .. MaxRestarts /\ MaxRestarts \in Nat
            BY ChainAssumption DEF TypeOK
        <3>2. restarts < MaxRestarts /\ restarts' = restarts + 1
            BY <1>9 DEF Restart
        <3>3. QED
            BY <3>1, <3>2
    <2>6. QED
        BY <1>9, <2>3, <2>4, <2>5 DEF TypeOK, Restart
<1>10. CASE UNCHANGED vars
    BY <1>10 DEF TypeOK, vars
<1>11. QED
    BY <1>1, <1>2, <1>3, <1>4, <1>5, <1>6, <1>7, <1>8, <1>9, <1>10 DEF Next

\* A session that starts has its type.
LEMMA TypeInit == Init => TypeOK
<1> SUFFICES ASSUME Init
             PROVE  TypeOK
    OBVIOUS
<1>1. IsDkg(NewDkg)
    BY DEF IsDkg, NewDkg, IsVss
<1>2. /\ Deserialize(Save(NewDkg, 0, 0).bytes, Save(NewDkg, 0, 0).vss) = NewDkg
      /\ DeserializeBlock(Save(NewDkg, 0, 0).bytes) = 0
      /\ Save(NewDkg, 0, 0).height = 0
    BY <1>1, SaveRestore
<1>3. QED
    BY <1>1, <1>2, ParamsAssumption, ChainAssumption DEF Init, TypeOK

\* Every reachable session is well typed: no sequence of posts, blocks,
\* saves and restarts makes apply_message or the resumed bytes produce
\* anything else than a session over the listed validators.
THEOREM TypeCorrect == Spec => []TypeOK
BY TypeInit, TypeStep, PTL DEF Spec

-----------------------------------------------------------------------------
(***************************************************************************)
(* Where the transcripts of a session come from.  These hold for blocks of *)
(* any size: the proof of knowledge and the dealer's identity are tested   *)
(* without looking at the state, so that it does not matter how far the    *)
(* state has moved between verify_message and apply_message.               *)
(***************************************************************************)

\* The session that v has saved.
Restored(v) == Deserialize(snapshot[v].bytes, snapshot[v].vss)

\* Every Deal on the chain passed the part of verify_message that depends on
\* the message alone.
AgreedDealsVerified ==
    \A i \in 1 .. Len(chain) :
        chain[i].type = "Deal" =>
            KnownDealer(chain[i].sender) /\ VerifyOptimistic(chain[i].pvss)

\* Each transcript of session d is that of a verified Deal among the first h
\* messages, and a session past Sharing has one.
FromDealers(d, h) ==
    /\ d.state # "Sharing" => DOMAIN d.vss # {}
    /\ \A w \in DOMAIN d.vss :
          /\ VerifyOptimistic(d.vss[w])
          /\ \E i \in 1 .. h : chain[i] = Deal(Listed(w), d.vss[w])

\* The invariant behind TranscriptsAreDealers: a saved session may come back,
\* so what is saved has the same origin.
OriginInv ==
    /\ TypeOK
    /\ AgreedDealsVerified
    /\ \A v \in Validators :
          /\ FromDealers(dkg[v], height[v])
          /\ FromDealers(Restored(v), snapshot[v].height)

\* What appending a block does to the chain.
LEMMA ConcatFacts ==
    ASSUME NEW T, NEW s \in Seq(T), NEW t \in Seq(T)
    PROVE  /\ Len(s \o t) = Len(s) + Len(t)
           /\ \A k \in 1 .. Len(s) : (s \o t)[k] = s[k]
           /\ \A k \in 1 .. Len(t) : (s \o t)[Len(s) + k] = t[k]
           /\ Len(s) \in Nat /\ Len(t) \in Nat
<1>1. Len(s) \in Nat /\ Len(t) \in Nat
    OBVIOUS
<1>2. Len(s \o t) = Len(s) + Len(t)
    OBVIOUS
<1>3. \A k \in 1 .. Len(s) : (s \o t)[k] = s[k]
    BY <1>1
<1>4. \A k \in 1 .. Len(t) : (s \o t)[Len(s) + k] = t[k]
    BY <1>1
<1>5. QED
    BY <1>1, <1>2, <1>3, <1>4

\* Applying the message after the first h keeps the origins.
LEMMA OriginStep ==
    ASSUME TypeOK, AgreedDealsVerified, NEW d, IsDkg(d),
           NEW h \in Nat, h < Len(chain), FromDealers(d, h)
    PROVE  FromDealers(ApplyMessage(d, chain[h + 1]), h + 1)
<1> DEFINE m == chain[h + 1]
<1>1. m \in Messages /\ h + 1 \in 1 .. Len(chain)
    BY DEF TypeOK
<1>2. \A i \in 1 .. h : i \in 1 .. h + 1
    OBVIOUS
<1>3. CASE ~ApplyDefined(d, m)
    BY <1>2, <1>3 DEF ApplyMessage, FromDealers
<1>4. CASE ApplyDefined(d, m) /\ m.type = "Deal"
    <2> DEFINE w == m.sender.address
    <2>1. ApplyMessage(d, m).vss = InsertVss(d.vss, w, m.pvss)
        BY <1>4 DEF ApplyMessage, ApplyDeal
    <2>2. VerifyOptimistic(m.pvss) /\ m.sender = Listed(w)
        <3>1. KnownDealer(m.sender) /\ VerifyOptimistic(m.pvss)
            BY <1>1, <1>4 DEF AgreedDealsVerified
        <3>2. PICK x \in Validators : m.sender = Listed(x)
            BY <3>1 DEF KnownDealer
        <3>3. w = x
            BY <3>2 DEF Listed
        <3>4. QED
            BY <3>1, <3>2, <3>3
    <2>3. m = Deal(Listed(w), m.pvss)
        BY <1>1, <1>4, <2>2 DEF Deal, Messages
    <2> HIDE DEF w, m
    <2>4. /\ DOMAIN InsertVss(d.vss, w, m.pvss) = DOMAIN d.vss \cup {w}
          /\ InsertVss(d.vss, w, m.pvss)[w] = m.pvss
          /\ \A x \in DOMAIN d.vss \ {w} :
                InsertVss(d.vss, w, m.pvss)[x] = d.vss[x]
        BY DEF InsertVss
    <2>5. ASSUME NEW x \in DOMAIN d.vss \cup {w}
          PROVE  LET p == InsertVss(d.vss, w, m.pvss)[x]
                 IN  /\ VerifyOptimistic(p)
                     /\ \E i \in 1 .. h + 1 : chain[i] = Deal(Listed(x), p)
        <3>1. CASE x = w
            BY <1>1, <2>2, <2>3, <2>4, <3>1 DEF m
        <3>2. CASE x # w
            BY <1>2, <2>4, <3>2 DEF FromDealers
        <3>3. QED
            BY <3>1, <3>2
    <2>6. QED
        BY <2>1, <2>4, <2>5 DEF FromDealers, m
<1>5. CASE ApplyDefined(d, m) /\ m.type # "Deal"
    <2>1. ApplyMessage(d, m).vss = d.vss /\ d.state # "Sharing"
        BY <1>5 DEF ApplyMessage, ApplyAggregate, ApplyDefined
    <2>2. QED
        BY <1>2, <2>1 DEF FromDealers
<1>6. QED
    BY <1>3, <1>4, <1>5

\* A longer chain keeps the origins.
LEMMA OriginMonotone ==
    ASSUME NEW d, NEW h \in Nat, h <= Len(chain), FromDealers(d, h),
           \A i \in 1 .. Len(chain) : chain'[i] = chain[i], Len(chain) \in Nat
    PROVE  /\ d.state # "Sharing" => DOMAIN d.vss # {}
           /\ \A w \in DOMAIN d.vss :
                 /\ VerifyOptimistic(d.vss[w])
                 /\ \E i \in 1 .. h : chain'[i] = Deal(Listed(w), d.vss[w])
BY DEF FromDealers

\* The invariant is inductive.
LEMMA OriginInvStep == OriginInv /\ [Next]_vars => OriginInv'
<1> SUFFICES ASSUME OriginInv, [Next]_vars
             PROVE  OriginInv'
    OBVIOUS
<1>1. TypeOK /\ TypeOK'
    BY TypeStep DEF OriginInv
<1>2. ASSUME UNCHANGED <<dkg, height, snapshot, chain>>
      PROVE  OriginInv'
    BY <1>1, <1>2
    DEF OriginInv, AgreedDealsVerified, FromDealers, Restored
<1>3. ASSUME NEW v \in Validators, Propose(v)
      PROVE  OriginInv'
    <2>1. PICK b \in Blocks(v) : chain' = chain \o b
        BY <1>3 DEF Propose
    <2>2. /\ b \in Seq(pool)
          /\ \A k \in 1 .. Len(b) : VerifyMessage(dkg[v], b[k])
        BY DEF Blocks
    <2>3. /\ Len(chain') = Len(chain) + Len(b)
          /\ \A k \in 1 .. Len(chain) : chain'[k] = chain[k]
          /\ \A k \in 1 .. Len(b) : chain'[Len(chain) + k] = b[k]
          /\ Len(chain) \in Nat /\ Len(b) \in Nat
        <3>1. chain \in Seq(pool)
            BY <1>1 DEF TypeOK
        <3>2. QED
            BY <2>1, <2>2, <3>1, ConcatFacts
    <2>4. UNCHANGED <<dkg, height, snapshot>>
        BY <1>3 DEF Propose
    <2>5. ASSUME NEW i \in 1 .. Len(chain'), chain'[i].type = "Deal"
          PROVE  KnownDealer(chain'[i].sender) /\ VerifyOptimistic(chain'[i].pvss)
        <3>1. CASE i <= Len(chain)
            BY <2>3, <2>5, <3>1 DEF OriginInv, AgreedDealsVerified
        <3>2. CASE i > Len(chain)
            <4>1. i - Len(chain) \in 1 .. Len(b)
                BY <2>3, <3>2
            <4>2. chain'[i] = b[i - Len(chain)]
                BY <2>3, <4>1
            <4>3. VerifyMessage(dkg[v], chain'[i])
                BY <2>2, <4>1, <4>2
            <4>4. QED
                BY <2>5, <4>3 DEF VerifyMessage, VerifyDeal
        <3>3. QED
            BY <2>3, <3>1, <3>2
    <2>6. ASSUME NEW w \in Validators
          PROVE  FromDealers(dkg[w], height[w])'
                 /\ FromDealers(Restored(w), snapshot[w].height)'
        <3>1. /\ height[w] \in Nat /\ height[w] <= Len(chain)
              /\ snapshot[w].height \in Nat /\ snapshot[w].height <= Len(chain)
            BY <1>1, <2>3 DEF TypeOK
        <3>2. FromDealers(dkg[w], height[w])
              /\ FromDealers(Restored(w), snapshot[w].height)
            BY DEF OriginInv
        <3>3. Restored(w)' = Restored(w)
            BY <2>4 DEF Restored
        <3>4. FromDealers(dkg[w], height[w])'
            BY <2>3, <2>4, <3>1, <3>2, OriginMonotone DEF FromDealers
        <3>5. FromDealers(Restored(w), snapshot[w].height)'
            BY <2>3, <2>4, <3>1, <3>2, <3>3, OriginMonotone DEF FromDealers
        <3>6. QED
            BY <3>4, <3>5
    <2>7. QED
        BY <1>1, <2>5, <2>6 DEF OriginInv, AgreedDealsVerified
<1>4. ASSUME NEW v \in Validators, ApplyNext(v)
      PROVE  OriginInv'
    <2> DEFINE d == ApplyMessage(dkg[v], chain[height[v] + 1])
    <2>1. /\ height[v] \in Nat /\ height[v] < Len(chain) /\ IsDkg(dkg[v])
          /\ dkg' = [dkg EXCEPT ![v] = d]
          /\ height' = [height EXCEPT ![v] = @ + 1]
          /\ UNCHANGED <<snapshot, chain>>
        BY <1>1, <1>4 DEF ApplyNext, TypeOK
    <2>2. FromDealers(d, height[v] + 1)
        BY <1>1, <2>1, OriginStep DEF OriginInv
    <2> HIDE DEF d
    <2>3. \A w \in Validators : FromDealers(dkg'[w], height'[w])
        BY <1>1, <2>1, <2>2 DEF OriginInv, TypeOK
    <2>4. AgreedDealsVerified'
        BY <2>1 DEF OriginInv, AgreedDealsVerified
    <2>5. \A w \in Validators : FromDealers(Restored(w), snapshot[w].height)'
        BY <2>1 DEF OriginInv, FromDealers, Restored
    <2>6. \A w \in Validators : FromDealers(dkg[w], height[w])'
        BY <2>1, <2>3 DEF FromDealers
    <2>7. QED
        BY <1>1, <2>4, <2>5, <2>6 DEF OriginInv
<1>5. ASSUME NEW v \in Validators, SaveSession(v)
      PROVE  OriginInv'
    <2> DEFINE s == Save(dkg[v], block[v], height[v])
    <2>1. Deserialize(s.bytes, s.vss) = dkg[v] /\ s.height = height[v]
        BY <1>1, SaveRestore DEF TypeOK
    <2>2. /\ snapshot' = [snapshot EXCEPT ![v] = s]
          /\ UNCHANGED <<dkg, height, chain>>
        BY <1>5 DEF SaveSession
    <2> HIDE DEF s
    <2>3. \A w \in Validators :
             FromDealers(Restored(w)', snapshot'[w].height)
        BY <1>1, <2>1, <2>2 DEF OriginInv, TypeOK, Restored
    <2>4. QED
        BY <1>1, <2>2, <2>3 DEF OriginInv, AgreedDealsVerified, FromDealers
<1>6. ASSUME NEW v \in Validators, Restart(v)
      PROVE  OriginInv'
    <2>1. /\ dkg' = [dkg EXCEPT ![v] = Restored(v)]
          /\ height' = [height EXCEPT ![v] = snapshot[v].height]
          /\ UNCHANGED <<snapshot, chain>>
        BY <1>6 DEF Restart, Restored
    <2>2. \A w \in Validators : FromDealers(dkg'[w], height'[w])
        BY <1>1, <2>1 DEF OriginInv, TypeOK
    <2>3. AgreedDealsVerified'
        BY <2>1 DEF OriginInv, AgreedDealsVerified
    <2>4. \A w \in Validators : FromDealers(Restored(w), snapshot[w].height)'
        BY <2>1 DEF OriginInv, FromDealers, Restored
    <2>5. \A w \in Validators : FromDealers(dkg[w], height[w])'
        BY <2>1, <2>2 DEF FromDealers
    <2>6. QED
        BY <1>1, <2>3, <2>4, <2>5 DEF OriginInv
<1>7. ASSUME NEW v \in Validators,
             Share(v) \/ AggregateTranscripts(v) \/ IncreaseBlock(v)
             \/ FaultyShare(v) \/ FaultyAggregate(v)
      PROVE  UNCHANGED <<dkg, height, snapshot, chain>>
    BY <1>7 DEF Share, AggregateTranscripts, IncreaseBlock, FaultyShare,
                FaultyAggregate
<1>8. CASE UNCHANGED vars
    BY <1>2, <1>8 DEF vars
<1>9. QED
    BY <1>2, <1>3, <1>4, <1>5, <1>6, <1>7, <1>8, ChainAssumption DEF Next

\* A new session has no transcripts.
LEMMA OriginInvInit == Init => OriginInv
<1> SUFFICES ASSUME Init
             PROVE  OriginInv
    OBVIOUS
<1>1. IsDkg(NewDkg)
    BY DEF IsDkg, NewDkg, IsVss
<1>2. Deserialize(Save(NewDkg, 0, 0).bytes, Save(NewDkg, 0, 0).vss) = NewDkg
      /\ Save(NewDkg, 0, 0).height = 0
    BY <1>1, SaveRestore
<1>3. FromDealers(NewDkg, 0)
    BY DEF FromDealers, NewDkg
<1>4. \A v \in Validators :
         /\ dkg[v] = NewDkg /\ height[v] = 0
         /\ Restored(v) = NewDkg /\ snapshot[v].height = 0
    BY <1>2 DEF Init, Restored
<1>5. AgreedDealsVerified
    BY DEF AgreedDealsVerified, Init
<1>6. QED
    BY <1>3, <1>4, <1>5, TypeInit DEF OriginInv

\* Every transcript a validator holds, also after resuming an old session,
\* came with a valid proof of knowledge in an agreed Deal of the dealer's
\* listed identity, whatever else is in the block.
THEOREM TranscriptsFromDealers == Spec => []TranscriptsAreDealers
<1>1. OriginInv => TranscriptsAreDealers
    BY DEF OriginInv, FromDealers, TranscriptsAreDealers
<1>2. QED
    BY <1>1, OriginInvInit, OriginInvStep, PTL DEF Spec

-----------------------------------------------------------------------------
(***************************************************************************)
(* What findings 3 and 4 depend on.  Nothing between a dealer's post and   *)
(* the aggregation looks at the length of a transcript's vectors or makes  *)
(* use of the check of its shares; without a validator that posts such a   *)
(* transcript, what they refute holds, again for blocks of any size.       *)
(***************************************************************************)

\* Only faulty dealers post vectors of another length, or wrong shares.
PostedAsDealt ==
    \A m \in pool :
        m.type = "Deal" =>
            /\ "bad_length" \notin Faults => m.pvss.len = "session"
            /\ "bad_shares" \notin Faults => m.pvss.consistent

\* Whatever is posted next is as dealt, too.
LEMMA PostedStep ==
    TypeOK /\ PostedAsDealt /\ [Next]_vars => PostedAsDealt'
<1> SUFFICES ASSUME TypeOK, PostedAsDealt, [Next]_vars
             PROVE  PostedAsDealt'
    OBVIOUS
<1>1. CASE pool' = pool
    BY <1>1 DEF PostedAsDealt
<1>2. ASSUME NEW v \in Validators, Share(v)
      PROVE  PostedAsDealt'
    BY <1>2 DEF Share, PostedAsDealt, Deal, PvssNew
<1>3. ASSUME NEW v \in Validators, AggregateTranscripts(v)
      PROVE  PostedAsDealt'
    BY <1>3 DEF AggregateTranscripts, PostedAsDealt, AggregateOf, Aggregation
<1>4. ASSUME NEW v \in Faulty, FaultyAggregate(v)
      PROVE  PostedAsDealt'
    BY <1>4 DEF FaultyAggregate, PostedAsDealt, Aggregation
<1>5. ASSUME NEW v \in Faulty, FaultyShare(v)
      PROVE  PostedAsDealt'
    <2> DEFINE p == PvssNew(<<v, issued[v] + 1>>)
    <2>1. PICK fault \in Faults \ {"wrong_key", "wrong_sum"} :
             pool' = pool \cup {FaultyDeal(v, p, fault)}
        BY <1>5 DEF FaultyShare
    <2>2. fault \in {"bad_proof", "bad_shares", "bad_length", "rotated_key",
                     "stranger"}
        BY ChainAssumption DEF FaultKinds
    <2>3. /\ fault # "bad_length" => FaultyDeal(v, p, fault).pvss.len = "session"
          /\ fault # "bad_shares" => FaultyDeal(v, p, fault).pvss.consistent
        BY <2>2 DEF FaultyDeal, Deal, PvssNew
    <2>4. QED
        BY <2>1, <2>3 DEF PostedAsDealt
<1>6. ASSUME NEW v \in Validators,
             Propose(v) \/ ApplyNext(v) \/ SaveSession(v) \/ Restart(v)
             \/ IncreaseBlock(v)
      PROVE  pool' = pool
    BY <1>6 DEF Propose, ApplyNext, SaveSession, Restart, IncreaseBlock
<1>7. QED
    BY <1>1, <1>2, <1>3, <1>4, <1>5, <1>6, ChainAssumption DEF Next, vars

\* Every transcript a validator holds was posted.
LEMMA HeldWasPosted ==
    ASSUME OriginInv, NEW v \in Validators, NEW w \in DOMAIN dkg[v].vss
    PROVE  Deal(Listed(w), dkg[v].vss[w]) \in pool
<1>1. PICK i \in 1 .. height[v] : chain[i] = Deal(Listed(w), dkg[v].vss[w])
    BY DEF OriginInv, FromDealers
<1>2. i \in 1 .. Len(chain)
    BY DEF OriginInv, TypeOK
<1>3. QED
    BY <1>1, <1>2 DEF OriginInv, TypeOK

\* The invariant of both theorems.
LEMMA HeldAsDealt == Spec => [](OriginInv /\ PostedAsDealt)
<1>1. Init => OriginInv /\ PostedAsDealt
    BY OriginInvInit DEF Init, PostedAsDealt
<1>2. OriginInv /\ PostedAsDealt /\ [Next]_vars => (OriginInv /\ PostedAsDealt)'
    BY OriginInvStep, PostedStep DEF OriginInv
<1>3. QED
    BY <1>1, <1>2, PTL DEF Spec

\* aggregate never panics in Dealt, unless a dealer posts vectors of another
\* length than the session's.
THEOREM AggregationDefined ==
    ASSUME "bad_length" \notin Faults
    PROVE  Spec => []DealtCanAggregate
<1>1. OriginInv /\ PostedAsDealt => DealtCanAggregate
    <2> SUFFICES ASSUME OriginInv, PostedAsDealt, NEW v \in Validators,
                        dkg[v].state = "Dealt"
                 PROVE  AggregateDefined(dkg[v].vss)
        BY DEF DealtCanAggregate
    <2>1. DOMAIN dkg[v].vss # {}
        BY DEF OriginInv, FromDealers
    <2>2. \A w \in DOMAIN dkg[v].vss : dkg[v].vss[w].len = "session"
        BY HeldWasPosted DEF PostedAsDealt, Deal
    <2>3. QED
        BY <2>1, <2>2 DEF AggregateDefined
<1>2. QED
    BY <1>1, HeldAsDealt, PTL

\* What went into a key has shares that match its commitments, unless a
\* dealer posts wrong ones: verify_message plays no part in it.
THEOREM ConsistentUnlessFaulty ==
    ASSUME "bad_shares" \notin Faults
    PROVE  Spec => []SharesAreConsistent
<1>1. OriginInv /\ PostedAsDealt => SharesAreConsistent
    BY HeldWasPosted DEF PostedAsDealt, Deal, SharesAreConsistent
<1>2. QED
    BY <1>1, HeldAsDealt, PTL

-----------------------------------------------------------------------------
(***************************************************************************)
(* Agreement of the replicas of DkgChain, and what one verified message    *)
(* per block adds to it.                                                   *)
(*                                                                         *)
(* None of the properties is inductive: which sessions may occur at a      *)
(* height depends on the messages below it, and a validator may be sent    *)
(* back by a restart to a height that no other validator is at.  The       *)
(* invariant therefore speaks of a run S[0], S[1], ..., S[m] of the state  *)
(* machine over the chain, as far as any validator has ever got: every     *)
(* session held or saved is the S of its height.                           *)
(***************************************************************************)

\* S is what the first m messages of the chain make of a new session, and
\* all sessions, held and saved, are members of it.  It never leaves Success.
Replay(S, m) ==
    /\ m \in 0 .. Len(chain)
    /\ S[0] = NewDkg
    /\ \A k \in 0 .. m : IsDkg(S[k])
    /\ \A k \in 0 .. m : k < m => S[k + 1] = ApplyMessage(S[k], chain[k + 1])
    /\ \A j, k \in 0 .. m : j <= k /\ S[j].state = "Success" => S[k] = S[j]
    /\ \A v \in Validators : height[v] <= m /\ dkg[v] = S[height[v]]
    /\ \A v \in Validators :
          /\ snapshot[v].height <= m
          /\ Restored(v) = S[snapshot[v].height]

CountsDealers(d) ==
    LET dealers == Cardinality(DOMAIN d.vss)
    IN  IF d.state = "Sharing" THEN d.accumulated_shares = dealers
                               ELSE dealers >= MinimumShares

Keeps(d, e) ==
    \A w \in DOMAIN d.vss : w \in DOMAIN e.vss /\ e.vss[w] = d.vss[w]

KeyAnnouncedBy(d, k) ==
    d.state = "Success" =>
        \E i \in 1 .. k :
            chain[i].type = "Aggregate" /\ chain[i].final_key = d.final_key

\* With one message per block, every message on the chain was verified
\* against the session just before it.
Checked(S, m) ==
    /\ Len(chain) <= m + 1
    /\ \A k \in 0 .. m : k < Len(chain) => VerifyMessage(S[k], chain[k + 1])
    /\ \A k \in 0 .. m : CountsDealers(S[k])
    /\ \A j, k \in 0 .. m : j <= k => Keeps(S[j], S[k])
    /\ \A k \in 0 .. m : KeyAnnouncedBy(S[k], k)

ReplayInv ==
    \E m \in Nat : \E S : Replay(S, m) /\ (MaxBlockMsgs = 1 => Checked(S, m))

IInv == TypeOK /\ ReplayInv

-----------------------------------------------------------------------------
(***************************************************************************)
(* One verified message.                                                   *)
(***************************************************************************)

\* shares_num - security_threshold is a number, wrapped or not.
LEMMA MinimumSharesType == MinimumShares \in Nat
BY ParamsAssumption DEF MinimumShares

\* The dealers of a session are finitely many.
LEMMA DealersFinite ==
    ASSUME NEW d, IsDkg(d)
    PROVE  IsFiniteSet(DOMAIN d.vss) /\ Cardinality(DOMAIN d.vss) \in Nat
BY FS_Subset, FS_CardinalityType, ValidatorsAssumption DEF IsDkg, IsVss

\* A message that verifies can be applied.
LEMMA VerifiedApplies ==
    ASSUME NEW d, NEW m \in Messages, VerifyMessage(d, m)
    PROVE  ApplyDefined(d, m)
<1>1. CASE m.type = "Deal" /\ VerifyDeal(d, m)
    <2>1. PICK v \in Validators : m.sender = Listed(v)
        BY <1>1 DEF VerifyDeal, KnownDealer
    <2>2. m.sender.address \in Validators
        BY <2>1 DEF Listed
    <2>3. QED
        BY <1>1, <2>2 DEF VerifyDeal, ApplyDefined
<1>2. CASE m.type = "Aggregate" /\ VerifyAggregate(d, m)
    BY <1>2 DEF VerifyAggregate, ApplyDefined
<1>3. QED
    BY <1>1, <1>2 DEF VerifyMessage

\* Success is final.
LEMMA SuccessIsFinal ==
    ASSUME NEW d, d.state = "Success", NEW m
    PROVE  ApplyMessage(d, m) = d
BY DEF ApplyMessage, ApplyDefined

\* Applying a verified message keeps the counter equal to the dealers, and
\* the transcripts already there.
LEMMA VerifiedStep ==
    ASSUME NEW d, IsDkg(d), CountsDealers(d),
           NEW m \in Messages, VerifyMessage(d, m)
    PROVE  /\ CountsDealers(ApplyMessage(d, m))
           /\ Keeps(d, ApplyMessage(d, m))
           /\ ApplyMessage(d, m).state = "Success" =>
                 /\ m.type = "Aggregate"
                 /\ m.final_key = ApplyMessage(d, m).final_key
<1>1. ApplyDefined(d, m)
    BY VerifiedApplies
<1>2. CASE m.type = "Deal"
    <2> DEFINE e == ApplyDeal(d, m)
               w == m.sender.address
    <2>1. w \notin DOMAIN d.vss /\ d.state \in {"Sharing", "Dealt"}
        BY <1>2 DEF VerifyMessage, VerifyDeal, RepeatDealer
    <2>2. ApplyMessage(d, m) = e
        BY <1>1, <1>2 DEF ApplyMessage
    <2>3. /\ e.vss = InsertVss(d.vss, w, m.pvss)
          /\ DOMAIN e.vss = DOMAIN d.vss \cup {w}
        BY DEF ApplyDeal, InsertVss
    <2>4. Cardinality(DOMAIN e.vss) = Cardinality(DOMAIN d.vss) + 1
        BY <2>1, <2>3, DealersFinite, FS_AddElement
    <2>5. Keeps(d, e)
        BY <2>1, <2>3 DEF Keeps, InsertVss
    <2>6. CountsDealers(e)
        BY <2>1, <2>4, DealersFinite, MinimumSharesType
        DEF CountsDealers, ApplyDeal, Quorum, IsDkg
    <2>7. e.state # "Success"
        BY DEF ApplyDeal
    <2>8. QED
        BY <2>2, <2>5, <2>6, <2>7
<1>3. CASE m.type = "Aggregate"
    <2>1. ApplyMessage(d, m) = ApplyAggregate(d)
        BY <1>1, <1>3 DEF ApplyMessage
    <2>2. d.state = "Dealt" /\ m.final_key = FinalKey(d.vss)
        BY <1>3 DEF VerifyMessage, VerifyAggregate
    <2>3. QED
        BY <1>3, <2>1, <2>2 DEF CountsDealers, Keeps, ApplyAggregate
<1>4. QED
    BY <1>2, <1>3 DEF Messages

-----------------------------------------------------------------------------
(***************************************************************************)
(* The invariant is inductive.                                             *)
(***************************************************************************)

\* A new session is its own replay.
LEMMA ReplayInit == Init => ReplayInv
<1> SUFFICES ASSUME Init
             PROVE  ReplayInv
    OBVIOUS
<1> DEFINE S == [k \in {0} |-> NewDkg]
<1>1. IsDkg(NewDkg)
    BY DEF IsDkg, NewDkg, IsVss
<1>2. Deserialize(Save(NewDkg, 0, 0).bytes, Save(NewDkg, 0, 0).vss) = NewDkg
      /\ Save(NewDkg, 0, 0).height = 0
    BY <1>1, SaveRestore
<1>3. Len(chain) = 0 /\ 0 .. 0 = {0} /\ S[0] = NewDkg
    BY DEF Init
<1>4. Replay(S, 0)
    <2>1. \A v \in Validators :
             /\ height[v] = 0 /\ dkg[v] = NewDkg
             /\ snapshot[v] = Save(NewDkg, 0, 0)
        BY DEF Init
    <2> HIDE DEF S
    <2>2. QED
        BY <1>1, <1>2, <1>3, <2>1 DEF Replay, Restored
<1>5. Checked(S, 0)
    <2>1. CountsDealers(NewDkg)
        BY FS_EmptySet DEF CountsDealers, NewDkg
    <2>2. Keeps(NewDkg, NewDkg)
        BY DEF Keeps
    <2>3. KeyAnnouncedBy(NewDkg, 0)
        BY DEF KeyAnnouncedBy, NewDkg
    <2> HIDE DEF S
    <2>4. QED
        BY <1>3, <2>1, <2>2, <2>3 DEF Checked
<1> HIDE DEF S
<1>6. QED
    BY <1>4, <1>5 DEF ReplayInv

\* A step that leaves the sessions and the chain alone keeps the replay.
LEMMA ReplayFrame ==
    ASSUME ReplayInv, UNCHANGED <<dkg, height, snapshot, chain>>
    PROVE  ReplayInv'
BY DEF ReplayInv, Replay, Checked, Restored, CountsDealers, Keeps, KeyAnnouncedBy

\* Saving or resuming a session keeps the replay.
LEMMA ReplaySaveRestart ==
    ASSUME IInv, NEW v \in Validators, SaveSession(v) \/ Restart(v)
    PROVE  ReplayInv'
<1>0. PICK m \in Nat : \E S : Replay(S, m) /\ (MaxBlockMsgs = 1 => Checked(S, m))
    BY DEF IInv, ReplayInv
<1>1. PICK S : Replay(S, m) /\ (MaxBlockMsgs = 1 => Checked(S, m))
    BY <1>0
<1>2. chain' = chain
    BY DEF SaveSession, Restart
<1>3. MaxBlockMsgs = 1 => Checked(S, m)'
    BY <1>1, <1>2 DEF Checked, CountsDealers, Keeps, KeyAnnouncedBy
<1>4. CASE SaveSession(v)
    <2> DEFINE s == Save(dkg[v], block[v], height[v])
    <2>1. Deserialize(s.bytes, s.vss) = dkg[v] /\ s.height = height[v]
        BY SaveRestore DEF IInv, TypeOK
    <2>2. snapshot' = [snapshot EXCEPT ![v] = s] /\ UNCHANGED <<dkg, height>>
        BY <1>4 DEF SaveSession
    <2> HIDE DEF s
    <2>3. \A w \in Validators :
             /\ snapshot'[w].height <= m
             /\ Restored(w)' = S[snapshot'[w].height]
        BY <1>1, <2>1, <2>2 DEF Replay, Restored, IInv, TypeOK
    <2>4. Replay(S, m)'
        BY <1>1, <1>2, <2>2, <2>3 DEF Replay
    <2>5. QED
        BY <1>3, <2>4 DEF ReplayInv
<1>5. CASE Restart(v)
    <2>1. /\ dkg' = [dkg EXCEPT ![v] = Restored(v)]
          /\ height' = [height EXCEPT ![v] = snapshot[v].height]
          /\ snapshot' = snapshot
        BY <1>5 DEF Restart, Restored
    <2>2. \A w \in Validators : height'[w] <= m /\ dkg'[w] = S[height'[w]]
        BY <1>1, <2>1 DEF Replay, IInv, TypeOK
    <2>3. Replay(S, m)'
        BY <1>1, <1>2, <2>1, <2>2 DEF Replay, Restored
    <2>4. QED
        BY <1>3, <2>3 DEF ReplayInv
<1>6. QED
    BY <1>4, <1>5

\* Getting a block agreed keeps the replay: it lies below the new messages.
\* With one message per block the proposer had replayed everything, so the
\* message was verified against the last session of the replay.
LEMMA ReplayPropose ==
    ASSUME IInv, NEW v \in Validators, Propose(v)
    PROVE  ReplayInv'
<1>0. PICK m \in Nat : \E S : Replay(S, m) /\ (MaxBlockMsgs = 1 => Checked(S, m))
    BY DEF IInv, ReplayInv
<1>1. PICK S : Replay(S, m) /\ (MaxBlockMsgs = 1 => Checked(S, m))
    BY <1>0
<1>2. PICK b \in Blocks(v) : chain' = chain \o b
    BY DEF Propose
<1>3. PICK n \in 1 .. MaxBlockMsgs :
         b \in [1 .. n -> {msg \in pool : VerifyMessage(dkg[v], msg)}]
    BY <1>2 DEF Blocks
<1>4. b \in Seq(pool) /\ Len(b) = n /\ n \in Nat \ {0}
    BY <1>3, ChainAssumption
<1>5. chain \in Seq(pool)
    BY DEF IInv, TypeOK
<1>6. /\ Len(chain') = Len(chain) + n
      /\ \A k \in 1 .. Len(chain) : chain'[k] = chain[k]
      /\ chain'[Len(chain) + 1] = b[1]
      /\ Len(chain) \in Nat
    <2>1. 1 \in 1 .. Len(b)
        BY <1>4
    <2> b \in Seq(pool)
        BY <1>4
    <2>2. /\ Len(chain \o b) = Len(chain) + Len(b)
          /\ \A k \in 1 .. Len(chain) : (chain \o b)[k] = chain[k]
          /\ \A k \in 1 .. Len(b) : (chain \o b)[Len(chain) + k] = b[k]
          /\ Len(chain) \in Nat
        BY ConcatFacts, <1>5
    <2>3. QED
        BY <1>2, <1>4, <2>1, <2>2
<1>7. m \in 0 .. Len(chain) /\ m \in 0 .. Len(chain')
    BY <1>1, <1>6, <1>4 DEF Replay
<1>8. \A k \in 0 .. m : k < m => chain'[k + 1] = chain[k + 1]
    BY <1>6, <1>7
<1>9. UNCHANGED <<dkg, height, snapshot>> /\ height[v] = Len(chain)
    BY DEF Propose
<1>10. Replay(S, m)'
    BY <1>1, <1>7, <1>8, <1>9 DEF Replay, Restored
<1>11. ASSUME MaxBlockMsgs = 1
       PROVE  Checked(S, m)'
    <2>1. m = Len(chain) /\ n = 1 /\ dkg[v] = S[m] /\ Checked(S, m)
        BY <1>1, <1>3, <1>7, <1>9, <1>11 DEF Replay
    <2>2. VerifyMessage(S[m], chain'[m + 1])
        BY <1>3, <1>6, <2>1
    <2>3. Len(chain') <= m + 1
        BY <1>6, <2>1
    <2>4. ASSUME NEW k \in 0 .. m, k < Len(chain')
          PROVE  VerifyMessage(S[k], chain'[k + 1])
        <3>1. CASE k = m
            BY <2>2, <3>1
        <3>2. CASE k < m
            <4>1. VerifyMessage(S[k], chain[k + 1]) /\ chain'[k + 1] = chain[k + 1]
                BY <1>8, <2>1, <3>2 DEF Checked
            <4>2. QED
                BY <4>1
        <3>3. QED
            BY <1>7, <3>1, <3>2
    <2>5. ASSUME NEW k \in 0 .. m
          PROVE  KeyAnnouncedBy(S[k], k)'
        <3>1. KeyAnnouncedBy(S[k], k)
            BY <2>1 DEF Checked
        <3>2. \A i \in 1 .. k : chain'[i] = chain[i]
            BY <1>6, <1>7
        <3>3. QED
            BY <3>1, <3>2 DEF KeyAnnouncedBy
    <2>6. (\A k \in 0 .. m : CountsDealers(S[k]))
          /\ (\A j, k \in 0 .. m : j <= k => Keeps(S[j], S[k]))
        BY <2>1 DEF Checked
    <2>7. QED
        BY <2>3, <2>4, <2>5, <2>6 DEF Checked
<1>12. QED
    BY <1>10, <1>11 DEF ReplayInv

\* Applying the next message either follows the replay or extends it by one.
LEMMA ReplayApply ==
    ASSUME IInv, NEW v \in Validators, ApplyNext(v)
    PROVE  ReplayInv'
<1>0. PICK m \in Nat : \E S : Replay(S, m) /\ (MaxBlockMsgs = 1 => Checked(S, m))
    BY DEF IInv, ReplayInv
<1>1. PICK S : Replay(S, m) /\ (MaxBlockMsgs = 1 => Checked(S, m))
    BY <1>0
<1> DEFINE h == height[v]
           msg == chain[h + 1]
           d == ApplyMessage(dkg[v], msg)
<1>2. /\ h \in Nat /\ Len(chain) \in Nat /\ h < Len(chain)
      /\ h <= m /\ m \in 0 .. Len(chain) /\ dkg[v] = S[h] /\ h \in 0 .. m
    BY <1>1 DEF IInv, TypeOK, Replay, ApplyNext
<1>3. msg \in Messages
    BY <1>2 DEF IInv, TypeOK
<1>4. /\ dkg' = [dkg EXCEPT ![v] = d]
      /\ height' = [height EXCEPT ![v] = h + 1]
      /\ UNCHANGED <<snapshot, chain>>
    BY DEF ApplyNext
<1>5. CASE h < m
    <2>1. d = S[h + 1]
        BY <1>1, <1>2, <1>5 DEF Replay
    <2> HIDE DEF d, msg
    <2>2. \A w \in Validators : height'[w] <= m /\ dkg'[w] = S[height'[w]]
        BY <1>1, <1>2, <1>4, <1>5, <2>1 DEF Replay, IInv, TypeOK
    <2>3. Replay(S, m)'
        BY <1>1, <1>4, <2>2 DEF Replay, Restored
    <2>4. MaxBlockMsgs = 1 => Checked(S, m)'
        BY <1>1, <1>4 DEF Checked, CountsDealers, Keeps, KeyAnnouncedBy
    <2>5. QED
        BY <2>3, <2>4 DEF ReplayInv
<1>6. CASE h = m
    <2>0. PICK T : T = [k \in 0 .. m + 1 |-> IF k = m + 1 THEN d ELSE S[k]]
        OBVIOUS
    <2>1. (\A k \in 0 .. m : T[k] = S[k]) /\ T[m + 1] = d
        BY <1>2, <2>0
    <2>2. IsDkg(d) /\ d = ApplyMessage(S[m], msg)
        BY <1>2, <1>3, <1>6, ApplyMessageType DEF IInv, TypeOK
    <2>3. S[m].state = "Success" => d = S[m]
        BY <2>2, SuccessIsFinal
    <2>4. m + 1 \in 0 .. Len(chain) /\ 0 .. m + 1 = 0 .. m \cup {m + 1}
        BY <1>2, <1>6
    <2>5. T[0] = NewDkg /\ \A k \in 0 .. m + 1 : IsDkg(T[k])
        BY <1>1, <1>2, <2>1, <2>2, <2>4 DEF Replay
    <2>6. ASSUME NEW k \in 0 .. m + 1, k < m + 1
          PROVE  T[k + 1] = ApplyMessage(T[k], chain[k + 1])
        <3>1. CASE k = m
            BY <1>6, <2>1, <2>2, <3>1
        <3>2. CASE k < m
            <4>1. k \in 0 .. m /\ k + 1 \in 0 .. m
                BY <3>2
            <4>2. T[k] = S[k] /\ T[k + 1] = S[k + 1]
                BY <4>1, <2>1
            <4>3. S[k + 1] = ApplyMessage(S[k], chain[k + 1])
                BY <1>1, <3>2, <4>1 DEF Replay
            <4>4. QED
                BY <4>2, <4>3
        <3>3. QED
            BY <2>6, <3>1, <3>2
    <2> HIDE DEF d, msg
    <2>7. ASSUME NEW j \in 0 .. m + 1, NEW k \in 0 .. m + 1,
                 j <= k, T[j].state = "Success"
          PROVE  T[k] = T[j]
        <3>1. CASE k <= m
            BY <1>1, <2>1, <2>7, <3>1 DEF Replay
        <3>2. CASE k = m + 1 /\ j <= m
            <4>1. S[m] = S[j] /\ S[j].state = "Success" /\ T[j] = S[j]
                BY <1>1, <2>1, <2>7, <3>2 DEF Replay
            <4>2. QED
                BY <2>1, <2>3, <3>2, <4>1
        <3>3. QED
            BY <2>7, <3>1, <3>2
    <2>8. \A w \in Validators : height'[w] <= m + 1 /\ dkg'[w] = T[height'[w]]
        <3> SUFFICES ASSUME NEW w \in Validators
                     PROVE  height'[w] <= m + 1 /\ dkg'[w] = T[height'[w]]
            OBVIOUS
        <3>1. CASE w = v
            BY <1>2, <1>4, <1>6, <2>1, <3>1 DEF IInv, TypeOK
        <3>2. CASE w # v
            <4>1. height'[w] = height[w] /\ dkg'[w] = dkg[w] /\ height[w] \in Nat
                BY <1>4, <3>2 DEF IInv, TypeOK
            <4>2. height[w] \in 0 .. m /\ dkg[w] = S[height[w]]
                BY <1>1, <4>1 DEF Replay
            <4>3. QED
                BY <2>1, <4>1, <4>2
        <3>3. QED
            BY <3>1, <3>2
    <2>9. \A w \in Validators :
             /\ snapshot'[w].height <= m + 1
             /\ Restored(w)' = T[snapshot'[w].height]
        <3>1. \A w \in Validators : snapshot[w].height \in 0 .. m
            BY <1>1 DEF Replay, IInv, TypeOK
        <3>2. \A w \in Validators : Restored(w) = T[snapshot[w].height]
            BY <1>1, <2>1, <3>1 DEF Replay
        <3>3. QED
            BY <1>4, <3>1, <3>2 DEF Restored
    <2>10. Replay(T, m + 1)'
        BY <1>4, <2>4, <2>5, <2>6, <2>7, <2>8, <2>9 DEF Replay
    <2>11. ASSUME MaxBlockMsgs = 1
           PROVE  Checked(T, m + 1)'
        <3>1. Checked(S, m)
            BY <1>1, <2>11
        <3>2. Len(chain) = m + 1
            BY <1>2, <1>6, <3>1 DEF Checked
        <3>3. VerifyMessage(S[m], msg) /\ CountsDealers(S[m]) /\ IsDkg(S[m])
            BY <1>1, <1>2, <1>6, <3>1 DEF Checked, Replay, msg
        <3>4. /\ CountsDealers(d) /\ Keeps(S[m], d)
              /\ d.state = "Success" =>
                    msg.type = "Aggregate" /\ msg.final_key = d.final_key
            BY <1>3, <2>2, <3>3, VerifiedStep
        <3>5. ASSUME NEW k \in 0 .. m + 1, k < Len(chain')
              PROVE  VerifyMessage(T[k], chain'[k + 1])
            BY <1>4, <2>1, <3>1, <3>2, <3>5 DEF Checked
        <3>6. \A k \in 0 .. m + 1 : CountsDealers(T[k])
            BY <2>1, <2>4, <3>1, <3>4 DEF Checked
        <3>7. ASSUME NEW j \in 0 .. m + 1, NEW k \in 0 .. m + 1, j <= k
              PROVE  Keeps(T[j], T[k])
            <4>1. CASE k <= m
                BY <2>1, <3>1, <3>7, <4>1 DEF Checked
            <4>2. CASE k = m + 1 /\ j <= m
                <5>1. Keeps(S[j], S[m]) /\ T[j] = S[j]
                    BY <2>1, <3>1, <4>2 DEF Checked
                <5>2. QED
                    BY <2>1, <3>4, <4>2, <5>1 DEF Keeps
            <4>3. CASE k = m + 1 /\ j = m + 1
                BY <4>3 DEF Keeps
            <4>4. QED
                BY <3>7, <4>1, <4>2, <4>3
        <3>8. ASSUME NEW k \in 0 .. m + 1
              PROVE  KeyAnnouncedBy(T[k], k)'
            <4>1. CASE k <= m
                BY <1>4, <2>1, <3>1, <4>1 DEF Checked, KeyAnnouncedBy
            <4>2. CASE k = m + 1
                BY <1>4, <1>6, <2>1, <3>4, <4>2 DEF KeyAnnouncedBy, msg
            <4>3. QED
                BY <4>1, <4>2
        <3>9. QED
            BY <1>4, <3>2, <3>5, <3>6, <3>7, <3>8 DEF Checked
    <2>12. QED
        BY <2>10, <2>11 DEF ReplayInv
<1>7. QED
    BY <1>2, <1>5, <1>6

\* Every step keeps the invariant.
LEMMA InvariantStep == IInv /\ [Next]_vars => IInv'
<1> SUFFICES ASSUME IInv, [Next]_vars
             PROVE  IInv'
    OBVIOUS
<1>1. TypeOK'
    BY TypeStep DEF IInv
<1>2. ASSUME UNCHANGED <<dkg, height, snapshot, chain>>
      PROVE  ReplayInv'
    BY <1>2, ReplayFrame DEF IInv
<1>3. ASSUME NEW v \in Validators, Propose(v)
      PROVE  ReplayInv'
    BY <1>3, ReplayPropose
<1>4. ASSUME NEW v \in Validators, ApplyNext(v)
      PROVE  ReplayInv'
    BY <1>4, ReplayApply
<1>5. ASSUME NEW v \in Validators, SaveSession(v) \/ Restart(v)
      PROVE  ReplayInv'
    BY <1>5, ReplaySaveRestart
<1>6. ASSUME NEW v \in Validators,
             Share(v) \/ AggregateTranscripts(v) \/ IncreaseBlock(v)
             \/ FaultyShare(v) \/ FaultyAggregate(v)
      PROVE  UNCHANGED <<dkg, height, snapshot, chain>>
    BY <1>6 DEF Share, AggregateTranscripts, IncreaseBlock, FaultyShare,
                FaultyAggregate
<1>7. ReplayInv'
    <2>1. CASE UNCHANGED vars
        BY <1>2, <2>1 DEF vars, IInv
    <2>2. CASE Next
        BY <1>2, <1>3, <1>4, <1>5, <1>6, <2>2, ChainAssumption DEF Next, IInv
    <2>3. QED
        BY <2>1, <2>2
<1>8. QED
    BY <1>1, <1>7 DEF IInv

\* All sessions, held or saved, are members of one replay of the chain.
THEOREM OneReplay == Spec => []IInv
<1>1. Init => IInv
    BY TypeInit, ReplayInit DEF IInv
<1>2. QED
    BY <1>1, InvariantStep, PTL DEF Spec

-----------------------------------------------------------------------------
(***************************************************************************)
(* Consequences, for blocks of any size.                                   *)
(***************************************************************************)

\* Validators that have applied the same messages hold the same session, for
\* any validator set, any blocks, any faulty messages, saves and restarts.
THEOREM SameHeightSameSession == Spec => []ReplicasAgree
<1>1. IInv => ReplicasAgree
    BY DEF IInv, ReplayInv, Replay, ReplicasAgree
<1>2. QED
    BY <1>1, OneReplay, PTL

\* All validators that reach Success cache one and the same final_key.
THEOREM OneFinalKey == Spec => []KeyAgreement
<1>1. IInv => KeyAgreement
    <2> SUFFICES ASSUME IInv, NEW v \in Validators, NEW w \in Validators,
                        dkg[v].state = "Success", dkg[w].state = "Success"
                 PROVE  dkg[v].final_key = dkg[w].final_key
        BY DEF KeyAgreement
    <2>0. PICK m \in Nat : \E S : Replay(S, m)
        BY DEF IInv, ReplayInv
    <2>1. PICK S : Replay(S, m)
        BY <2>0
    <2>2. /\ height[v] \in 0 .. m /\ dkg[v] = S[height[v]]
          /\ height[w] \in 0 .. m /\ dkg[w] = S[height[w]]
        BY <2>1 DEF Replay, IInv, TypeOK
    <2>3. height[v] <= height[w] \/ height[w] <= height[v]
        BY <2>2
    <2>4. S[height[v]] = S[height[w]]
        BY <2>1, <2>2, <2>3 DEF Replay
    <2>5. QED
        BY <2>2, <2>4
<1>2. QED
    BY <1>1, OneReplay, PTL

-----------------------------------------------------------------------------
(***************************************************************************)
(* Consequences when each block holds one DKG message.  Each fails for     *)
(* larger blocks, as the runs dkg_batch_quorum and dkg_batch_key show.     *)
(***************************************************************************)

\* What a session held by v owes to the messages being verified one by one.
LEMMA CheckedSession ==
    ASSUME IInv, MaxBlockMsgs = 1, NEW v \in Validators
    PROVE  /\ CountsDealers(dkg[v])
           /\ KeyAnnouncedBy(dkg[v], height[v])
           /\ height[v] < Len(chain) =>
                 VerifyMessage(dkg[v], chain[height[v] + 1])
           /\ Keeps(dkg[v], Restored(v)) \/ Keeps(Restored(v), dkg[v])
<1>0. PICK m \in Nat : \E S : Replay(S, m) /\ Checked(S, m)
    BY DEF IInv, ReplayInv
<1>1. PICK S : Replay(S, m) /\ Checked(S, m)
    BY <1>0
<1>2. /\ height[v] \in 0 .. m /\ dkg[v] = S[height[v]]
      /\ snapshot[v].height \in 0 .. m /\ Restored(v) = S[snapshot[v].height]
    BY <1>1 DEF Replay, IInv, TypeOK
<1>3. height[v] <= snapshot[v].height \/ snapshot[v].height <= height[v]
    BY <1>2
<1>4. QED
    BY <1>1, <1>2, <1>3 DEF Checked

\* accumulated_shares counts different dealers, and Dealt and Success have
\* shares_num - security_threshold of them.
THEOREM QuorumReached ==
    ASSUME MaxBlockMsgs = 1
    PROVE  Spec => []QuorumOfDealers
<1>1. IInv => QuorumOfDealers
    BY CheckedSession DEF CountsDealers, QuorumOfDealers
<1>2. QED
    BY <1>1, OneReplay, PTL

\* No validator has left Sharing.
AllSharing == \A v \in Validators : dkg[v].state = "Sharing"

\* Parameters that ask apply_message for more dealers than there are
\* validators, which PubliclyVerifiableDkg::new accepts, keep every session in
\* Sharing for ever: shares_num larger than the validator set by more than the
\* threshold, as in examples/pvdkg.rs, or a threshold larger than shares_num,
\* where the difference of the two u32 wraps.
THEOREM OversizedQuorumBlocks ==
    ASSUME MaxBlockMsgs = 1,
           MinimumShares > Cardinality(Validators)
    PROVE  Spec => []AllSharing
<1>1. IInv => AllSharing
    <2> SUFFICES ASSUME IInv, NEW v \in Validators
                 PROVE  dkg[v].state = "Sharing"
        BY DEF AllSharing
    <2>1. DOMAIN dkg[v].vss \subseteq Validators
        BY DEF IInv, TypeOK, IsDkg, IsVss
    <2>2. /\ Cardinality(DOMAIN dkg[v].vss) <= Cardinality(Validators)
          /\ Cardinality(DOMAIN dkg[v].vss) \in Nat
          /\ Cardinality(Validators) \in Nat
        BY <2>1, ValidatorsAssumption, FS_Subset, FS_CardinalityType
    <2>3. dkg[v].state # "Sharing" =>
             Cardinality(DOMAIN dkg[v].vss) >= MinimumShares
        BY CheckedSession DEF CountsDealers
    <2>4. QED
        BY <2>2, <2>3, MinimumSharesType
<1>2. QED
    BY <1>1, OneReplay, PTL

\* In Dealt, the validator's own aggregation passes verify_message.
THEOREM AggregateAccepted ==
    ASSUME MaxBlockMsgs = 1
    PROVE  Spec => []OwnAggregateVerifies
<1>1. IInv => OwnAggregateVerifies
    <2> SUFFICES ASSUME IInv, NEW v \in Validators,
                        dkg[v].state = "Dealt"
                 PROVE  VerifyAggregate(dkg[v], AggregateOf(dkg[v]))
        BY DEF OwnAggregateVerifies
    <2>1. Cardinality(DOMAIN dkg[v].vss) >= MinimumShares
        BY CheckedSession DEF CountsDealers
    <2>2. QED
        BY <2>1 DEF VerifyAggregate, VerifyAggregation, AggregateOf, Aggregation
<1>2. QED
    BY <1>1, OneReplay, PTL

\* apply_message returns Ok for every agreed message at every validator.
THEOREM NoAgreedMessageFails ==
    ASSUME MaxBlockMsgs = 1
    PROVE  Spec => []AgreedMessagesApply
<1>1. IInv => AgreedMessagesApply
    <2> SUFFICES ASSUME IInv, NEW v \in Validators,
                        height[v] < Len(chain)
                 PROVE  ApplyDefined(dkg[v], chain[height[v] + 1])
        BY DEF AgreedMessagesApply
    <2>1. chain[height[v] + 1] \in Messages
        BY DEF IInv, TypeOK
    <2>2. QED
        BY <2>1, CheckedSession, VerifiedApplies
<1>2. QED
    BY <1>1, OneReplay, PTL

\* The cached key is the one an agreed Aggregate message carried.
THEOREM KeyAnnounced ==
    ASSUME MaxBlockMsgs = 1
    PROVE  Spec => []FinalKeyWasAnnounced
<1>1. IInv => FinalKeyWasAnnounced
    BY CheckedSession DEF KeyAnnouncedBy, FinalKeyWasAnnounced
<1>2. QED
    BY <1>1, OneReplay, PTL

\* No step, a restart included, replaces a dealer's transcript.
THEOREM NoTranscriptReplaced ==
    ASSUME MaxBlockMsgs = 1
    PROVE  Spec => TranscriptsAreKept
<1> DEFINE Kept == \A v \in Validators :
                     \A w \in DOMAIN dkg[v].vss \cap DOMAIN dkg'[v].vss :
                        dkg'[v].vss[w] = dkg[v].vss[w]
<1>1. IInv /\ [Next]_vars => [Kept]_vars
    <2> SUFFICES ASSUME IInv, Next
                 PROVE  Kept
        BY DEF vars
    <2>1. CASE dkg' = dkg
        BY <2>1
    <2>2. ASSUME NEW v \in Validators, ApplyNext(v)
          PROVE  Kept
        <3> DEFINE m == chain[height[v] + 1]
        <3>1. height[v] < Len(chain) /\ m \in Messages /\ IsDkg(dkg[v])
            BY <2>2 DEF IInv, TypeOK, ApplyNext
        <3>2. Keeps(dkg[v], ApplyMessage(dkg[v], m))
            BY <3>1, CheckedSession, VerifiedStep
        <3>3. dkg' = [dkg EXCEPT ![v] = ApplyMessage(dkg[v], m)]
            BY <2>2 DEF ApplyNext
        <3> HIDE DEF m
        <3>4. QED
            BY <3>2, <3>3 DEF Keeps, IInv, TypeOK
    <2>3. ASSUME NEW v \in Validators, Restart(v)
          PROVE  Kept
        <3>1. dkg' = [dkg EXCEPT ![v] = Restored(v)]
            BY <2>3 DEF Restart, Restored
        <3>2. Keeps(dkg[v], Restored(v)) \/ Keeps(Restored(v), dkg[v])
            BY CheckedSession
        <3>3. QED
            BY <3>1, <3>2 DEF Keeps, IInv, TypeOK
    <2>4. ASSUME NEW v \in Validators,
                 Share(v) \/ AggregateTranscripts(v) \/ IncreaseBlock(v)
                 \/ FaultyShare(v) \/ FaultyAggregate(v) \/ Propose(v)
                 \/ SaveSession(v)
          PROVE  dkg' = dkg
        BY <2>4 DEF Share, AggregateTranscripts, IncreaseBlock, FaultyShare,
                    FaultyAggregate, Propose, SaveSession
    <2>5. QED
        BY <2>1, <2>2, <2>3, <2>4, ChainAssumption DEF Next
<1>2. QED
    BY <1>1, OneReplay, PTL DEF Spec, TranscriptsAreKept

-----------------------------------------------------------------------------
(***************************************************************************)
(* DkgChain implements KeyGeneration when a block holds one DKG message,   *)
(* for every validator set, all parameters, faults and bounds.             *)
(*                                                                         *)
(* The abstract session is read off the chain, while verify_message reads  *)
(* the proposer's session.  The replay S of the agreement proof connects    *)
(* them: the session after k messages holds exactly the transcripts of the *)
(* Deals among them, and an Aggregate ends the chain.                      *)
(***************************************************************************)

\* The transcripts of session d are those of the Deals among the first h
\* messages, each dealer having sent one.
ReadOff(d, h) ==
    /\ DOMAIN d.vss = {chain[i].sender.address :
                          i \in {j \in 1 .. h : chain[j].type = "Deal"}}
    /\ \A i \in 1 .. h : chain[i].type = "Deal" =>
          d.vss[chain[i].sender.address] = chain[i].pvss

-----------------------------------------------------------------------------
(***************************************************************************)
(* What the replay says of the chain.                                      *)
(***************************************************************************)

\* Message i was verified against the session before it, and made the next.
LEMMA ReplayAt ==
    ASSUME NEW m \in Nat, NEW S, Replay(S, m), Checked(S, m), TypeOK,
           NEW i \in 1 .. Len(chain)
    PROVE  /\ i - 1 \in 0 .. m /\ i \in Nat
           /\ chain[i] \in Messages
           /\ VerifyMessage(S[i - 1], chain[i])
           /\ i <= m => S[i] = ApplyMessage(S[i - 1], chain[i])
<1>1. /\ Len(chain) \in Nat /\ Len(chain) <= m + 1
      /\ i - 1 \in 0 .. m /\ i - 1 < Len(chain) /\ (i - 1) + 1 = i
    BY DEF Checked, TypeOK
<1>2. i - 1 < m => S[(i - 1) + 1] = ApplyMessage(S[i - 1], chain[(i - 1) + 1])
    BY <1>1 DEF Replay
<1>3. i - 1 < Len(chain) => VerifyMessage(S[i - 1], chain[(i - 1) + 1])
    BY <1>1 DEF Checked
<1>4. chain[i] \in Messages
    BY <1>1 DEF TypeOK
<1>5. QED
    BY <1>1, <1>2, <1>3, <1>4

\* What message i dealt is in every session after it.
LEMMA DealIsKept ==
    ASSUME NEW m \in Nat, NEW S, Replay(S, m), Checked(S, m), TypeOK,
           NEW i \in 1 .. Len(chain), chain[i].type = "Deal",
           NEW k \in i .. m
    PROVE  /\ chain[i].sender.address \in DOMAIN S[k].vss
           /\ S[k].vss[chain[i].sender.address] = chain[i].pvss
<1> DEFINE w == chain[i].sender.address
<1>1. S[i] = ApplyMessage(S[i - 1], chain[i]) /\ i \in 0 .. m
    BY ReplayAt
<1>2. ApplyDefined(S[i - 1], chain[i])
    BY ReplayAt, VerifiedApplies
<1>3. S[i] = ApplyDeal(S[i - 1], chain[i])
    BY <1>1, <1>2 DEF ApplyMessage
<1>4. w \in DOMAIN S[i].vss /\ S[i].vss[w] = chain[i].pvss
    BY <1>3 DEF ApplyDeal, InsertVss
<1>5. Keeps(S[i], S[k])
    BY <1>1 DEF Checked
<1>6. QED
    BY <1>4, <1>5 DEF Keeps

\* An Aggregate that has been applied has ended the session.
LEMMA AggregateEnds ==
    ASSUME NEW m \in Nat, NEW S, Replay(S, m), Checked(S, m), TypeOK,
           NEW i \in 1 .. Len(chain), chain[i].type = "Aggregate", i <= m
    PROVE  S[i].state = "Success"
<1>1. S[i] = ApplyMessage(S[i - 1], chain[i])
    BY ReplayAt
<1>2. VerifyAggregate(S[i - 1], chain[i])
    BY ReplayAt DEF VerifyMessage
<1>3. QED
    BY <1>1, <1>2
    DEF VerifyAggregate, ApplyMessage, ApplyDefined, ApplyAggregate

\* Nothing verifies in Success, so nothing follows an Aggregate.
LEMMA AggregateIsLast ==
    ASSUME IInv, MaxBlockMsgs = 1,
           NEW i \in 1 .. Len(chain), chain[i].type = "Aggregate"
    PROVE  i = Len(chain)
<1> SUFFICES ASSUME i < Len(chain)
             PROVE  FALSE
    BY DEF IInv, TypeOK
<1>0. PICK m \in Nat : \E S : Replay(S, m) /\ Checked(S, m)
    BY DEF IInv, ReplayInv
<1>1. PICK S : Replay(S, m) /\ Checked(S, m)
    BY <1>0
<1>2. i \in Nat /\ i + 1 \in 1 .. Len(chain) /\ (i + 1) - 1 = i
    BY DEF IInv, TypeOK
<1>3. i <= m /\ VerifyMessage(S[i], chain[i + 1])
    <2>1. (i + 1) - 1 \in 0 .. m /\ VerifyMessage(S[(i + 1) - 1], chain[i + 1])
        BY <1>1, <1>2, ReplayAt DEF IInv
    <2>2. QED
        BY <1>2, <2>1
<1>4. S[i].state = "Success"
    BY <1>1, <1>3, AggregateEnds DEF IInv
<1>5. QED
    BY <1>3, <1>4 DEF VerifyMessage, VerifyDeal, VerifyAggregate

\* No validator deals twice.
LEMMA DealtOnce ==
    ASSUME IInv, MaxBlockMsgs = 1,
           NEW i \in 1 .. Len(chain), chain[i].type = "Deal",
           NEW j \in 1 .. Len(chain), chain[j].type = "Deal",
           chain[i].sender.address = chain[j].sender.address
    PROVE  i = j
<1>0. PICK m \in Nat : \E S : Replay(S, m) /\ Checked(S, m)
    BY DEF IInv, ReplayInv
<1>1. PICK S : Replay(S, m) /\ Checked(S, m)
    BY <1>0
<1>2. ASSUME NEW k \in 1 .. Len(chain), NEW l \in 1 .. Len(chain), k < l,
             chain[k].type = "Deal", chain[l].type = "Deal"
      PROVE  chain[k].sender.address # chain[l].sender.address
    <2>1. l - 1 \in 0 .. m /\ VerifyMessage(S[l - 1], chain[l])
        BY <1>1, ReplayAt DEF IInv
    <2>2. l - 1 \in k .. m
        BY <1>2, <2>1
    <2>3. chain[k].sender.address \in DOMAIN S[l - 1].vss
        BY <1>1, <1>2, <2>2, DealIsKept DEF IInv
    <2>4. chain[l].sender.address \notin DOMAIN S[l - 1].vss
        BY <1>2, <2>1 DEF VerifyMessage, VerifyDeal, RepeatDealer
    <2>5. QED
        BY <2>3, <2>4
<1>3. i \in Int /\ j \in Int
    OBVIOUS
<1>4. QED
    BY <1>2, <1>3

\* Where v dealt.
DealsOf(v) == {i \in Positions("Deal") : chain[i].sender.address = v}

\* Contribution takes the one Deal there is.
LEMMA LastDeal ==
    ASSUME IInv, MaxBlockMsgs = 1, NEW v \in Dealers
    PROVE  \E i \in DealsOf(v) :
              /\ \A j \in DealsOf(v) : j = i
              /\ Contribution(v) = chain[i].pvss.coeff0
<1> DEFINE Last(i) == \A j \in DealsOf(v) : j <= i
<1>1. PICK i \in DealsOf(v) : TRUE
    BY DEF Dealers, DealsOf
<1>2. \A j \in DealsOf(v) : j = i
    BY DealtOnce DEF DealsOf, Positions
<1>3. i \in Nat
    BY DEF DealsOf, Positions
<1>4. Last(i)
    BY <1>2, <1>3
<1>5. (CHOOSE j \in DealsOf(v) : Last(j)) \in DealsOf(v)
    BY <1>4
<1>6. Contribution(v) = chain[CHOOSE j \in DealsOf(v) : Last(j)].pvss.coeff0
    BY DEF Contribution, DealsOf
<1> HIDE DEF Last
<1>7. QED
    BY <1>2, <1>5, <1>6

\* A session holds what the messages below its height dealt, and is over if
\* one of them was an Aggregate.
LEMMA SessionReadOff ==
    ASSUME IInv, OriginInv, MaxBlockMsgs = 1, NEW v \in Validators
    PROVE  /\ ReadOff(dkg[v], height[v])
           /\ \A i \in 1 .. height[v] :
                 chain[i].type = "Aggregate" => dkg[v].state = "Success"
<1>0. PICK m \in Nat : \E S : Replay(S, m) /\ Checked(S, m)
    BY DEF IInv, ReplayInv
<1>1. PICK S : Replay(S, m) /\ Checked(S, m)
    BY <1>0
<1> DEFINE h == height[v]
<1>2. h \in 0 .. m /\ dkg[v] = S[h] /\ h <= Len(chain) /\ Len(chain) \in Nat
    BY <1>1 DEF Replay, IInv, TypeOK
<1>3. ASSUME NEW i \in 1 .. h, chain[i].type = "Deal"
      PROVE  /\ chain[i].sender.address \in DOMAIN dkg[v].vss
             /\ dkg[v].vss[chain[i].sender.address] = chain[i].pvss
    <2>1. i \in 1 .. Len(chain) /\ h \in i .. m
        BY <1>2
    <2>2. QED
        BY <1>1, <1>2, <1>3, <2>1, DealIsKept DEF IInv
<1>4. ASSUME NEW w \in DOMAIN dkg[v].vss
      PROVE  \E i \in 1 .. h : chain[i].type = "Deal" /\ chain[i].sender.address = w
    <2>1. PICK i \in 1 .. h : chain[i] = Deal(Listed(w), dkg[v].vss[w])
        BY DEF OriginInv, FromDealers
    <2>2. QED
        BY <2>1 DEF Deal, Listed
<1>5. ASSUME NEW i \in 1 .. h, chain[i].type = "Aggregate"
      PROVE  dkg[v].state = "Success"
    <2>1. i \in 1 .. Len(chain) /\ i <= m /\ i <= h /\ i \in 0 .. m
        BY <1>2
    <2>2. S[i].state = "Success"
        BY <1>1, <1>5, <2>1, AggregateEnds DEF IInv
    <2>3. QED
        BY <1>1, <1>2, <2>1, <2>2 DEF Replay
<1>6. QED
    BY <1>3, <1>4, <1>5 DEF ReadOff

\* The announced key is that of the last message, if it is an Aggregate.
LEMMA AnnouncedIs ==
    ASSUME IInv, MaxBlockMsgs = 1, NEW i \in 1 .. Len(chain),
           chain[i].type = "Aggregate"
    PROVE  Announced = chain[i].final_key /\ Announced \in KeySums
<1>1. i \in Positions("Aggregate")
    BY DEF Positions
<1>2. \A j \in Positions("Aggregate") : j = i
    BY AggregateIsLast DEF Positions
<1>3. (CHOOSE j \in Positions("Aggregate") : TRUE) = i
    BY <1>1, <1>2
<1>4. chain[i] \in Messages
    BY DEF IInv, TypeOK
<1>5. QED
    BY <1>1, <1>3, <1>4 DEF Announced, Messages

\* A key that a session has cached is the announced one.
LEMMA CachedIsAnnounced ==
    ASSUME IInv, MaxBlockMsgs = 1, NEW d, NEW h \in 0 .. Len(chain),
           IsDkg(d), KeyAnnouncedBy(d, h)
    PROVE  d.final_key = NoKey \/ (Announced # NoKey /\ d.final_key = Announced)
<1>1. CASE d.state = "Success"
    <2>1. PICK i \in 1 .. h :
             chain[i].type = "Aggregate" /\ chain[i].final_key = d.final_key
        BY <1>1 DEF KeyAnnouncedBy
    <2>2. i \in 1 .. Len(chain)
        BY DEF IInv, TypeOK
    <2>3. QED
        BY <2>1, <2>2, AnnouncedIs, NoKeyAssumption
<1>2. CASE d.state # "Success"
    BY <1>2 DEF IsDkg
<1>3. QED
    BY <1>1, <1>2

\* So is the key of a session that is saved.
LEMMA SavedSession ==
    ASSUME IInv, MaxBlockMsgs = 1, NEW v \in Validators
    PROVE  IsDkg(Restored(v)) /\ KeyAnnouncedBy(Restored(v), snapshot[v].height)
<1>0. PICK m \in Nat : \E S : Replay(S, m) /\ Checked(S, m)
    BY DEF IInv, ReplayInv
<1>1. PICK S : Replay(S, m) /\ Checked(S, m)
    BY <1>0
<1>2. snapshot[v].height \in 0 .. m /\ Restored(v) = S[snapshot[v].height]
    BY <1>1 DEF Replay, IInv, TypeOK
<1>3. QED
    BY <1>1, <1>2 DEF Replay, Checked

-----------------------------------------------------------------------------
(***************************************************************************)
(* The mapping, step by step.                                              *)
(***************************************************************************)

\* The abstract state that a session stands for.
Contributed == [v \in Dealers |-> Contribution(v)]

Known == [v \in Validators |-> dkg[v].final_key]

\* KeyGeneration counts as DkgChain does.
LEMMA SameCardinality == \A S : Abstract!Cardinality(S) = Cardinality(S)
BY DEF Abstract!Cardinality, Cardinality

\* A session starts where KeyGeneration does.
LEMMA InitRefines == Init => Abstract!Init
<1> SUFFICES ASSUME Init
             PROVE  Abstract!Init
    OBVIOUS
<1>1. Len(chain) = 0
    BY DEF Init
<1>2. Positions("Deal") = {} /\ Positions("Aggregate") = {}
    BY <1>1 DEF Positions
<1>3. Dealers = {} /\ Announced = NoKey
    BY <1>2 DEF Dealers, Announced
<1>4. \A v \in Validators : dkg[v].final_key = NoKey
    BY DEF Init, NewDkg
<1>5. QED
    BY <1>3, <1>4 DEF Abstract!Init

\* What is read off a chain that does not change.
LEMMA SameChain ==
    ASSUME chain' = chain
    PROVE  Contributed' = Contributed /\ Announced' = Announced
<1>1. Positions("Deal")' = Positions("Deal")
      /\ Positions("Aggregate")' = Positions("Aggregate")
    BY DEF Positions
<1>2. Dealers' = Dealers
    BY <1>1 DEF Dealers
<1>3. Announced' = Announced
    BY DEF Announced, Positions
<1>4. \A v : Contribution(v)' = Contribution(v)
    BY <1>1 DEF Contribution
<1>5. QED
    BY <1>2, <1>3, <1>4 DEF Contributed

\* A step after which v has the announced key, or none, and nothing else that
\* KeyGeneration sees has changed.
LEMMA KnownChanges ==
    ASSUME TypeOK, chain' = chain, NEW v \in Validators, NEW d,
           dkg' = [dkg EXCEPT ![v] = d],
           d.final_key = NoKey \/ (Announced # NoKey /\ d.final_key = Announced)
    PROVE  Abstract!Next
<1>1. Contributed' = Contributed /\ Announced' = Announced
    BY SameChain
<1>2. Known' = [Known EXCEPT ![v] = d.final_key]
    BY DEF Known, TypeOK
<1>3. CASE d.final_key = NoKey
    BY <1>1, <1>2, <1>3 DEF Abstract!Next, Abstract!Forget, Contributed, Known
<1>4. CASE Announced # NoKey /\ d.final_key = Announced
    BY <1>1, <1>2, <1>4 DEF Abstract!Next, Abstract!Learn, Contributed, Known
<1>5. QED
    BY <1>3, <1>4

\* A function on 1 .. n is a sequence.
LEMMA FunctionIsSequence ==
    ASSUME NEW T, NEW n \in Nat, NEW b \in [1 .. n -> T]
    PROVE  b \in Seq(T) /\ Len(b) = n
OBVIOUS

\* The proposer of a block of one message has verified it in a session that
\* holds exactly what the chain has dealt.
LEMMA ProposedMessage ==
    ASSUME IInv, OriginInv, MaxBlockMsgs = 1, NEW v \in Validators, Propose(v)
    PROVE  \E m \in Messages :
              /\ VerifyMessage(dkg[v], m)
              /\ Len(chain') = Len(chain) + 1
              /\ chain'[Len(chain) + 1] = m
              /\ \A k \in 1 .. Len(chain) : chain'[k] = chain[k]
              /\ Len(chain) \in Nat
              /\ Dealers = DOMAIN dkg[v].vss
              /\ \A w \in Dealers : Contribution(w) = dkg[v].vss[w].coeff0
              /\ Positions("Aggregate") = {}
<1>1. PICK b \in Blocks(v) : chain' = chain \o b
    BY DEF Propose
<1>2. PICK n \in 1 .. MaxBlockMsgs :
         b \in [1 .. n -> {msg \in pool : VerifyMessage(dkg[v], msg)}]
    BY <1>1 DEF Blocks
<1>3. n = 1
    BY <1>2
<1>4. b \in Seq(pool) /\ Len(b) = 1 /\ b[1] \in pool
      /\ VerifyMessage(dkg[v], b[1])
    <2>1. 1 \in 1 .. n
        BY <1>3
    <2>2. b[1] \in {msg \in pool : VerifyMessage(dkg[v], msg)}
        BY <1>2, <2>1
    <2>3. n \in Nat /\ b \in [1 .. n -> pool]
        BY <1>2
    <2>4. b \in Seq(pool) /\ Len(b) = n
        BY <2>3, FunctionIsSequence
    <2>5. QED
        BY <1>3, <2>2, <2>4
<1>5. chain \in Seq(pool) /\ pool \subseteq Messages
    BY DEF IInv, TypeOK
<1>6. /\ Len(chain') = Len(chain) + 1
      /\ chain'[Len(chain) + 1] = b[1]
      /\ \A k \in 1 .. Len(chain) : chain'[k] = chain[k]
      /\ Len(chain) \in Nat
    <2> b \in Seq(pool)
        BY <1>4
    <2>1. /\ Len(chain \o b) = Len(chain) + Len(b)
          /\ \A k \in 1 .. Len(chain) : (chain \o b)[k] = chain[k]
          /\ \A k \in 1 .. Len(b) : (chain \o b)[Len(chain) + k] = b[k]
          /\ Len(chain) \in Nat
        BY <1>5, ConcatFacts
    <2>2. 1 \in 1 .. Len(b)
        BY <1>4
    <2>3. QED
        BY <1>1, <1>4, <2>1, <2>2
<1>7. /\ ReadOff(dkg[v], Len(chain))
      /\ \A i \in 1 .. Len(chain) :
            chain[i].type = "Aggregate" => dkg[v].state = "Success"
    BY SessionReadOff DEF Propose
<1>8. Dealers = DOMAIN dkg[v].vss
    BY <1>7 DEF Dealers, Positions, ReadOff
<1>9. ASSUME NEW w \in Dealers
      PROVE  Contribution(w) = dkg[v].vss[w].coeff0
    <2>1. PICK i \in DealsOf(w) : Contribution(w) = chain[i].pvss.coeff0
        BY LastDeal
    <2>2. QED
        BY <1>7, <2>1 DEF ReadOff, DealsOf, Positions
<1>10. Positions("Aggregate") = {}
    <2> SUFFICES ASSUME NEW i \in 1 .. Len(chain), chain[i].type = "Aggregate"
                 PROVE  FALSE
        BY DEF Positions
    <2>1. dkg[v].state = "Success"
        BY <1>7
    <2>2. QED
        BY <1>4, <2>1 DEF VerifyMessage, VerifyDeal, VerifyAggregate
<1>11. QED
    BY <1>4, <1>5, <1>6, <1>8, <1>9, <1>10

\* What has been dealt stays dealt.
LEMMA ContributionKept ==
    ASSUME IInv, MaxBlockMsgs = 1, NEW x \in Dealers,
           \A i \in Positions("Deal") : chain'[i] = chain[i],
           \A i \in Positions("Deal")' \ Positions("Deal") :
              chain'[i].sender.address # x,
           Positions("Deal") \subseteq Positions("Deal")'
    PROVE  Contribution(x)' = Contribution(x)
<1>1. DealsOf(x)' = DealsOf(x)
    BY DEF DealsOf
<1> DEFINE last == CHOOSE i \in DealsOf(x) : \A j \in DealsOf(x) : j <= i
<1>2. PICK i \in DealsOf(x) : \A j \in DealsOf(x) : j = i
    BY LastDeal
<1>3. last \in DealsOf(x)
    <2>1. i \in Nat
        BY DEF DealsOf, Positions
    <2>2. \A j \in DealsOf(x) : j <= i
        BY <1>2, <2>1
    <2>3. QED
        BY <2>2
<1>4. Contribution(x) = chain[last].pvss.coeff0
      /\ Contribution(x)' = chain'[last].pvss.coeff0
    BY <1>1 DEF Contribution, DealsOf
<1>5. QED
    BY <1>3, <1>4 DEF DealsOf

\* Getting a Deal agreed is a contribution, and an Aggregate generates the key.
LEMMA ProposeRefines ==
    ASSUME IInv, OriginInv, MaxBlockMsgs = 1, NEW v \in Validators, Propose(v)
    PROVE  Abstract!Next
<1>1. PICK m \in Messages :
         /\ VerifyMessage(dkg[v], m)
         /\ Len(chain') = Len(chain) + 1
         /\ chain'[Len(chain) + 1] = m
         /\ \A k \in 1 .. Len(chain) : chain'[k] = chain[k]
         /\ Len(chain) \in Nat
         /\ Dealers = DOMAIN dkg[v].vss
         /\ \A w \in Dealers : Contribution(w) = dkg[v].vss[w].coeff0
         /\ Positions("Aggregate") = {}
    BY ProposedMessage
<1> DEFINE n == Len(chain) + 1
<1>2. Announced = NoKey
    BY <1>1 DEF Announced
<1>3. /\ Positions("Deal")' =
            Positions("Deal") \cup IF m.type = "Deal" THEN {n} ELSE {}
      /\ Positions("Aggregate")' = IF m.type = "Aggregate" THEN {n} ELSE {}
      /\ \A i \in Positions("Deal") : i \in 1 .. Len(chain) /\ i # n
    <2>1. 1 .. Len(chain') = 1 .. Len(chain) \cup {n} /\ n \notin 1 .. Len(chain)
        BY <1>1
    <2>2. \A i \in 1 .. Len(chain) : chain[i].type # "Aggregate"
        BY <1>1 DEF Positions
    <2>3. QED
        BY <1>1, <2>1, <2>2 DEF Positions
<1>4. Known' = Known
    BY DEF Known, Propose
<1>5. CASE m.type = "Deal"
    <2> DEFINE w == m.sender.address
    <2>1. w \in Validators /\ w \notin DOMAIN dkg[v].vss
        BY <1>1, <1>5, VerifiedApplies
        DEF VerifyMessage, VerifyDeal, RepeatDealer, ApplyDefined
    <2>2. Announced' = NoKey
        BY <1>3, <1>5 DEF Announced
    <2>3. Dealers' = Dealers \cup {w}
        BY <1>1, <1>3, <1>5 DEF Dealers
    <2>4. ASSUME NEW x \in Dealers
          PROVE  Contribution(x)' = Contribution(x)
        <3>1. x # w
            BY <1>1, <2>1
        <3>2. QED
            BY <1>1, <1>3, <1>5, <3>1, ContributionKept
    <2>5. Contribution(w)' = m.pvss.coeff0
        <3> DEFINE deals == {i \in Positions("Deal")' :
                                chain'[i].sender.address = w}
        <3>1. \A i \in Positions("Deal") : chain[i].sender.address # w
            BY <1>1, <2>1 DEF Dealers
        <3>2. deals = {n}
            BY <1>1, <1>3, <1>5, <3>1
        <3>3. (CHOOSE i \in deals : \A j \in deals : j <= i) = n
            BY <1>1, <3>2
        <3>4. QED
            BY <1>1, <3>3 DEF Contribution
    <2>6. m.pvss.coeff0 \in Secrets
        BY <1>1, <1>5 DEF Messages, Transcripts
    <2>7. Contributed' = [x \in DOMAIN Contributed \cup {w} |->
                IF x = w THEN m.pvss.coeff0 ELSE Contributed[x]]
        <3>1. DOMAIN Contributed = Dealers /\ w \notin Dealers
            BY <1>1, <2>1 DEF Contributed
        <3>2. \A x \in Dealers : Contributed[x] = Contribution(x)
            BY DEF Contributed
        <3>3. Contributed' = [x \in Dealers \cup {w} |-> Contribution(x)']
            BY <2>3 DEF Contributed
        <3>4. QED
            BY <2>4, <2>5, <3>1, <3>2, <3>3
    <2>8. w \notin DOMAIN Contributed
        BY <1>1, <2>1 DEF Contributed
    <2>9. Abstract!Contribute(w)
        BY <1>2, <1>4, <2>2, <2>6, <2>7, <2>8
        DEF Abstract!Contribute, Contributed, Known
    <2>10. QED
        BY <2>1, <2>9 DEF Abstract!Next
<1>6. CASE m.type = "Aggregate"
    <2>1. /\ Cardinality(DOMAIN dkg[v].vss) >= MinimumShares
          /\ m.final_key = FinalKey(dkg[v].vss)
        BY <1>1, <1>6 DEF VerifyMessage, VerifyAggregate
    <2>2. Announced' = m.final_key
        <3>1. Positions("Aggregate")' = {n}
            BY <1>3, <1>6
        <3>2. (CHOOSE i \in {n} : TRUE) = n
            OBVIOUS
        <3>3. QED
            BY <1>1, <3>1, <3>2 DEF Announced
    <2>3. Contributed' = Contributed
        <3>1. Positions("Deal")' = Positions("Deal")
              /\ \A i \in Positions("Deal") : chain'[i] = chain[i]
            BY <1>1, <1>3, <1>6
        <3>2. Dealers' = Dealers
            BY <3>1 DEF Dealers
        <3>3. \A x \in Dealers : Contribution(x)' = Contribution(x)
            BY <3>1, ContributionKept
        <3>4. QED
            BY <3>2, <3>3 DEF Contributed
    <2>4. Abstract!Sum(Contributed) = m.final_key
        <3>1. DOMAIN Contributed = DOMAIN dkg[v].vss
              /\ \A w \in DOMAIN dkg[v].vss :
                    Contributed[w] = dkg[v].vss[w].coeff0
            BY <1>1 DEF Contributed
        <3>2. \A s : {w \in DOMAIN Contributed : Contributed[w] = s}
                        = {w \in DOMAIN dkg[v].vss : dkg[v].vss[w].coeff0 = s}
            BY <3>1
        <3> HIDE DEF Contributed
        <3>3. QED
            BY <2>1, <3>2, SameCardinality DEF Abstract!Sum, FinalKey
    <2>5. Cardinality(DOMAIN Contributed) >= MinimumShares
        BY <1>1, <2>1 DEF Contributed
    <2>6. Abstract!Generate
        <3>1. Announced' = Abstract!Sum(Contributed)
            BY <2>2, <2>4
        <3>2. QED
            BY <1>2, <1>4, <2>3, <2>5, <3>1, SameCardinality
            DEF Abstract!Generate, Contributed, Known
    <2>7. QED
        BY <2>6 DEF Abstract!Next
<1>7. QED
    BY <1>1, <1>5, <1>6 DEF Messages

\* Every step maps to a step of KeyGeneration or to none.
LEMMA StepRefines ==
    MaxBlockMsgs = 1 /\ IInv /\ OriginInv /\ [Next]_vars =>
        [Abstract!Next]_Abstract!vars
<1> SUFFICES ASSUME MaxBlockMsgs = 1, IInv, OriginInv, [Next]_vars
             PROVE  [Abstract!Next]_Abstract!vars
    OBVIOUS
<1>1. TypeOK
    BY DEF IInv
<1>2. ASSUME chain' = chain, dkg' = dkg
      PROVE  UNCHANGED Abstract!vars
    BY <1>2, SameChain DEF Abstract!vars, Contributed
<1>3. ASSUME NEW v \in Validators, Propose(v)
      PROVE  Abstract!Next
    BY <1>3, ProposeRefines
<1>4. ASSUME NEW v \in Validators, ApplyNext(v)
      PROVE  Abstract!Next
    <2> DEFINE h == height[v] + 1
               d == ApplyMessage(dkg[v], chain[h])
    <2>1. /\ dkg' = [dkg EXCEPT ![v] = d] /\ chain' = chain
          /\ h \in 1 .. Len(chain) /\ height[v] < Len(chain)
        BY <1>1, <1>4 DEF ApplyNext, TypeOK
    <2>2. IsDkg(dkg[v]) /\ chain[h] \in Messages
        BY <1>1, <2>1 DEF TypeOK
    <2>3. CountsDealers(dkg[v]) /\ VerifyMessage(dkg[v], chain[h])
        BY <2>1, CheckedSession
    <2>4. d.state = "Success" =>
             chain[h].type = "Aggregate" /\ chain[h].final_key = d.final_key
        BY <2>2, <2>3, VerifiedStep
    <2>5. IsDkg(d)
        BY <2>2, ApplyMessageType
    <2> HIDE DEF d
    <2>6. KeyAnnouncedBy(d, h) /\ h \in 0 .. Len(chain)
        BY <2>1, <2>4 DEF KeyAnnouncedBy
    <2> HIDE DEF h
    <2>7. QED
        BY <1>1, <2>1, <2>5, <2>6, CachedIsAnnounced, KnownChanges
<1>5. ASSUME NEW v \in Validators, Restart(v)
      PROVE  Abstract!Next
    <2>1. dkg' = [dkg EXCEPT ![v] = Restored(v)] /\ chain' = chain
        BY <1>5 DEF Restart, Restored
    <2>2. IsDkg(Restored(v)) /\ KeyAnnouncedBy(Restored(v), snapshot[v].height)
        BY SavedSession
    <2>3. snapshot[v].height \in 0 .. Len(chain)
        BY <1>1 DEF TypeOK
    <2>4. QED
        BY <1>1, <2>1, <2>2, <2>3, CachedIsAnnounced, KnownChanges
<1>6. ASSUME NEW v \in Validators,
             Share(v) \/ AggregateTranscripts(v) \/ IncreaseBlock(v)
             \/ FaultyShare(v) \/ FaultyAggregate(v) \/ SaveSession(v)
      PROVE  chain' = chain /\ dkg' = dkg
    BY <1>6 DEF Share, AggregateTranscripts, IncreaseBlock, FaultyShare,
                FaultyAggregate, SaveSession
<1>7. CASE UNCHANGED vars
    BY <1>2, <1>7 DEF vars
<1>8. QED
    BY <1>2, <1>3, <1>4, <1>5, <1>6, <1>7, ChainAssumption DEF Next

\* The replicas driven by the chain do what KeyGeneration promises: one key,
\* from one contribution of each of at least shares_num - security_threshold
\* validators, which every validator in Success has, before and after any
\* restart.
THEOREM ImplementsKeyGeneration ==
    ASSUME MaxBlockMsgs = 1
    PROVE  Spec => GeneratesOneKey
<1>1. Spec => [](IInv /\ OriginInv)
    BY OneReplay, OriginInvInit, OriginInvStep, PTL DEF Spec
<1>2. MaxBlockMsgs = 1
    OBVIOUS
<1>3. IInv /\ OriginInv /\ [Next]_vars => [Abstract!Next]_Abstract!vars
    BY <1>2, StepRefines
<1>4. QED
    BY <1>1, <1>3, InitRefines, PTL DEF Spec, GeneratesOneKey, Abstract!Spec
=============================================================================
