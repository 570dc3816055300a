------------------------------- MODULE PvDkg -------------------------------
(***************************************************************************)
(* The DKG state machine of one validator: the struct                      *)
(* PubliclyVerifiableDkg of ferveo/src/dkg/pv.rs and the DkgState of       *)
(* ferveo/src/dkg.rs, as operators on a record.  DkgChain composes one     *)
(* such record per validator with the chain that orders their messages.    *)
(*                                                                         *)
(* Group elements are abstracted to what the state machine compares.  A    *)
(* transcript's F_0 = g^s stands for its secret s; a sum of group elements *)
(* is the formal sum of the secrets, a function from secrets to how often  *)
(* each occurs.  Pvss checks this abstraction against the polynomial       *)
(* arithmetic.                                                             *)
(***************************************************************************)
EXTENDS Integers, Sequences, FiniteSets

CONSTANTS
    Validators,         \* the addresses of the validator set
    Stranger,           \* an address outside it
    SharesNum,          \* Params.shares_num
    SecurityThreshold,  \* Params.security_threshold
    U32,                \* the modulus of u32 arithmetic (2^32 in the code)
    MaxShares,          \* bound: how often one validator calls share
    NoKey               \* the value of final_key before Success

ASSUME ValidatorsAssumption ==
    /\ IsFiniteSet(Validators)
    /\ Stranger \notin Validators

ASSUME ParamsAssumption ==
    /\ U32 \in Nat \ {0}
    /\ SharesNum \in 0 .. U32 - 1
    /\ SecurityThreshold \in 0 .. U32 - 1
    /\ MaxShares \in Nat

(***************************************************************************)
(* Params.shares_num - Params.security_threshold, both u32.  `new` checks  *)
(* neither, so the difference wraps when the threshold is the larger one.  *)
(***************************************************************************)
MinimumShares == (SharesNum - SecurityThreshold) % U32

(***************************************************************************)
(* The size of Radix2EvaluationDomain::new(n): the least power of two that *)
(* is at least n.                                                          *)
(***************************************************************************)
DomainSize ==
    CHOOSE n \in {2^k : k \in 0 .. SharesNum} :
        /\ n >= SharesNum
        /\ \A k \in 0 .. SharesNum : 2^k >= SharesNum => n <= 2^k

-----------------------------------------------------------------------------
(***************************************************************************)
(* Values.  The secret <<v, n>> is the one drawn by v's n-th call of share.*)
(***************************************************************************)
Secrets == Validators \X (1 .. MaxShares)

\* The secret a forged proof of knowledge is for: nobody's.
NoSecret == <<Stranger, 0>>

\* ExternalValidator: an address and the session key announced with it.
Senders == [address : Validators \cup {Stranger},
            public_key : {"session", "rotated"}]

\* How validator v is listed in `validators`.
Listed(v) == [address |-> v, public_key |-> "session"]

(***************************************************************************)
(* PubliclyVerifiableSS: coeff0 and sigma are the discrete logarithms of   *)
(* coeffs[0] and sigma, len is the number of coefficients relative to the  *)
(* session's, and consistent says that every encrypted share lies on the   *)
(* committed polynomial, which is what verify_full tests.  There is at     *)
(* least one coefficient: without one coeffs[0] panics in the check        *)
(* itself, verify_optimistic, and in verify_aggregation.                   *)
(***************************************************************************)
Transcripts == [coeff0 : Secrets,
                sigma : Secrets \cup {NoSecret},
                len : {"session", "other"},
                consistent : BOOLEAN]

\* The map vss: BTreeMap<u32, Pvss>, keyed by the validator's position.
IsVss(vss) ==
    /\ DOMAIN vss \subseteq Validators
    /\ vss \in [DOMAIN vss -> Transcripts]

\* Formal sums of secrets: elements of the group of F_0.
KeySums == [Secrets -> Nat]

ASSUME NoKeyAssumption == NoKey \notin KeySums

\* PubliclyVerifiableDkg with its DkgState unfolded: a field that the current
\* variant does not have is 0 or NoKey.  Nothing constructs Invalid.
IsDkg(d) ==
    /\ d = [state |-> d.state, accumulated_shares |-> d.accumulated_shares,
            vss |-> d.vss, final_key |-> d.final_key]
    /\ d.state \in {"Sharing", "Dealt", "Success"}
    /\ d.accumulated_shares \in Nat
    /\ d.state # "Sharing" => d.accumulated_shares = 0
    /\ IsVss(d.vss)
    /\ IF d.state = "Success" THEN d.final_key \in KeySums
                              ELSE d.final_key = NoKey

-----------------------------------------------------------------------------
(***************************************************************************)
(* PubliclyVerifiableDkg::new where it returns a session: with no domain   *)
(* for shares_num, or without `me` in `validators`, it returns Err and     *)
(* there is nothing to model.  `validators` is taken to list no address    *)
(* twice.  The block counter of Sharing is local to a validator and is     *)
(* kept apart from the part that messages determine.                       *)
(***************************************************************************)
NewDkg == [state |-> "Sharing",
           accumulated_shares |-> 0,
           vss |-> [v \in {} |-> NoSecret],
           final_key |-> NoKey]

\* Pvss::new underflows for threshold 0 and indexes the evaluations by the
\* validator's position, which must lie inside the domain.
PvssNewDefined ==
    /\ SecurityThreshold >= 1
    /\ Cardinality(Validators) <= DomainSize

\* Pvss::new for the secret s.
PvssNew(s) ==
    [coeff0 |-> s, sigma |-> s, len |-> "session", consistent |-> TRUE]

\* e(F_0, h) = e(g, sigma): the discrete logarithms agree.
VerifyOptimistic(pvss) == pvss.coeff0 = pvss.sigma

\* final_key: the sum of coeffs[0] over the transcripts received.
FinalKey(vss) ==
    [s \in Secrets |-> Cardinality({v \in DOMAIN vss : vss[v].coeff0 = s})]

\* aggregate unwraps the first transcript and adds the others with zip_eq,
\* which panics on vectors of different lengths.
AggregateDefined(vss) ==
    /\ DOMAIN vss # {}
    /\ \A v, w \in DOMAIN vss : vss[v].len = vss[w].len

Deal(sender, pvss) == [type |-> "Deal", sender |-> sender, pvss |-> pvss]

\* Nothing reads the sender of an Aggregate.
Aggregation(coeff0, consistent, key) ==
    [type |-> "Aggregate", coeff0 |-> coeff0, consistent |-> consistent,
     final_key |-> key]

\* PubliclyVerifiableDkg::aggregate in state Dealt.
AggregateOf(d) ==
    Aggregation(FinalKey(d.vss),
                \A v \in DOMAIN d.vss : d.vss[v].consistent,
                FinalKey(d.vss))

Messages == [type : {"Deal"}, sender : Senders, pvss : Transcripts]
            \cup [type : {"Aggregate"}, coeff0 : KeySums, consistent : BOOLEAN,
                  final_key : KeySums]

-----------------------------------------------------------------------------
(***************************************************************************)
(* verify_message, a read-only check against the current state.  The      *)
(* operators marked "seeded fault" are used by the mutation runs only.     *)
(***************************************************************************)

\* Seeded fault: the dealer is looked up by address, as apply_message does.
SenderHasListedAddress(sender) == sender.address \in Validators

\* Seeded fault: the dealer is not looked up at all.
AnySender(sender) == TRUE

\* position(|probe| sender == &probe.validator): address and key must match.
KnownDealer(sender) == \E v \in Validators : sender = Listed(v)

\* Seeded fault: the transcript map is not consulted.
NeverRepeat(d, sender) == FALSE

RepeatDealer(d, sender) == sender.address \in DOMAIN d.vss

VerifyDeal(d, m) ==
    /\ d.state \in {"Sharing", "Dealt"}
    /\ KnownDealer(m.sender)
    /\ ~RepeatDealer(d, m.sender)
    /\ VerifyOptimistic(m.pvss)

\* verify_aggregation calls verify_full and drops its answer (pvss.rs:186);
\* what it returns is the number of transcripts received.
VerifyAggregation(d, m) == m.coeff0 = FinalKey(d.vss)

\* Seeded fault: the message's final_key is not compared.
VerifyAggregateIgnoresKey(d, m) ==
    /\ d.state = "Dealt"
    /\ VerifyAggregation(d, m)
    /\ Cardinality(DOMAIN d.vss) >= MinimumShares

\* Seeded fault: "more than the threshold" instead of "at least".
VerifyAggregateStrict(d, m) ==
    /\ d.state = "Dealt"
    /\ VerifyAggregation(d, m)
    /\ Cardinality(DOMAIN d.vss) > MinimumShares
    /\ m.final_key = FinalKey(d.vss)

\* Seeded fault: the message is not compared with the transcripts received.
VerifyAggregateUncompared(d, m) ==
    /\ d.state = "Dealt"
    /\ Cardinality(DOMAIN d.vss) >= MinimumShares

VerifyAggregate(d, m) ==
    /\ d.state = "Dealt"
    /\ VerifyAggregation(d, m)
    /\ Cardinality(DOMAIN d.vss) >= MinimumShares
    /\ m.final_key = FinalKey(d.vss)

VerifyMessage(d, m) ==
    \/ m.type = "Deal" /\ VerifyDeal(d, m)
    \/ m.type = "Aggregate" /\ VerifyAggregate(d, m)

-----------------------------------------------------------------------------
(***************************************************************************)
(* apply_message.  It finds the dealer by address alone and repeats none   *)
(* of verify_message's checks; an Err leaves the state as it was.          *)
(***************************************************************************)
InsertVss(vss, v, pvss) ==
    [w \in DOMAIN vss \cup {v} |-> IF w = v THEN pvss ELSE vss[w]]

\* Seeded fault: off by one.
QuorumOffByOne(counted) == counted + 1 >= MinimumShares

Quorum(counted) == counted >= MinimumShares

ApplyDeal(d, m) ==
    LET counted == d.accumulated_shares + 1
        dealt == d.state = "Dealt" \/ Quorum(counted)
    IN  [state |-> IF dealt THEN "Dealt" ELSE "Sharing",
         accumulated_shares |-> IF dealt THEN 0 ELSE counted,
         vss |-> InsertVss(d.vss, m.sender.address, m.pvss),
         final_key |-> NoKey]

\* Seeded fault: the state changes but the key is not cached.
ApplyAggregateWithoutKey(d) ==
    [state |-> "Success",
     accumulated_shares |-> 0,
     vss |-> d.vss,
     final_key |-> NoKey]

\* The final key is recomputed; the one in the message is not used.
ApplyAggregate(d) ==
    [state |-> "Success",
     accumulated_shares |-> 0,
     vss |-> d.vss,
     final_key |-> FinalKey(d.vss)]

ApplyDefined(d, m) ==
    \/ /\ m.type = "Deal"
       /\ d.state \in {"Sharing", "Dealt"}
       /\ m.sender.address \in Validators
    \/ m.type = "Aggregate" /\ d.state = "Dealt"

ApplyMessage(d, m) ==
    IF ~ApplyDefined(d, m) THEN d
    ELSE IF m.type = "Deal" THEN ApplyDeal(d, m) ELSE ApplyAggregate(d)

-----------------------------------------------------------------------------
(***************************************************************************)
(* CanonicalSerialize and CanonicalDeserialize of DkgState: a tag byte and *)
(* the fields of the variant.                                              *)
(***************************************************************************)
Serialize(d, block) ==
    CASE d.state = "Sharing" -> <<0, d.accumulated_shares, block>>
      [] d.state = "Dealt"   -> <<1>>
      [] d.state = "Success" -> <<2, d.final_key>>

\* Seeded fault: the counter of Sharing is not read back.
DeserializeDropsCount(bytes, vss) ==
    [state |-> CASE bytes[1] = 0 -> "Sharing"
                 [] bytes[1] = 1 -> "Dealt"
                 [] bytes[1] = 2 -> "Success",
     accumulated_shares |-> 0,
     vss |-> vss,
     final_key |-> IF bytes[1] = 2 THEN bytes[2] ELSE NoKey]

\* Seeded fault: the key of Success is not read back.
DeserializeDropsKey(bytes, vss) ==
    [state |-> CASE bytes[1] = 0 -> "Sharing"
                 [] bytes[1] = 1 -> "Dealt"
                 [] bytes[1] = 2 -> "Success",
     accumulated_shares |-> IF bytes[1] = 0 THEN bytes[2] ELSE 0,
     vss |-> vss,
     final_key |-> IF bytes[1] = 2 THEN [s \in Secrets |-> 0] ELSE NoKey]

Deserialize(bytes, vss) ==
    [state |-> CASE bytes[1] = 0 -> "Sharing"
                 [] bytes[1] = 1 -> "Dealt"
                 [] bytes[1] = 2 -> "Success",
     accumulated_shares |-> IF bytes[1] = 0 THEN bytes[2] ELSE 0,
     vss |-> vss,
     final_key |-> IF bytes[1] = 2 THEN bytes[2] ELSE NoKey]

DeserializeBlock(bytes) == IF bytes[1] = 0 THEN bytes[3] ELSE 0
=============================================================================
