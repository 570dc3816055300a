----------------------------- MODULE DkgChain ------------------------------
(***************************************************************************)
(* A DKG session: one PvDkg state machine per validator, driven by a chain *)
(* that orders the messages they post.  verify_message is the check of a   *)
(* message "in a block proposal" and apply_message runs "after consensus   *)
(* has agreed to include a verified message" (pv.rs:126, 171-173), so a    *)
(* proposer verifies every message of its block against the state before   *)
(* the block, and each validator applies the chain at its own pace, may    *)
(* save its session, crash, and resume from what it saved.                 *)
(*                                                                         *)
(* The chain itself is not part of the repository: Propose stands for any  *)
(* consensus protocol that agrees on one sequence of blocks.               *)
(***************************************************************************)
EXTENDS PvDkg

CONSTANTS
    Faulty,        \* the validators whose posted messages may be malformed
    Faults,        \* the ways in which they may be
    Watchers,      \* the validators whose hosts call increase_block
    MaxBlockMsgs,  \* bound: DKG messages in one block
    MaxChain,      \* bound: DKG messages on the chain
    MaxBlocks,     \* bound: calls of increase_block that count
    MaxRestarts    \* bound: restarts, over all validators

FaultKinds == {"bad_proof", "bad_shares", "bad_length", "rotated_key",
               "stranger", "wrong_key", "wrong_sum"}

ASSUME ChainAssumption ==
    /\ Faulty \subseteq Validators
    /\ Faults \subseteq FaultKinds
    /\ Watchers \subseteq Validators
    /\ MaxBlockMsgs \in Nat \ {0}
    /\ MaxChain \in Nat
    /\ MaxBlocks \in Nat
    /\ MaxRestarts \in Nat

VARIABLES
    dkg,       \* dkg[v]: v's PubliclyVerifiableDkg
    block,     \* block[v]: the block counter of v's Sharing state
    height,    \* height[v]: how many messages of the chain v has applied
    snapshot,  \* snapshot[v]: the session v saved last, serialized
    issued,    \* issued[v]: how many transcripts v has drawn
    pool,      \* messages posted; they stay, and may be included repeatedly
    chain,     \* the messages of the agreed blocks, in order
    restarts   \* restarts so far

vars == <<dkg, block, height, snapshot, issued, pool, chain, restarts>>

Save(d, b, h) == [bytes |-> Serialize(d, b), vss |-> d.vss, height |-> h]

Init ==
    /\ dkg = [v \in Validators |-> NewDkg]
    /\ block = [v \in Validators |-> 0]
    /\ height = [v \in Validators |-> 0]
    /\ snapshot = [v \in Validators |-> Save(NewDkg, 0, 0)]
    /\ issued = [v \in Validators |-> 0]
    /\ pool = {}
    /\ chain = <<>>
    /\ restarts = 0

-----------------------------------------------------------------------------
(***************************************************************************)
(* Posting messages.                                                       *)
(***************************************************************************)

\* share builds a transcript for a fresh secret and fails after Success.  It
\* does not look whether this validator has dealt before.
Share(v) ==
    /\ PvssNewDefined
    /\ dkg[v].state \in {"Sharing", "Dealt"}
    /\ issued[v] < MaxShares
    /\ issued' = [issued EXCEPT ![v] = @ + 1]
    /\ pool' = pool \cup {Deal(Listed(v), PvssNew(<<v, issued[v] + 1>>))}
    /\ UNCHANGED <<dkg, block, height, snapshot, chain, restarts>>

\* What a faulty validator posts instead of Deal(Listed(v), pvss).
FaultyDeal(v, pvss, fault) ==
    CASE fault = "bad_proof" ->
           Deal(Listed(v), [pvss EXCEPT !.sigma = NoSecret])
      [] fault = "bad_shares" ->
           Deal(Listed(v), [pvss EXCEPT !.consistent = FALSE])
      [] fault = "bad_length" ->
           Deal(Listed(v), [pvss EXCEPT !.len = "other"])
      [] fault = "rotated_key" ->
           Deal([address |-> v, public_key |-> "rotated"], pvss)
      [] fault = "stranger" ->
           Deal(Listed(Stranger), pvss)

FaultyShare(v) ==
    /\ issued[v] < MaxShares
    /\ issued' = [issued EXCEPT ![v] = @ + 1]
    /\ \E fault \in Faults \ {"wrong_key", "wrong_sum"} :
          pool' = pool \cup
                    {FaultyDeal(v, PvssNew(<<v, issued[v] + 1>>), fault)}
    /\ UNCHANGED <<dkg, block, height, snapshot, chain, restarts>>

AggregateTranscripts(v) ==
    /\ dkg[v].state = "Dealt"
    /\ AggregateDefined(dkg[v].vss)
    /\ pool' = pool \cup {AggregateOf(dkg[v])}
    /\ UNCHANGED <<dkg, block, height, snapshot, issued, chain, restarts>>

ZeroKey == [s \in Secrets |-> 0]

FaultyAggregate(v) ==
    /\ dkg[v].state = "Dealt"
    /\ \/ /\ "wrong_key" \in Faults
          /\ pool' = pool \cup
                {Aggregation(FinalKey(dkg[v].vss), TRUE, ZeroKey)}
       \/ /\ "wrong_sum" \in Faults
          /\ pool' = pool \cup
                {Aggregation(ZeroKey, TRUE, FinalKey(dkg[v].vss))}
    /\ UNCHANGED <<dkg, block, height, snapshot, issued, chain, restarts>>

-----------------------------------------------------------------------------
(***************************************************************************)
(* Blocks.                                                                 *)
(***************************************************************************)

\* The candidate blocks of validator v: different messages, each of which
\* verifies against the state before the block.
Blocks(v) ==
    LET valid == {m \in pool : VerifyMessage(dkg[v], m)}
        blocks == UNION {[1 .. n -> valid] : n \in 1 .. MaxBlockMsgs}
    IN  {b \in blocks : \A i, j \in DOMAIN b : b[i] = b[j] => i = j}

\* v, which has applied everything agreed so far, gets a block agreed.
Propose(v) ==
    /\ height[v] = Len(chain)
    /\ \E b \in Blocks(v) :
          /\ Len(chain) + Len(b) <= MaxChain
          /\ chain' = chain \o b
    /\ UNCHANGED <<dkg, block, height, snapshot, issued, pool, restarts>>

\* v applies the next message; an Err is skipped.  The block counter is a
\* field of Sharing and goes when the state does.
ApplyNext(v) ==
    /\ height[v] < Len(chain)
    /\ LET d == ApplyMessage(dkg[v], chain[height[v] + 1])
       IN  /\ dkg' = [dkg EXCEPT ![v] = d]
           /\ block' = [block EXCEPT ![v] =
                           IF d.state = "Sharing" THEN @ ELSE 0]
    /\ height' = [height EXCEPT ![v] = @ + 1]
    /\ UNCHANGED <<snapshot, issued, pool, chain, restarts>>

\* increase_block counts only while v's own transcript is missing; whatever
\* it does, it answers PvssScheduler::Wait.
IncreaseBlock(v) ==
    /\ dkg[v].state = "Sharing"
    /\ v \notin DOMAIN dkg[v].vss
    /\ block[v] < MaxBlocks
    /\ block' = [block EXCEPT ![v] = @ + 1]
    /\ UNCHANGED <<dkg, height, snapshot, issued, pool, chain, restarts>>

-----------------------------------------------------------------------------
(***************************************************************************)
(* Saving a session and resuming from it.                                  *)
(***************************************************************************)
SaveSession(v) ==
    /\ restarts < MaxRestarts
    /\ snapshot' = [snapshot EXCEPT ![v] = Save(dkg[v], block[v], height[v])]
    /\ snapshot' # snapshot
    /\ UNCHANGED <<dkg, block, height, issued, pool, chain, restarts>>

Restart(v) ==
    /\ restarts < MaxRestarts
    /\ restarts' = restarts + 1
    /\ dkg' = [dkg EXCEPT ![v] =
                 Deserialize(snapshot[v].bytes, snapshot[v].vss)]
    /\ block' = [block EXCEPT ![v] = DeserializeBlock(snapshot[v].bytes)]
    /\ height' = [height EXCEPT ![v] = snapshot[v].height]
    /\ UNCHANGED <<snapshot, issued, pool, chain>>

-----------------------------------------------------------------------------
Next ==
    \/ \E v \in Validators :
          \/ Share(v)
          \/ AggregateTranscripts(v)
          \/ Propose(v)
          \/ ApplyNext(v)
          \/ SaveSession(v)
          \/ Restart(v)
    \/ \E v \in Watchers : IncreaseBlock(v)
    \/ \E v \in Faulty : FaultyShare(v) \/ FaultyAggregate(v)

Spec == Init /\ [][Next]_vars

(***************************************************************************)
(* Fairness.  A correct validator keeps calling share until it has used    *)
(* its draws or the session is over, aggregates once it can, applies what  *)
(* is agreed, and the chain goes on including messages that verify.        *)
(* Nothing is assumed of a faulty validator, or of saving and restarting.  *)
(***************************************************************************)
Correct == Validators \ Faulty

Fairness ==
    /\ \A v \in Correct :
          /\ WF_vars(Share(v))
          /\ WF_vars(AggregateTranscripts(v))
          /\ WF_vars(ApplyNext(v))
    /\ WF_vars(\E v \in Validators : Propose(v))

FairSpec == Spec /\ Fairness

-----------------------------------------------------------------------------
(***************************************************************************)
(* Properties.                                                             *)
(***************************************************************************)
\* Every variable keeps its type: the states, maps and messages of pv.rs.
TypeOK ==
    /\ dkg = [v \in Validators |-> dkg[v]]
    /\ \A v \in Validators : IsDkg(dkg[v])
    /\ block \in [Validators -> 0 .. MaxBlocks]
    /\ height \in [Validators -> 0 .. Len(chain)]
    /\ snapshot = [v \in Validators |-> snapshot[v]]
    /\ \A v \in Validators :
          /\ IsDkg(Deserialize(snapshot[v].bytes, snapshot[v].vss))
          /\ DeserializeBlock(snapshot[v].bytes) \in 0 .. MaxBlocks
          /\ snapshot[v].height \in 0 .. Len(chain)
    /\ issued \in [Validators -> 0 .. MaxShares]
    /\ pool \subseteq Messages
    /\ chain \in Seq(pool)
    /\ restarts \in 0 .. MaxRestarts

\* Two validators that have applied the same number of messages hold the same
\* session, whatever crashes and resumes lie between them: apply_message is
\* deterministic and a saved session is restored exactly.
ReplicasAgree ==
    \A v, w \in Validators : height[v] = height[w] => dkg[v] = dkg[w]

\* Any two validators that reach Success, however far apart they run, have
\* cached the same final_key.
KeyAgreement ==
    \A v, w \in Validators :
        dkg[v].state = "Success" /\ dkg[w].state = "Success" =>
            dkg[v].final_key = dkg[w].final_key

\* accumulated_shares, a counter kept beside the map, counts the dealers in
\* the map, and Dealt is reached only with shares_num - security_threshold
\* different dealers (pvss.rs:54-56: "once enough validators have done this").
QuorumOfDealers ==
    \A v \in Validators :
        LET dealers == Cardinality(DOMAIN dkg[v].vss)
        IN  IF dkg[v].state = "Sharing"
            THEN dkg[v].accumulated_shares = dealers
            ELSE dealers >= MinimumShares

\* A validator in Dealt that aggregates gets a message its own verify_message
\* accepts: the quorum that apply_message counts up to and the one that
\* verify_message counts in the map are the same.
OwnAggregateVerifies ==
    \A v \in Validators :
        dkg[v].state = "Dealt" => VerifyAggregate(dkg[v], AggregateOf(dkg[v]))

\* A message that verified when it was proposed can be applied when a
\* validator, possibly much later, gets to it: apply_message returns Ok.
AgreedMessagesApply ==
    \A v \in Validators :
        height[v] < Len(chain) =>
            ApplyDefined(dkg[v], chain[height[v] + 1])

\* The key of Success is the one some agreed Aggregate announced, although
\* apply_message recomputes it and ignores the message's.
FinalKeyWasAnnounced ==
    \A v \in Validators :
        dkg[v].state = "Success" =>
            \E i \in 1 .. height[v] :
                /\ chain[i].type = "Aggregate"
                /\ chain[i].final_key = dkg[v].final_key

\* Every transcript in the map came with a valid proof of knowledge in a Deal
\* sent under the dealer's listed identity, address and session key, although
\* apply_message looks at the address alone.
TranscriptsAreDealers ==
    \A v \in Validators : \A w \in DOMAIN dkg[v].vss :
        /\ VerifyOptimistic(dkg[v].vss[w])
        /\ \E i \in 1 .. height[v] : chain[i] = Deal(Listed(w), dkg[v].vss[w])

\* A dealer's transcript is never replaced by another one, in Sharing, in
\* Dealt or by resuming an older session.
TranscriptsAreKept ==
    [][\A v \in Validators :
         \A w \in DOMAIN dkg[v].vss \cap DOMAIN dkg'[v].vss :
            dkg'[v].vss[w] = dkg[v].vss[w]]_vars

\* In Success every transcript that went into the key has shares that match
\* its commitment, the check verify_optimistic defers "until the aggregation
\* step" (pvss.rs:124-126).
SharesAreConsistent ==
    \A v \in Validators :
        dkg[v].state = "Success" =>
            \A w \in DOMAIN dkg[v].vss : dkg[v].vss[w].consistent

\* A validator in Dealt can aggregate what it has received: aggregate does
\* not panic on transcripts that verify_message let through.
DealtCanAggregate ==
    \A v \in Validators :
        dkg[v].state = "Dealt" => AggregateDefined(dkg[v].vss)

\* Every correct validator ends in Success, for good.
EventuallySuccess ==
    \A v \in Correct : <>[](dkg[v].state = "Success")
=============================================================================
