--------------------------- MODULE DkgRefinement ----------------------------
(***************************************************************************)
(* DkgChain implements KeyGeneration when a block holds one DKG message.   *)
(* The abstract session is read off the agreed chain, applied or not; a    *)
(* validator knows the key it has cached in Success.                       *)
(***************************************************************************)
EXTENDS DkgChain

Positions(type) == {i \in 1 .. Len(chain) : chain[i].type = type}

Dealers == {chain[i].sender.address : i \in Positions("Deal")}

\* The secret that v dealt, in its last Deal if there are several.
Contribution(v) ==
    LET deals == {i \in Positions("Deal") : chain[i].sender.address = v}
    IN  chain[CHOOSE i \in deals : \A j \in deals : j <= i].pvss.coeff0

Announced ==
    LET aggregates == Positions("Aggregate")
    IN  IF aggregates = {} THEN NoKey
        ELSE chain[CHOOSE i \in aggregates : TRUE].final_key

Abstract == INSTANCE KeyGeneration WITH
    Members <- Validators,
    Needed <- MinimumShares,
    contributed <- [v \in Dealers |-> Contribution(v)],
    key <- Announced,
    known <- [v \in Validators |-> dkg[v].final_key]

\* The chain-driven replicas of pv.rs generate one key, from one contribution
\* of each of at least shares_num - security_threshold validators, and every
\* Success a validator reaches, or reaches again after resuming, is that key.
GeneratesOneKey == Abstract!Spec
=============================================================================
