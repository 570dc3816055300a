--------------------------- MODULE KeyGeneration ----------------------------
(***************************************************************************)
(* What a DKG session promises, with no chain, messages or replicas: each  *)
(* member contributes at most one secret, the key is fixed once, from at   *)
(* least Needed contributions, and is their sum; members learn that key,   *)
(* and may forget it when they resume an older session.                    *)
(***************************************************************************)
EXTENDS Integers, FiniteSets

CONSTANTS
    Members,
    Secrets,
    Needed,   \* how many contributions a key needs
    NoKey

VARIABLES
    contributed,  \* the secret of each member that has contributed
    key,          \* the generated key, a formal sum of secrets, or NoKey
    known         \* known[m]: the key that member m has, or NoKey

vars == <<contributed, key, known>>

Sum(contribution) ==
    [s \in Secrets |->
        Cardinality({m \in DOMAIN contribution : contribution[m] = s})]

Init ==
    /\ contributed = [m \in {} |-> NoKey]
    /\ key = NoKey
    /\ known = [m \in Members |-> NoKey]

Contribute(m) ==
    /\ key = NoKey
    /\ m \notin DOMAIN contributed
    /\ \E s \in Secrets :
          contributed' = [x \in DOMAIN contributed \cup {m} |->
                             IF x = m THEN s ELSE contributed[x]]
    /\ UNCHANGED <<key, known>>

Generate ==
    /\ key = NoKey
    /\ Cardinality(DOMAIN contributed) >= Needed
    /\ key' = Sum(contributed)
    /\ UNCHANGED <<contributed, known>>

Learn(m) ==
    /\ key # NoKey
    /\ known' = [known EXCEPT ![m] = key]
    /\ UNCHANGED <<contributed, key>>

Forget(m) ==
    /\ known' = [known EXCEPT ![m] = NoKey]
    /\ UNCHANGED <<contributed, key>>

Next ==
    \/ Generate
    \/ \E m \in Members :
          \/ Contribute(m)
          \/ Learn(m)
          \/ Forget(m)

Spec == Init /\ [][Next]_vars
=============================================================================
