----------------------------- MODULE MCDkgChain -----------------------------
(***************************************************************************)
(* DkgChain for TLC.                                                       *)
(***************************************************************************)
EXTENDS DkgChain, TLC

\* Validators with the same role are interchangeable: the transcript map is
\* only ever summed, counted and looked up.
Symmetry == Permutations(Faulty) \cup Permutations(Validators \ Faulty)
=============================================================================
