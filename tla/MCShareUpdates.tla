--------------------------- MODULE MCShareUpdates ---------------------------
(***************************************************************************)
(* ShareUpdates over the field of 13 elements: four participants at the    *)
(* fourth roots of unity, and points outside them for a recovered share.   *)
(***************************************************************************)
EXTENDS ShareUpdates

MCPolynomials == {<<3, 8>>, <<0, 5>>}

MCKeys == <<2, 1, 6, 11>>

\* The point of the lost share, and one that is nobody's.
MCRecoveryPoints == {DomainPoint(SharesNum), 2}
=============================================================================
