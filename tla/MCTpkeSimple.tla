---------------------------- MODULE MCTpkeSimple ----------------------------
(***************************************************************************)
(* TpkeSimple for TLC: the field of order 5, whose domain of size 4 is all *)
(* of its units.                                                           *)
(***************************************************************************)
EXTENDS TpkeSimple

\* Keys that are all equal, and keys that are all different.
MCBlindings == {<<2, 2, 2, 2>>, <<3, 1, 4, 2>>}
=============================================================================
