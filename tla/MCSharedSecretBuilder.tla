----------------------- MODULE MCSharedSecretBuilder ------------------------
(***************************************************************************)
(* SharedSecretBuilder for TLC, over the field of order 5.                 *)
(***************************************************************************)
EXTENDS SharedSecretBuilder

\* The key shares and the combined secret are linear in the polynomial: a
\* basis.
MCPolys == {<<1, 0>>, <<3, 4>>}

\* Blinding factors that are all equal, and that are all different.
MCBlindings == {<<2, 2, 2, 2>>, <<3, 1, 4, 2>>}
=============================================================================
