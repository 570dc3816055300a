------------------------------- MODULE MCPvss -------------------------------
(***************************************************************************)
(* Pvss for TLC, over the field of order 5.                                *)
(***************************************************************************)
EXTENDS Pvss

MCSessionKeys == {<<2, 1, 4, 3>>}
=============================================================================
