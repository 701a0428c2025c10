------------------------------ MODULE MCHedge ------------------------------
(***************************************************************************)
(* Two calls of one Hedge object.                                          *)
(***************************************************************************)
EXTENDS Hedge

CONSTANTS c1, c2

=============================================================================
