-------------------------- MODULE MCConcurrentLock --------------------------
(***************************************************************************)
(* Three calls for one lock key.  The duration is two time units, and the  *)
(* heartbeat's period one.                                                 *)
(***************************************************************************)
EXTENDS ConcurrentLock

CONSTANTS c1, c2, c3

MCCallers == {c1, c2, c3}
=============================================================================
