------------------------- MODULE MCConcurrentQueue -------------------------
(***************************************************************************)
(* Three calls for one key, two of them in one process.  The uuids of the  *)
(* two are on either side of that of the third.                            *)
(***************************************************************************)
EXTENDS ConcurrentQueue

CONSTANTS A, B

MCInstances == {A, B}
MCHome == [c \in Callers |-> IF c = 2 THEN B ELSE A]
=============================================================================
