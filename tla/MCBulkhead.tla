----------------------------- MODULE MCBulkhead -----------------------------
(***************************************************************************)
(* Bulkhead with two instances that share a key: two callers in one, one   *)
(* in the other, every caller with a uid of its own.                       *)
(***************************************************************************)
EXTENDS Bulkhead

CONSTANTS a1, a2, b1, A, B

MCCallers == {a1, a2, b1}
MCInstances == {A, B}
MCHome == [c \in MCCallers |-> IF c = b1 THEN B ELSE A]
MCUniqueId == [c \in MCCallers |-> c]

SoloHome == [c \in {a1, a2} |-> A]
SoloUniqueId == [c \in {a1, a2} |-> c]
=============================================================================
