-------------------------- MODULE MCCircuitBreaker --------------------------
(***************************************************************************)
(* A circuit used by the callers of two instances; the second instance has *)
(* no callers of its own and may start at any time.                        *)
(***************************************************************************)
EXTENDS CircuitBreaker

CONSTANTS c1, c2, c3, A, B

MCInstances == {A, B}
MCHome == [c \in Callers |-> A]
=============================================================================
