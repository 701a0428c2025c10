--------------------------- MODULE MCRateLimiter ---------------------------
(***************************************************************************)
(* Three callers of a rate limiter, two of them in one process.            *)
(***************************************************************************)
EXTENDS RateLimiter

CONSTANTS a1, a2, b1, A, B

MCCallers == {a1, a2, b1}
MCInstances == {A, B}
MCHome == [c \in MCCallers |-> IF c = b1 THEN B ELSE A]
=============================================================================
