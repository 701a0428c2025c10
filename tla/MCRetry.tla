------------------------------ MODULE MCRetry ------------------------------
(***************************************************************************)
(* A retry used by two callers of one process and one of another: with a   *)
(* budget and one retry, or without a budget and with four retries.        *)
(***************************************************************************)
EXTENDS Retry

CONSTANTS a1, a2, b1, A, B

MCCallers == {a1, a2, b1}
MCInstances == {A, B}
MCHome == [c \in MCCallers |-> IF c = b1 THEN B ELSE A]
MCConfigs ==
    {[budgeted |-> TRUE, maxAttempts |-> 2, mode |-> "immediate"]}
    \cup [budgeted : {FALSE}, maxAttempts : {5}, mode : Modes]
=============================================================================
