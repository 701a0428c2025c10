------------------------------ MODULE MCCache ------------------------------
(***************************************************************************)
(* Three readers and two busters of one entry, for every kind of cache.    *)
(***************************************************************************)
EXTENDS Cache

MCConfigs ==
    {[kind |-> "cache", clearOnRequestEnd |-> FALSE],
     [kind |-> "local", clearOnRequestEnd |-> FALSE]}
    \cup [kind : {"distributed"}, clearOnRequestEnd : BOOLEAN]
=============================================================================
