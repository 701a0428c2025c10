------------------------------- MODULE MCPipe -------------------------------
(***************************************************************************)
(* Every pipeline of some of the three decorators, in any order.           *)
(***************************************************************************)
EXTENDS Pipe

MCOrders ==
    {o \in UNION {[1..n -> Decorators] : n \in 1..3} :
        \A j, k \in DOMAIN o : o[j] = o[k] => j = k}
=============================================================================
