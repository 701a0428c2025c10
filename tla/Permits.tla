------------------------------ MODULE Permits ------------------------------
(***************************************************************************)
(* What a concurrency limiter promises: clients come in groups, and at no  *)
(* time do more than Limit of the clients of a group hold a permit.  A     *)
(* client is granted a permit only while one of its group is free, one     *)
(* client at a time; permits may be given back or revoked in any number at *)
(* any time.  The Redis semaphore of the bulkhead is checked against this  *)
(* specification.                                                          *)
(***************************************************************************)
EXTENDS Naturals, FiniteSets

CONSTANTS Clients,  \* the calls that may ask for a permit
          GroupOf,  \* GroupOf[c]: the clients that c shares its permits with
          Limit     \* how many clients of a group may hold a permit

VARIABLE granted    \* the clients that hold a permit

Holders(c) == {d \in granted : GroupOf[d] = GroupOf[c]}

Init == granted = {}

\* A free permit is handed to one client that has none.
Grant(c) ==
    /\ c \notin granted
    /\ Cardinality(Holders(c)) < Limit
    /\ granted' = granted \cup {c}

\* Permits come back: released, expired, or lost with their process.
Return(S) == granted' = granted \ S

Next ==
    \/ \E c \in Clients : Grant(c)
    \/ \E S \in SUBSET granted : Return(S)

Spec == Init /\ [][Next]_granted
=============================================================================
