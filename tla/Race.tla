-------------------------------- MODULE Race --------------------------------
(***************************************************************************)
(* What a race of promises promises, whichever way it is implemented: each *)
(* race is decided once, in favour of a contender that has settled, or by  *)
(* the cancellation of one; and it is decided if one of its contenders     *)
(* settles.  Which of several wins is left open here.                      *)
(***************************************************************************)
EXTENDS Integers

CONSTANTS Promises, Races, Contenders   \* Contenders[r]: the promises r races

VARIABLES
    settled,     \* the promises that have settled
    cancelled,   \* the promises whose races somebody has cancelled
    running,     \* the races that were started
    winner       \* winner[r]: {} or the set of the one that decided r

vars == <<settled, cancelled, running, winner>>

Init == settled = {} /\ cancelled = {} /\ running = {} /\ winner = [r \in Races |-> {}]

Settle(p) ==
    /\ p \notin settled
    /\ settled' = settled \cup {p}
    /\ UNCHANGED <<cancelled, running, winner>>

Cancel(p) ==
    /\ cancelled' = cancelled \cup {p}
    /\ UNCHANGED <<settled, running, winner>>

Decided(r, p) ==
    /\ winner[r] = {} /\ p \in Contenders[r] /\ p \in settled \cup cancelled
    /\ winner' = [winner EXCEPT ![r] = {p}]

\* A race may be decided as it starts.
Start(r) ==
    /\ r \notin running
    /\ running' = running \cup {r}
    /\ UNCHANGED winner \/ \E p \in Contenders[r] : Decided(r, p)
    /\ UNCHANGED <<settled, cancelled>>

Decide(r) ==
    /\ r \in running
    /\ \E p \in Contenders[r] : Decided(r, p)
    /\ UNCHANGED <<settled, cancelled, running>>

Next ==
    \/ \E p \in Promises : Settle(p) \/ Cancel(p)
    \/ \E r \in Races : Start(r) \/ Decide(r)

Spec == Init /\ [][Next]_vars

\* A race one of whose contenders has settled is decided.
Decisive ==
    \A r \in Races :
        r \in running /\ Contenders[r] \cap settled # {} ~> winner[r] # {}

FairSpec == Spec /\ Decisive
=============================================================================
