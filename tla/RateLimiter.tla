----------------------------- MODULE RateLimiter -----------------------------
(***************************************************************************)
(* The window of permits behind the rate-limiter decorator                 *)
(* (packages/rate-limiter/lib/internal/rate-limiter-strategy.ts) and the   *)
(* decorated calls that ask for them (packages/rate-limiter/lib/           *)
(* rate-limiter.ts).                                                       *)
(*                                                                         *)
(* A caller is one invocation, and stands for the uuid it draws, so all    *)
(* ids differ.  Both scopes keep the window in Redis under a key made of   *)
(* the limiter's name (and the request's identifier): callers of all       *)
(* instances share it.  Both batches are pipelines, a step per command; a  *)
(* connection is first in first out, so the batches of one instance do not *)
(* interleave (Turn), but those of two instances do.                       *)
(***************************************************************************)
EXTENDS Integers, FiniteSets

CONSTANTS
    Callers,          \* invocations that share a key
    Instances, Home,  \* Home[c]: the process a caller runs in
    PermitLimit,      \* config.permitLimit
    Window,           \* config.window
    MaxNow            \* bound: the clock stops there

ASSUME HomeAssumption == Home \in [Callers -> Instances]
ASSUME ConfigAssumption ==
    /\ IsFiniteSet(Callers)
    /\ PermitLimit \in Nat /\ Window \in Nat /\ MaxNow \in Nat

VARIABLES
    now,      \* Date.now(); the processes' clocks agree
    key,      \* key[c]: score of c in the sorted set of permits, by time
    owner,    \* owner[c]: score of c in `${key}::owner`, by ticket
    counter,  \* the INCR counter `${key}::counter`
    pc,       \* where each caller is
    stamp,    \* `now` of getRateWindow
    ticket,   \* `count` of getRateWindow
    abreast   \* history: who was asking when a caller began to ask

vars == <<now, key, owner, counter, pc, stamp, ticket, abreast>>

-----------------------------------------------------------------------------
Absent == -1   \* score of a caller that is not a member of a sorted set

Peers(c) == {d \in Callers \ {c} : Home[d] = Home[c]}

MidPipeline == {"intersecting", "drawing", "placingOwner", "ranking", "withdrawingOwner"}
Awaiting == MidPipeline \cup {"evicting", "placing", "withdrawing"}
Done == {"admitted", "rejected", "crashed"}
PCs == Awaiting \cup Done \cup {"idle"}

\* The connection of c is not in the middle of a peer's pipeline.
Turn(c) == \A d \in Peers(c) : pc[d] \notin MidPipeline

\* The peers in stage s, whose batches are ordered by f, come after c.
Before(c, s, f) == \A d \in Peers(c) : pc[d] = s => f[d] >= f[c]

Goto(c, to) == pc' = [pc EXCEPT ![c] = to]

-----------------------------------------------------------------------------
Init ==
    /\ now = 0
    /\ key = [c \in Callers |-> Absent]
    /\ owner = [c \in Callers |-> Absent]
    /\ counter = 0
    /\ pc = [c \in Callers |-> "idle"]
    /\ stamp = [c \in Callers |-> 0]
    /\ ticket = [c \in Callers |-> 0]
    /\ abreast = [c \in Callers |-> {}]

\* Variant of Call: the start of the window takes the place of the time.
CallMutant(c) ==
    /\ pc[c] = "idle"
    /\ stamp' = [stamp EXCEPT ![c] = now - Window]
    /\ Goto(c, "evicting")
    /\ UNCHANGED <<now, key, owner, counter, ticket, abreast>>

\* The decorated function is called; the first batch is sent.
Call(c) ==
    /\ pc[c] = "idle"
    /\ stamp' = [stamp EXCEPT ![c] = now]
    /\ abreast' = [abreast EXCEPT ![c] = {d \in Callers : pc[d] \in Awaiting}]
    /\ Goto(c, "evicting")
    /\ UNCHANGED <<now, key, owner, counter, ticket>>

\* Variant of Evict: a window one unit too short.
EvictMutant(c) ==
    /\ pc[c] = "evicting"
    /\ key' = [d \in Callers |-> IF key[d] <= stamp[c] - Window + 1 THEN Absent ELSE key[d]]
    /\ Goto(c, "intersecting")
    /\ UNCHANGED <<now, owner, counter, stamp, ticket, abreast>>

\* zRemRangeByScore: the permits of earlier windows.
Evict(c) ==
    /\ pc[c] = "evicting"
    /\ Turn(c) /\ Before(c, "evicting", stamp)
    /\ key' = [d \in Callers |-> IF key[d] <= stamp[c] - Window THEN Absent ELSE key[d]]
    /\ Goto(c, "intersecting")
    /\ UNCHANGED <<now, owner, counter, stamp, ticket, abreast>>

\* Variant of Intersect: the owner set is not cleaned.
IntersectMutant(c) ==
    /\ pc[c] = "intersecting"
    /\ Goto(c, "drawing")
    /\ UNCHANGED <<now, key, owner, counter, stamp, ticket, abreast>>

\* zInterStore with weights 1 and 0: members of both, with the owner's score.
Intersect(c) ==
    /\ pc[c] = "intersecting"
    /\ owner' = [d \in Callers |-> IF key[d] = Absent THEN Absent ELSE owner[d]]
    /\ Goto(c, "drawing")
    /\ UNCHANGED <<now, key, counter, stamp, ticket, abreast>>

\* incr
Draw(c) ==
    /\ pc[c] = "drawing"
    /\ counter' = counter + 1
    /\ ticket' = [ticket EXCEPT ![c] = counter + 1]
    /\ Goto(c, "placing")
    /\ UNCHANGED <<now, key, owner, stamp, abreast>>

\* The second batch: zAdd key, zAdd owner, zRank.
PlaceKey(c) ==
    /\ pc[c] = "placing"
    /\ Turn(c) /\ Before(c, "placing", ticket)
    /\ key' = [key EXCEPT ![c] = stamp[c]]
    /\ Goto(c, "placingOwner")
    /\ UNCHANGED <<now, owner, counter, stamp, ticket, abreast>>

PlaceOwner(c) ==
    /\ pc[c] = "placingOwner"
    /\ owner' = [owner EXCEPT ![c] = ticket[c]]
    /\ Goto(c, "ranking")
    /\ UNCHANGED <<now, key, counter, stamp, ticket, abreast>>

\* The callers ahead of c: its zero-based zRank is their number.
Ahead(c) == {d \in Callers : owner[d] # Absent /\ owner[d] < owner[c]}

\* Variant of Allowed: the rank is compared with <=.
AllowedMutant(c) == owner[c] # Absent /\ Cardinality(Ahead(c)) <= PermitLimit

\* `rankInt !== undefined && rankInt < permitLimit`
Allowed(c) == owner[c] # Absent /\ Cardinality(Ahead(c)) < PermitLimit

\* zRank answers: fn is called, or the caller withdraws.
Rank(c) ==
    /\ pc[c] = "ranking"
    /\ Goto(c, IF Allowed(c) THEN "admitted" ELSE "withdrawing")
    /\ UNCHANGED <<now, key, owner, counter, stamp, ticket, abreast>>

\* zRem key, zRem owner; then RateLimitViolationException.
WithdrawKey(c) ==
    /\ pc[c] = "withdrawing"
    /\ Turn(c)
    /\ key' = [key EXCEPT ![c] = Absent]
    /\ Goto(c, "withdrawingOwner")
    /\ UNCHANGED <<now, owner, counter, stamp, ticket, abreast>>

WithdrawOwner(c) ==
    /\ pc[c] = "withdrawingOwner"
    /\ owner' = [owner EXCEPT ![c] = Absent]
    /\ Goto(c, "rejected")
    /\ UNCHANGED <<now, key, counter, stamp, ticket, abreast>>

\* The batch a caller awaits rejects, whatever part of it Redis has executed:
\* the caller is refused, and its entries stay.
ConnectionError(c) ==
    /\ pc[c] \in Awaiting
    /\ Goto(c, "rejected")
    /\ UNCHANGED <<now, key, owner, counter, stamp, ticket, abreast>>

\* A process dies; what its callers placed stays.
Crash(i) ==
    /\ \E c \in Callers : Home[c] = i /\ pc[c] \notin Done
    /\ pc' = [c \in Callers |->
                IF Home[c] = i /\ pc[c] \notin Done THEN "crashed" ELSE pc[c]]
    /\ UNCHANGED <<now, key, owner, counter, stamp, ticket, abreast>>

Tick ==
    /\ now < MaxNow
    /\ now' = now + 1
    /\ UNCHANGED <<key, owner, counter, pc, stamp, ticket, abreast>>

Next ==
    \/ \E c \in Callers :
          \/ Call(c) \/ Evict(c) \/ Intersect(c) \/ Draw(c) \/ PlaceKey(c)
          \/ PlaceOwner(c) \/ Rank(c) \/ WithdrawKey(c) \/ WithdrawOwner(c)
          \/ ConnectionError(c)
    \/ \E i \in Instances : Crash(i)
    \/ Tick

Spec == Init /\ [][Next]_vars

-----------------------------------------------------------------------------
\* The type of every variable of the window and of its callers.
TypeOK ==
    /\ now \in Nat
    /\ key \in [Callers -> Nat \cup {Absent}]
    /\ owner \in [Callers -> Nat \cup {Absent}]
    /\ counter \in Nat
    /\ pc \in [Callers -> PCs]
    /\ stamp \in [Callers -> Nat]
    /\ ticket \in [Callers -> Nat]
    /\ abreast \in [Callers -> SUBSET Callers]

\* The callers whose function was called, and whose window is not over.
Fresh(c) == now - stamp[c] < Window
Granted == {c \in Callers : pc[c] = "admitted" /\ Fresh(c)}

Limiter == INSTANCE Permits
    WITH Clients <- Callers, GroupOf <- Home, Limit <- PermitLimit, granted <- Granted

\* In any window, at most permitLimit calls of an instance are let through,
\* whatever the other instances do on the key, and whatever errors and crashes
\* have left behind.
GrantedAt(i) == {c \in Granted : Home[c] = i}
WindowLimit == \A i \in Instances : Cardinality(GrantedAt(i)) <= PermitLimit

\* The callers of an instance see the window as a limiter of permitLimit permits,
\* granted one at a time while one is free, and given back by time alone.
ImplementsPermits == Limiter!Spec

\* The others that have asked in the window of c, or were still asking when it did.
Rivals(c) ==
    {d \in Callers \ {c} : pc[d] # "idle" /\ stamp[d] > stamp[c] - Window} \cup abreast[c]

\* A caller is turned away only if permitLimit others have competed with it: what
\* all those before them have left behind (crashes and errors included) is gone.
RefusedWhenFull ==
    [][\A c \in Callers :
          pc[c] = "ranking" /\ pc'[c] = "withdrawing" /\ Fresh(c) =>
              Cardinality(Rivals(c)) >= PermitLimit]_vars

\* "The rate limit can be enforced for the decorated method across all instances of the
\* application" (rate-limiter.ts:11): a caller of another instance may place a lower
\* ticket after this one was ranked.
LimitAcrossInstances == Cardinality(Granted) <= PermitLimit
=============================================================================
