------------------------------ MODULE Bulkhead ------------------------------
(***************************************************************************)
(* The Redis semaphore behind the bulkhead decorator                       *)
(* (packages/bulkhead/lib/internal/bulkhead-strategy.ts) and the decorated *)
(* call that takes and releases a permit (packages/bulkhead/lib/           *)
(* bulkhead.ts).                                                           *)
(*                                                                         *)
(* A caller is one invocation of a decorated function.  It lives in an     *)
(* instance (a process holding one Bulkhead object and one Redis           *)
(* connection).  Every await of the code is a point where others run; a    *)
(* MULTI/EXEC batch is one step, the commands of a pipeline are a step     *)
(* each.  A connection is first in first out, so the batches of one        *)
(* instance never interleave with each other (Turn, InOrder below), but    *)
(* those of two instances do.                                              *)
(***************************************************************************)
EXTENDS Integers, FiniteSets

CONSTANTS
    Callers,           \* invocations of the decorated function
    Instances,         \* processes, each with one Bulkhead and one connection
    Home,              \* Home[c]: the instance a caller runs in
    Uids, UniqueId,    \* UniqueId[c] \in Uids: config.getUniqueId(...args)
    Distributed,       \* config.kind is Distributed (else Instance)
    MaxConcurrent,     \* config.maxConcurrent
    MaxWait,           \* config.maxWait
    ExecutionTimeout,  \* config.executionTimeout
    MaxNow,            \* bound: the clock stops there
    MaxTickets         \* bound: attempts that may start on one key

ASSUME HomeAssumption == Home \in [Callers -> Instances]
ASSUME UidAssumption == UniqueId \in [Callers -> Uids]
ASSUME FiniteAssumption == IsFiniteSet(Callers) /\ IsFiniteSet(Uids)
ASSUME ConfigAssumption ==
    /\ Distributed \in BOOLEAN
    /\ MaxConcurrent \in Nat
    /\ MaxWait \in Nat
    /\ ExecutionTimeout \in Nat
    /\ MaxNow \in Nat
    /\ MaxTickets \in Nat

VARIABLES
    now,       \* Date.now(); the processes' clocks agree
    key,       \* key[k][u]: score of u in the sorted set of holders, by time
    owner,     \* owner[k][u]: score of u in `${key}::owner`, by ticket
    counter,   \* counter[k]: the INCR counter `${key}::counter`
    pc,        \* where each caller is
    deadline,  \* `end` of tryEnterBulkhead
    stamp,     \* `now` of acquireSemaphore
    ticket     \* `counterInt` of acquireSemaphore

redis == <<key, owner, counter>>
vars == <<now, key, owner, counter, pc, deadline, stamp, ticket>>

-----------------------------------------------------------------------------
Absent == -1   \* score of a uid that is not a member of a sorted set

\* One semaphore for all instances, or one per instance (threadPoolUid).
Keys == IF Distributed THEN {"shared"} ELSE Instances
KeyOf(c) == IF Distributed THEN "shared" ELSE Home[c]

\* A permit older than this is taken from its holder.
Window == MaxWait + ExecutionTimeout

\* The uids ahead of u in a sorted set: its zero-based zRank is their number.
Ahead(zset, u) == {v \in Uids : zset[v] # Absent /\ zset[v] < zset[u]}

Peers(c) == {d \in Callers \ {c} : Home[d] = Home[c]}

MidPipeline == {"placingOwner", "ranking", "withdrawingOwner", "releasingOwner"}
Awaiting == MidPipeline \cup {"drawing", "placing", "withdrawing", "releasing"}
Acquiring == Awaiting \ {"releasing", "releasingOwner"}
Done == {"returned", "rejected", "failed", "crashed"}
PCs == Awaiting \cup Done \cup {"idle", "trying", "running"}

\* The connection of c is not in the middle of a peer's pipeline.
Turn(c) == \A d \in Peers(c) : pc[d] \notin MidPipeline

\* Replies come back in the order of the requests, so the callers of one
\* instance place their tickets in the order they drew them.
InOrder(c) == \A d \in Peers(c) : pc[d] = "placing" => ticket[d] >= ticket[c]

Goto(c, to) == pc' = [pc EXCEPT ![c] = to]

-----------------------------------------------------------------------------
Init ==
    /\ now = 0
    /\ key = [k \in Keys |-> [u \in Uids |-> Absent]]
    /\ owner = [k \in Keys |-> [u \in Uids |-> Absent]]
    /\ counter = [k \in Keys |-> 0]
    /\ pc = [c \in Callers |-> "idle"]
    /\ deadline = [c \in Callers |-> 0]
    /\ stamp = [c \in Callers |-> 0]
    /\ ticket = [c \in Callers |-> 0]

\* Variant of Call: the wait is subtracted from the clock, not added.
CallMutant(c) ==
    /\ pc[c] = "idle"
    /\ deadline' = [deadline EXCEPT ![c] = now - MaxWait]
    /\ Goto(c, "trying")
    /\ UNCHANGED <<now, redis, stamp, ticket>>

\* The decorated function is invoked: tryEnterBulkhead fixes its deadline.
Call(c) ==
    /\ pc[c] = "idle"
    /\ now + MaxWait <= MaxNow
    /\ deadline' = [deadline EXCEPT ![c] = now + MaxWait]
    /\ Goto(c, "trying")
    /\ UNCHANGED <<now, redis, stamp, ticket>>

\* Variant of Attempt: each turn of the loop starts its wait again.
AttemptMutant(c) ==
    /\ pc[c] = "trying"
    /\ counter[KeyOf(c)] < MaxTickets
    /\ stamp' = [stamp EXCEPT ![c] = now]
    /\ deadline' = [deadline EXCEPT ![c] = now + MaxWait]
    /\ Goto(c, "drawing")
    /\ UNCHANGED <<now, redis, ticket>>

\* The loop of tryEnterBulkhead enters acquireSemaphore, which reads the clock
\* and sends the MULTI.
Attempt(c) ==
    /\ pc[c] = "trying"
    /\ now < deadline[c]
    /\ counter[KeyOf(c)] + Cardinality({d \in Callers : pc[d] = "drawing"})
         < MaxTickets
    /\ stamp' = [stamp EXCEPT ![c] = now]
    /\ Goto(c, "drawing")
    /\ UNCHANGED <<now, redis, deadline, ticket>>

\* The loop ends: BulkheadFullException.
GiveUp(c) ==
    /\ pc[c] = "trying"
    /\ now >= deadline[c]
    /\ Goto(c, "rejected")
    /\ UNCHANGED <<now, redis, deadline, stamp, ticket>>

\* Variant of Evict: every permit taken before this attempt counts as expired.
EvictMutant(zset, t) == [u \in Uids |-> IF zset[u] <= t THEN Absent ELSE zset[u]]

\* The expired members of a sorted set by time, seen from a caller's stamp.
Evict(zset, t) == [u \in Uids |-> IF zset[u] <= t - Window THEN Absent ELSE zset[u]]

\* Variant of Intersect: the weights are swapped, so the time replaces the ticket.
IntersectMutant(tickets, zset) ==
    [u \in Uids |-> IF tickets[u] = Absent THEN Absent ELSE zset[u]]

\* zInterStore with weights 1 and 0: members of both, with the owner's score.
Intersect(tickets, zset) ==
    [u \in Uids |-> IF zset[u] = Absent THEN Absent ELSE tickets[u]]

\* Redis executes the MULTI: evict, intersect, draw a ticket.
Draw(c) ==
    LET k == KeyOf(c)
        live == Evict(key[k], stamp[c])
    IN  /\ pc[c] = "drawing"
        /\ Turn(c)
        /\ \A d \in Peers(c) : pc[d] = "drawing" => stamp[d] >= stamp[c]
        /\ key' = [key EXCEPT ![k] = live]
        /\ owner' = [owner EXCEPT ![k] = Intersect(owner[k], live)]
        /\ counter' = [counter EXCEPT ![k] = counter[k] + 1]
        /\ ticket' = [ticket EXCEPT ![c] = counter[k] + 1]
        /\ Goto(c, "placing")
        /\ UNCHANGED <<now, deadline, stamp>>

\* The second batch is a pipeline: zAdd key, zAdd owner, zCard, zRank.
PlaceKey(c) ==
    /\ pc[c] = "placing"
    /\ Turn(c)
    /\ InOrder(c)
    /\ key' = [key EXCEPT ![KeyOf(c)][UniqueId[c]] = stamp[c]]
    /\ Goto(c, "placingOwner")
    /\ UNCHANGED <<now, owner, counter, deadline, stamp, ticket>>

PlaceOwner(c) ==
    /\ pc[c] = "placingOwner"
    /\ owner' = [owner EXCEPT ![KeyOf(c)][UniqueId[c]] = ticket[c]]
    /\ Goto(c, "ranking")
    /\ UNCHANGED <<now, key, counter, deadline, stamp, ticket>>

\* Variant of HasPermit: the rank is compared with <=.
HasPermitMutant(c) ==
    LET z == owner[KeyOf(c)]
    IN  /\ z[UniqueId[c]] # Absent
        /\ Cardinality(Ahead(z, UniqueId[c])) <= MaxConcurrent

\* Variant of HasPermit: callers are ranked by time, where ties are possible.
TimeRankMutant(c) ==
    LET z == key[KeyOf(c)]
    IN  /\ z[UniqueId[c]] # Absent
        /\ Cardinality(Ahead(z, UniqueId[c])) < MaxConcurrent

\* `rankInt !== undefined && rankInt < maxConcurrent`
HasPermit(c) ==
    LET z == owner[KeyOf(c)]
    IN  /\ z[UniqueId[c]] # Absent
        /\ Cardinality(Ahead(z, UniqueId[c])) < MaxConcurrent

\* zRank answers: the caller is admitted and fn starts, or it withdraws.
Rank(c) ==
    /\ pc[c] = "ranking"
    /\ Goto(c, IF HasPermit(c) THEN "running" ELSE "withdrawing")
    /\ UNCHANGED <<now, redis, deadline, stamp, ticket>>

\* zRem key, zRem owner: the pipeline of a withdrawal and of a release.
RemKey(c, from, to) ==
    /\ pc[c] = from
    /\ Turn(c)
    /\ key' = [key EXCEPT ![KeyOf(c)][UniqueId[c]] = Absent]
    /\ Goto(c, to)
    /\ UNCHANGED <<now, owner, counter, deadline, stamp, ticket>>

RemOwner(c, from, to) ==
    /\ pc[c] = from
    /\ owner' = [owner EXCEPT ![KeyOf(c)][UniqueId[c]] = Absent]
    /\ Goto(c, to)
    /\ UNCHANGED <<now, key, counter, deadline, stamp, ticket>>

WithdrawKey(c) == RemKey(c, "withdrawing", "withdrawingOwner")
WithdrawOwner(c) == RemOwner(c, "withdrawingOwner", "trying")

\* fn settles, and the finally block sends the release.
Finish(c) ==
    /\ pc[c] = "running"
    /\ Goto(c, "releasing")
    /\ UNCHANGED <<now, redis, deadline, stamp, ticket>>

ReleaseKey(c) == RemKey(c, "releasing", "releasingOwner")
ReleaseOwner(c) == RemOwner(c, "releasingOwner", "returned")

\* The batch a caller awaits rejects, whatever part of it Redis has executed.
\* acquireSemaphore catches the error and answers false, so the loop goes on;
\* releaseSemaphore does not, and the call rejects with the error.
ConnectionError(c) ==
    /\ pc[c] \in Awaiting
    /\ Goto(c, IF pc[c] \in Acquiring THEN "trying" ELSE "failed")
    /\ UNCHANGED <<now, redis, deadline, stamp, ticket>>

\* A process dies: nothing of what its callers placed is removed.
Crash(i) ==
    /\ \E c \in Callers : Home[c] = i /\ pc[c] \notin Done
    /\ pc' = [c \in Callers |->
                IF Home[c] = i /\ pc[c] \notin Done THEN "crashed" ELSE pc[c]]
    /\ UNCHANGED <<now, redis, deadline, stamp, ticket>>

Tick ==
    /\ now < MaxNow
    /\ now' = now + 1
    /\ UNCHANGED <<redis, pc, deadline, stamp, ticket>>

\* The steps the runtime and Redis owe a caller once it has called.
Acquire(c) ==
    \/ Attempt(c) \/ GiveUp(c) \/ Draw(c) \/ PlaceKey(c) \/ PlaceOwner(c)
    \/ Rank(c) \/ WithdrawKey(c) \/ WithdrawOwner(c)

Release(c) == ReleaseKey(c) \/ ReleaseOwner(c)

Next ==
    \/ \E c \in Callers :
          Call(c) \/ Acquire(c) \/ Finish(c) \/ Release(c) \/ ConnectionError(c)
    \/ \E i \in Instances : Crash(i)
    \/ Tick

\* Neither a call, nor the decorated function's end, nor a fault is owed.
Fairness ==
    /\ WF_vars(Tick)
    /\ \A c \in Callers : WF_vars(Acquire(c)) /\ WF_vars(Release(c))

Spec == Init /\ [][Next]_vars
FairSpec == Spec /\ Fairness

-----------------------------------------------------------------------------
Scores == [Keys -> [Uids -> Nat \cup {Absent}]]

\* The type of every variable of the semaphore and of its callers.
TypeOK ==
    /\ now \in Nat
    /\ key \in Scores
    /\ owner \in Scores
    /\ counter \in [Keys -> Nat]
    /\ pc \in [Callers -> PCs]
    /\ deadline \in [Callers -> Nat]
    /\ stamp \in [Callers -> Nat]
    /\ ticket \in [Callers -> Nat]

\* The permit of c is younger than the window after which others may evict it.
Fresh(c) == now - stamp[c] < Window

\* c's entry in the owner set is the one that admitted it.
Owns(c) == owner[KeyOf(c)][UniqueId[c]] = ticket[c]

\* While a decorated function runs inside the window, Redis still holds both
\* entries of its permit: no cleanup, withdrawal or release of another caller,
\* in whatever order their commands reach Redis, takes it away.
FreshPermitBacked ==
    \A c \in Callers :
        pc[c] = "running" /\ Fresh(c) =>
            Owns(c) /\ key[KeyOf(c)][UniqueId[c]] = stamp[c]

RunningFresh(C) == {c \in C : pc[c] = "running" /\ Fresh(c)}
CallersAt(i) == {c \in Callers : Home[c] = i}

\* Within the window, the bulkhead admits at most maxConcurrent calls of one
\* instance at a time, whatever the other instances do on the same key, and
\* whatever errors and crashes have left behind.
CapacityPerInstance ==
    \A i \in Instances :
        Cardinality(RunningFresh(CallersAt(i))) <= MaxConcurrent

\* The bulkhead "limits the number of concurrent calls that can be made to a
\* function" (bulkhead.ts:14): also across the instances that share its key.
\* Callers of two instances place their tickets in any order, so this fails.
Capacity == Cardinality(RunningFresh(Callers)) <= MaxConcurrent

\* A call that has begun to ask for a permit is decided: it runs, is turned
\* away by its deadline, or dies with its process.  Errors and full bulkheads
\* only send it round the loop, and the deadline ends the loop.
CallIsDecided ==
    \A c \in Callers :
        pc[c] = "trying" ~> pc[c] \in {"running", "rejected", "crashed"}

\* The callers that hold a permit in Redis while they run.
Granted == {c \in Callers : pc[c] = "running" /\ Owns(c)}

Limiter == INSTANCE Permits
    WITH Clients <- Callers, GroupOf <- Home, Limit <- MaxConcurrent,
         granted <- Granted

\* The callers of an instance see the semaphore as a limiter of maxConcurrent
\* permits, granted one at a time while one is free, and revocable.
ImplementsPermits == Limiter!Spec
=============================================================================
