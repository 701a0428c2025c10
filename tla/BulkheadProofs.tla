--------------------------- MODULE BulkheadProofs ---------------------------
(***************************************************************************)
(* Proofs about the semaphore of Bulkhead, for any callers, instances and  *)
(* configuration, when no two calls share a unique id.                     *)
(***************************************************************************)
EXTENDS Bulkhead, FiniteSetTheorems, TLAPS

\* No two calls give the same unique id.
DistinctUids == \A c, d \in Callers : UniqueId[c] = UniqueId[d] => c = d

-----------------------------------------------------------------------------
(* Type correctness.                                                       *)

\* Every caller works on one of the keys.
LEMMA KeyOfType == \A c \in Callers : KeyOf(c) \in Keys /\ UniqueId[c] \in Uids
BY HomeAssumption, UidAssumption DEF KeyOf, Keys

\* Removing members from a sorted set leaves a sorted set.
LEMMA ZsetType ==
    ASSUME NEW zset \in [Uids -> Nat \cup {Absent}],
           NEW tickets \in [Uids -> Nat \cup {Absent}], NEW t
    PROVE  /\ Evict(zset, t) \in [Uids -> Nat \cup {Absent}]
           /\ Intersect(tickets, zset) \in [Uids -> Nat \cup {Absent}]
BY DEF Evict, Intersect, Absent

LEMMA ScoreType ==
    ASSUME NEW z \in Scores, NEW k \in Keys, NEW u \in Uids, NEW v \in Nat \cup {Absent}
    PROVE  [z EXCEPT ![k][u] = v] \in Scores
BY DEF Scores

LEMMA TypeInit == Init => TypeOK
BY ConfigAssumption DEF Init, TypeOK, Scores, PCs, Absent

LEMMA TypeStep == TypeOK /\ [Next]_vars => TypeOK'
<1> SUFFICES ASSUME TypeOK, [Next]_vars
             PROVE  TypeOK'
  OBVIOUS
<1> USE KeyOfType, ConfigAssumption
<1> USE DEF TypeOK, Scores, PCs, Awaiting, MidPipeline, Done, Goto, redis
<1>1. CASE UNCHANGED vars
  BY <1>1 DEF vars
<1>2. ASSUME NEW c \in Callers, Call(c)
      PROVE  TypeOK'
  BY <1>2 DEF Call
<1>3. ASSUME NEW c \in Callers, Attempt(c)
      PROVE  TypeOK'
  BY <1>3 DEF Attempt
<1>4. ASSUME NEW c \in Callers, GiveUp(c)
      PROVE  TypeOK'
  BY <1>4 DEF GiveUp
<1>5. ASSUME NEW c \in Callers, Draw(c)
      PROVE  TypeOK'
  <2> DEFINE k == KeyOf(c)
             live == Evict(key[k], stamp[c])
  <2>1. live \in [Uids -> Nat \cup {Absent}]
    BY ZsetType
  <2>2. Intersect(owner[k], live) \in [Uids -> Nat \cup {Absent}]
    BY <2>1, ZsetType
  <2> HIDE DEF live
  <2>3. key' \in Scores /\ owner' \in Scores
    BY <1>5, <2>1, <2>2 DEF Draw, live
  <2> QED
    BY <1>5, <2>3 DEF Draw
<1>6. ASSUME NEW c \in Callers, PlaceKey(c)
      PROVE  TypeOK'
  BY <1>6 DEF PlaceKey
<1>7. ASSUME NEW c \in Callers, PlaceOwner(c)
      PROVE  TypeOK'
  BY <1>7 DEF PlaceOwner
<1>8. ASSUME NEW c \in Callers, Rank(c)
      PROVE  TypeOK'
  BY <1>8 DEF Rank
<1>9. ASSUME NEW c \in Callers, WithdrawKey(c) \/ ReleaseKey(c)
      PROVE  TypeOK'
  <2> HIDE DEF Scores
  <2>0. key' = [key EXCEPT ![KeyOf(c)][UniqueId[c]] = Absent]
    BY <1>9 DEF WithdrawKey, ReleaseKey, RemKey
  <2>1. key' \in Scores
    <3>1. KeyOf(c) \in Keys /\ UniqueId[c] \in Uids /\ key \in Scores
      OBVIOUS
    <3>2. [key EXCEPT ![KeyOf(c)][UniqueId[c]] = Absent] \in Scores
      BY <3>1, ScoreType
    <3> QED
      BY <3>2, <2>0
  <2>2. pc' \in [Callers -> PCs]
    BY <1>9 DEF WithdrawKey, ReleaseKey, RemKey
  <2> QED
    BY <1>9, <2>1, <2>2 DEF WithdrawKey, ReleaseKey, RemKey
<1>10. ASSUME NEW c \in Callers, WithdrawOwner(c) \/ ReleaseOwner(c)
       PROVE  TypeOK'
  <2> HIDE DEF Scores
  <2>0. owner' = [owner EXCEPT ![KeyOf(c)][UniqueId[c]] = Absent]
    BY <1>10 DEF WithdrawOwner, ReleaseOwner, RemOwner
  <2>1. owner' \in Scores
    <3>1. KeyOf(c) \in Keys /\ UniqueId[c] \in Uids /\ owner \in Scores
      OBVIOUS
    <3>2. [owner EXCEPT ![KeyOf(c)][UniqueId[c]] = Absent] \in Scores
      BY <3>1, ScoreType
    <3> QED
      BY <3>2, <2>0
  <2>2. pc' \in [Callers -> PCs]
    BY <1>10 DEF WithdrawOwner, ReleaseOwner, RemOwner
  <2> QED
    BY <1>10, <2>1, <2>2 DEF WithdrawOwner, ReleaseOwner, RemOwner
<1>11. ASSUME NEW c \in Callers, Finish(c)
       PROVE  TypeOK'
  BY <1>11 DEF Finish
<1>12. ASSUME NEW c \in Callers, ConnectionError(c)
       PROVE  TypeOK'
  BY <1>12 DEF ConnectionError
<1>13. ASSUME NEW i \in Instances, Crash(i)
       PROVE  TypeOK'
  BY <1>13 DEF Crash
<1>14. CASE Tick
  BY <1>14 DEF Tick
<1> QED
  BY <1>1, <1>2, <1>3, <1>4, <1>5, <1>6, <1>7, <1>8, <1>9, <1>10, <1>11,
     <1>12, <1>13, <1>14 DEF Next, Acquire, Release

\* Every variable keeps its type (acquireSemaphore, releaseSemaphore).
THEOREM TypeCorrect == Spec => []TypeOK
BY TypeInit, TypeStep, PTL DEF Spec

-----------------------------------------------------------------------------
(* The inductive invariant.  A ticket orders the callers of an instance as *)
(* its connection does: a caller is ranked only after every peer admitted  *)
(* with a smaller ticket, so it finds those peers ahead of it.             *)

Placed == {"placingOwner", "ranking", "running"}
Placing == {"placing", "placingOwner", "ranking"}

\* Tickets come from the counter, and stamps from the past.
Drawn ==
    \A c \in Callers :
        /\ ticket[c] <= counter[KeyOf(c)]
        /\ stamp[c] <= now
        /\ pc[c] \in Placed \cup Placing => ticket[c] > 0

\* No two callers of a key hold the same ticket.
TicketsDiffer ==
    \A c, d \in Callers :
        c # d /\ KeyOf(c) = KeyOf(d) /\ ticket[c] = ticket[d] => ticket[c] = 0

\* One pipeline at a time on a connection.
OnePipeline ==
    \A c \in Callers : pc[c] \in MidPipeline => Turn(c)

\* A caller about to be ranked has a larger ticket than its placed peers.
Ordered ==
    \A c \in Callers : \A d \in Peers(c) :
        pc[c] \in Placing /\ pc[d] \in Placed => ticket[d] < ticket[c]

\* Nobody but the caller itself changes its entries inside the window, and a
\* caller that has placed a ticket finds that ticket or nothing.
EntriesOf(c) ==
    LET k == KeyOf(c)
        u == UniqueId[c]
    IN  /\ pc[c] \in Placed /\ Fresh(c) => key[k][u] = stamp[c]
        /\ pc[c] \in {"ranking", "running"} /\ Fresh(c) => owner[k][u] = ticket[c]
        /\ pc[c] = "ranking" => owner[k][u] \in {Absent, ticket[c]}

Entries == \A c \in Callers : EntriesOf(c)

IInv == TypeOK /\ Drawn /\ TicketsDiffer /\ OnePipeline /\ Ordered /\ Entries

\* What most steps do to the invariant: nothing in Redis, and the callers that
\* move leave the stretch from drawing a ticket to the end of fn.
Local ==
    /\ UNCHANGED <<key, owner, counter, ticket>>
    /\ now <= now'
    /\ \A c \in Callers :
          \/ pc'[c] = pc[c] /\ stamp'[c] = stamp[c]
          \/ pc'[c] \notin Placed \cup Placing \cup MidPipeline
             /\ stamp'[c] \in {stamp[c], now}

LEMMA LocalSteps ==
    ASSUME TypeOK,
           \/ UNCHANGED vars \/ Tick
           \/ \E i \in Instances : Crash(i)
           \/ \E c \in Callers :
                 \/ Call(c) \/ Attempt(c) \/ GiveUp(c) \/ Finish(c)
                 \/ ConnectionError(c) \/ (Rank(c) /\ ~HasPermit(c))
    PROVE  Local
<1> USE DEF TypeOK, Local, redis, Goto, Placed, Placing, MidPipeline, Awaiting, Done
<1>1. CASE UNCHANGED vars
  BY <1>1 DEF vars
<1>2. CASE Tick
  BY <1>2 DEF Tick
<1>3. ASSUME NEW i \in Instances, Crash(i)
      PROVE  Local
  BY <1>3 DEF Crash
<1>4. ASSUME NEW c \in Callers, Call(c)
      PROVE  Local
  BY <1>4 DEF Call
<1>5. ASSUME NEW c \in Callers, Attempt(c)
      PROVE  Local
  BY <1>5 DEF Attempt
<1>6. ASSUME NEW c \in Callers, GiveUp(c)
      PROVE  Local
  BY <1>6 DEF GiveUp
<1>7. ASSUME NEW c \in Callers, Finish(c)
      PROVE  Local
  BY <1>7 DEF Finish
<1>8. ASSUME NEW c \in Callers, ConnectionError(c)
      PROVE  Local
  BY <1>8 DEF ConnectionError
<1>9. ASSUME NEW c \in Callers, Rank(c), ~HasPermit(c)
      PROVE  Local
  BY <1>9 DEF Rank
<1> QED
  BY <1>1, <1>2, <1>3, <1>4, <1>5, <1>6, <1>7, <1>8, <1>9

LEMMA LocalKeepsIInv ==
    ASSUME IInv, TypeOK', Local
    PROVE  IInv'
<1> USE DEF IInv, TypeOK, Local
<1>1. Drawn'
  BY KeyOfType DEF Drawn
<1>2. TicketsDiffer'
  BY DEF TicketsDiffer
<1>3. OnePipeline'
  BY DEF OnePipeline, Turn, Peers
<1>4. Ordered'
  BY DEF Ordered, Peers
<1>5. Entries'
  BY ConfigAssumption DEF Entries, EntriesOf, Fresh, Placed, Placing, Window
<1> QED
  BY <1>1, <1>2, <1>3, <1>4, <1>5

\* Drawing a ticket: the cleanup spares the permits inside the window, and the
\* new ticket exceeds every other.
LEMMA DrawKeepsIInv ==
    ASSUME IInv, TypeOK', NEW c \in Callers, Draw(c)
    PROVE  IInv'
<1> USE KeyOfType DEF IInv, TypeOK, Goto, Placed, Placing, MidPipeline
<1>1. Drawn'
  BY DEF Draw, Drawn
<1>2. TicketsDiffer'
  BY DEF Draw, Drawn, TicketsDiffer
<1>3. OnePipeline'
  BY DEF Draw, OnePipeline, Turn, Peers
<1>4. Ordered'
  BY DEF Draw, Drawn, Ordered, Peers, KeyOf
<1>5. Entries'
  <2>1. ASSUME NEW d \in Callers, KeyOf(d) = KeyOf(c)
        PROVE  LET u == UniqueId[d]
                   k == KeyOf(c)
               IN  /\ key'[k][u] = IF key[k][u] <= stamp[c] - Window
                                    THEN Absent ELSE key[k][u]
                   /\ owner'[k][u] = IF key'[k][u] = Absent
                                      THEN Absent ELSE owner[k][u]
    BY <2>1 DEF Draw, Evict, Intersect, Scores
  <2>2. stamp[c] <= now /\ now' = now /\ stamp' = stamp
    BY DEF Drawn, Draw
  <2>3. ASSUME NEW d \in Callers, d # c, KeyOf(d) = KeyOf(c)
        PROVE  /\ pc'[d] = pc[d] /\ ticket'[d] = ticket[d]
               /\ Fresh(d)' => Fresh(d) /\ stamp[d] > stamp[c] - Window
    BY <2>2, <2>3, ConfigAssumption DEF Fresh, Window, Draw
  <2> QED
    <3>1. SUFFICES ASSUME NEW d \in Callers
                   PROVE  EntriesOf(d)'
      BY DEF Entries
    <3>2. EntriesOf(d)
      BY DEF Entries
    <3>3. CASE d = c
      BY <3>3 DEF Draw, EntriesOf
    <3>4. CASE d # c /\ KeyOf(d) = KeyOf(c)
      <4> DEFINE u == UniqueId[d]
                 k == KeyOf(c)
      <4>1. ASSUME Fresh(d)', key[k][u] = stamp[d]
            PROVE  key'[k][u] = stamp[d] /\ owner'[k][u] = owner[k][u]
        BY <2>1, <2>3, <3>4, <4>1, ConfigAssumption DEF Absent, Window
      <4>2. owner'[k][u] \in {Absent, owner[k][u]}
        BY <2>1, <3>4
      <4> QED
        BY <2>2, <2>3, <3>2, <3>4, <4>1, <4>2 DEF EntriesOf
    <3>5. CASE KeyOf(d) # KeyOf(c)
      BY <2>2, <3>2, <3>5 DEF EntriesOf, Draw, Fresh
    <3> QED
      BY <3>3, <3>4, <3>5
<1> QED
  BY <1>1, <1>2, <1>3, <1>4, <1>5

LEMMA PlaceKeyKeepsIInv ==
    ASSUME DistinctUids, IInv, TypeOK', NEW c \in Callers, PlaceKey(c)
    PROVE  IInv'
<1> USE KeyOfType DEF IInv, TypeOK, Goto, Placed, Placing, MidPipeline
<1>1. Drawn'
  BY DEF PlaceKey, Drawn
<1>2. TicketsDiffer'
  BY DEF PlaceKey, TicketsDiffer
<1>3. OnePipeline'
  BY DEF PlaceKey, OnePipeline, Turn, Peers
<1>4. Ordered'
  BY DEF PlaceKey, Drawn, Ordered, TicketsDiffer, InOrder, Turn, Peers, KeyOf
<1>5. Entries'
  BY DEF PlaceKey, Entries, EntriesOf, DistinctUids, Fresh, Scores
<1> QED
  BY <1>1, <1>2, <1>3, <1>4, <1>5

LEMMA PlaceOwnerKeepsIInv ==
    ASSUME DistinctUids, IInv, TypeOK', NEW c \in Callers, PlaceOwner(c)
    PROVE  IInv'
<1> USE KeyOfType DEF IInv, TypeOK, Goto, Placed, Placing, MidPipeline
<1>1. Drawn'
  BY DEF PlaceOwner, Drawn
<1>2. TicketsDiffer'
  BY DEF PlaceOwner, TicketsDiffer
<1>3. OnePipeline'
  BY DEF PlaceOwner, OnePipeline, Turn, Peers
<1>4. Ordered'
  BY DEF PlaceOwner, Ordered, Peers
<1>5. Entries'
  BY DEF PlaceOwner, Entries, EntriesOf, DistinctUids, Fresh, Scores
<1> QED
  BY <1>1, <1>2, <1>3, <1>4, <1>5

LEMMA AdmitKeepsIInv ==
    ASSUME IInv, TypeOK', NEW c \in Callers, Rank(c), HasPermit(c)
    PROVE  IInv'
<1> USE KeyOfType DEF IInv, TypeOK, Goto, Placed, Placing, MidPipeline, redis
<1>1. Drawn'
  BY DEF Rank, Drawn
<1>2. TicketsDiffer'
  BY DEF Rank, TicketsDiffer
<1>3. OnePipeline'
  BY DEF Rank, OnePipeline, Turn, Peers
<1>4. Ordered'
  BY DEF Rank, Ordered, Peers
<1>5. Entries'
  BY DEF Rank, Entries, EntriesOf, Fresh
<1> QED
  BY <1>1, <1>2, <1>3, <1>4, <1>5

\* zRem of a caller's own uid, in a withdrawal or a release.
LEMMA RemoveKeepsIInv ==
    ASSUME DistinctUids, IInv, TypeOK', NEW c \in Callers,
           \/ WithdrawKey(c) \/ ReleaseKey(c)
           \/ WithdrawOwner(c) \/ ReleaseOwner(c)
    PROVE  IInv'
<1> USE KeyOfType
<1> USE DEF IInv, TypeOK, Goto, Placed, Placing, MidPipeline, WithdrawKey,
            ReleaseKey, WithdrawOwner, ReleaseOwner, RemKey, RemOwner
<1>1. Drawn'
  BY DEF Drawn
<1>2. TicketsDiffer'
  BY DEF TicketsDiffer
<1>3. OnePipeline'
  BY DEF OnePipeline, Turn, Peers
<1>4. Ordered'
  BY DEF Ordered, Peers
<1>5. Entries'
  BY DEF Entries, EntriesOf, DistinctUids, Fresh, Scores
<1> QED
  BY <1>1, <1>2, <1>3, <1>4, <1>5

LEMMA InvStep ==
    ASSUME DistinctUids, IInv, [Next]_vars
    PROVE  IInv'
<1>1. TypeOK'
  BY TypeStep DEF IInv
<1>2. CASE \E c \in Callers : Draw(c)
  BY <1>1, <1>2, DrawKeepsIInv
<1>3. CASE \E c \in Callers : PlaceKey(c)
  BY <1>1, <1>3, PlaceKeyKeepsIInv
<1>4. CASE \E c \in Callers : PlaceOwner(c)
  BY <1>1, <1>4, PlaceOwnerKeepsIInv
<1>5. CASE \E c \in Callers : Rank(c) /\ HasPermit(c)
  BY <1>1, <1>5, AdmitKeepsIInv
<1>6. CASE \E c \in Callers : WithdrawKey(c) \/ ReleaseKey(c)
                            \/ WithdrawOwner(c) \/ ReleaseOwner(c)
  BY <1>1, <1>6, RemoveKeepsIInv
<1>7. CASE \/ UNCHANGED vars \/ Tick
           \/ \E i \in Instances : Crash(i)
           \/ \E c \in Callers :
                 \/ Call(c) \/ Attempt(c) \/ GiveUp(c) \/ Finish(c)
                 \/ ConnectionError(c) \/ (Rank(c) /\ ~HasPermit(c))
  <2>1. Local
    BY <1>7, LocalSteps DEF IInv
  <2> QED
    BY <1>1, <2>1, LocalKeepsIInv
<1> QED
  BY <1>2, <1>3, <1>4, <1>5, <1>6, <1>7 DEF Next, Acquire, Release

LEMMA Invariance ==
    ASSUME DistinctUids
    PROVE  Spec => []IInv
<1>1. Init => IInv
  <2> SUFFICES ASSUME Init
               PROVE  IInv
    OBVIOUS
  <2>1. Drawn /\ TicketsDiffer /\ OnePipeline /\ Ordered /\ Entries
    BY KeyOfType DEF Init, Drawn, TicketsDiffer, OnePipeline, Ordered, Entries,
       EntriesOf, Placed, Placing, MidPipeline, Peers
  <2> QED
    BY <2>1, TypeInit DEF IInv
<1>2. IInv /\ [Next]_vars => IInv'
  BY InvStep
<1> QED
  BY <1>1, <1>2, PTL DEF Spec

\* Other callers' commands never take the permit of a call that runs within
\* the window (the eviction in acquireSemaphore, and every zRem).
THEOREM PermitSafety ==
    ASSUME DistinctUids
    PROVE  Spec => []FreshPermitBacked
<1>1. IInv => FreshPermitBacked
  BY DEF IInv, Entries, EntriesOf, FreshPermitBacked, Owns, Placed
<1> QED
  BY <1>1, Invariance, PTL

-----------------------------------------------------------------------------
(* A step of the semaphore is a step of the limiter.                       *)

\* A caller is admitted only if fewer than maxConcurrent peers hold a permit:
\* each of them is ahead of it in the owner set.
LEMMA AdmittedBelowLimit ==
    ASSUME DistinctUids, IInv, NEW c \in Callers, Rank(c), HasPermit(c)
    PROVE  Cardinality({d \in Granted : Home[d] = Home[c]}) < MaxConcurrent
<1> DEFINE H == {d \in Granted : Home[d] = Home[c]}
           A == Ahead(owner[KeyOf(c)], UniqueId[c])
           f == [d \in H |-> UniqueId[d]]
<1>1. owner[KeyOf(c)][UniqueId[c]] = ticket[c]
  BY DEF IInv, Entries, EntriesOf, Rank, HasPermit
<1>2. ASSUME NEW d \in H
      PROVE  UniqueId[d] \in A
  <2>1. d \in Peers(c) /\ KeyOf(d) = KeyOf(c) /\ d \in Callers
    BY DEF Granted, Peers, Rank, KeyOf
  <2>2. ticket[d] < ticket[c] /\ ticket[d] > 0
    BY <2>1 DEF IInv, Ordered, Drawn, Granted, Placed, Placing, Rank
  <2>3. owner[KeyOf(c)][UniqueId[d]] = ticket[d]
    BY <2>1 DEF Granted, Owns
  <2> QED
    BY <1>1, <2>1, <2>2, <2>3, KeyOfType DEF Ahead, Absent
<1>3. IsFiniteSet(A)
  BY FiniteAssumption, FS_Subset DEF Ahead
<1>4. f \in Injection(H, A)
  BY <1>2 DEF Injection, IsInjective, DistinctUids, Granted
<1>5. Cardinality(H) <= Cardinality(A) /\ IsFiniteSet(H)
  BY <1>3, <1>4, FS_Injection
<1>6. Cardinality(H) \in Nat /\ Cardinality(A) \in Nat
  BY <1>3, <1>5, FS_CardinalityType
<1>7. Cardinality(A) < MaxConcurrent
  BY DEF HasPermit
<1> QED
  BY <1>5, <1>6, <1>7, ConfigAssumption

\* No other step gives anyone a permit.
LEMMA OnlyRankGrants ==
    ASSUME DistinctUids, IInv, [Next]_vars,
           \A c \in Callers : ~(Rank(c) /\ HasPermit(c))
    PROVE  Granted' \subseteq Granted
<1> SUFFICES ASSUME NEW d \in Callers, pc'[d] = "running", Owns(d)'
             PROVE  pc[d] = "running" /\ Owns(d)
  BY DEF Granted
<1> USE KeyOfType DEF IInv, TypeOK, Goto
<1>1. CASE \E c \in Callers : Draw(c)
  <2> PICK c \in Callers : Draw(c)
    BY <1>1
  <2>1. d # c /\ pc[d] = "running" /\ ticket'[d] = ticket[d] /\ ticket[d] \in Nat
    BY DEF Draw
  <2>2. owner'[KeyOf(d)][UniqueId[d]] \in {Absent, owner[KeyOf(d)][UniqueId[d]]}
    BY DEF Draw, Intersect, Scores
  <2> QED
    BY <2>1, <2>2 DEF Owns, Absent
<1>2. CASE \E c \in Callers : PlaceKey(c) \/ WithdrawKey(c) \/ ReleaseKey(c)
  BY <1>2 DEF PlaceKey, WithdrawKey, ReleaseKey, RemKey, Owns
<1>3. CASE \E c \in Callers :
             PlaceOwner(c) \/ WithdrawOwner(c) \/ ReleaseOwner(c)
  <2> PICK c \in Callers : PlaceOwner(c) \/ WithdrawOwner(c) \/ ReleaseOwner(c)
    BY <1>3
  <2>1. d # c /\ pc[d] = "running" /\ ticket'[d] = ticket[d]
    BY DEF PlaceOwner, WithdrawOwner, ReleaseOwner, RemOwner
  <2>2. owner'[KeyOf(d)][UniqueId[d]] = owner[KeyOf(d)][UniqueId[d]]
    <3>1. PICK v : owner' = [owner EXCEPT ![KeyOf(c)][UniqueId[c]] = v]
      BY DEF PlaceOwner, WithdrawOwner, ReleaseOwner, RemOwner
    <3>2. UniqueId[d] # UniqueId[c]
      BY <2>1 DEF DistinctUids
    <3> QED
      BY <3>1, <3>2 DEF Scores
  <2> QED
    BY <2>1, <2>2 DEF Owns
<1>4. CASE \/ UNCHANGED vars \/ Tick
           \/ \E i \in Instances : Crash(i)
           \/ \E c \in Callers :
                 \/ Call(c) \/ Attempt(c) \/ GiveUp(c) \/ Finish(c)
                 \/ ConnectionError(c) \/ (Rank(c) /\ ~HasPermit(c))
  BY <1>4, LocalSteps DEF Local, Placed, Owns
<1> QED
  BY <1>1, <1>2, <1>3, <1>4 DEF Next, Acquire, Release

\* Permits counts with the same Cardinality.
LEMMA SameCardinality == \A S : Limiter!Cardinality(S) = Cardinality(S)
BY DEF Limiter!Cardinality, Cardinality

LEMMA LimiterStep ==
    ASSUME DistinctUids, IInv, [Next]_vars
    PROVE  \/ \E c \in Callers : Limiter!Grant(c)
           \/ \E S \in SUBSET Granted : Limiter!Return(S)
<1>1. CASE \E c \in Callers : Rank(c) /\ HasPermit(c)
  <2> PICK c \in Callers : Rank(c) /\ HasPermit(c)
    BY <1>1
  <2>1. owner[KeyOf(c)][UniqueId[c]] = ticket[c]
    BY DEF IInv, Entries, EntriesOf, Rank, HasPermit
  <2>2. c \notin Granted /\ Granted' = Granted \cup {c}
    <3>1. pc[c] = "ranking" /\ pc' = [pc EXCEPT ![c] = "running"]
      BY DEF Rank, Goto
    <3>2. UNCHANGED <<owner, ticket>> /\ pc \in [Callers -> PCs]
      BY DEF Rank, redis, IInv, TypeOK
    <3>3. \A d \in Callers : Owns(d)' <=> Owns(d)
      BY <3>2 DEF Owns
    <3>4. \A d \in Callers : d \in Granted' <=> d \in Granted \/ d = c
      <4> TAKE d \in Callers
      <4>1. CASE d = c
        BY <2>1, <3>1, <3>2, <3>3, <4>1 DEF Granted, Owns
      <4>2. CASE d # c
        BY <3>1, <3>2, <3>3, <4>2 DEF Granted
      <4> QED
        BY <4>1, <4>2
    <3> QED
      BY <3>1, <3>4 DEF Granted
  <2> QED
    BY <2>2, AdmittedBelowLimit, SameCardinality DEF Limiter!Grant, Limiter!Holders
<1>2. CASE \A c \in Callers : ~(Rank(c) /\ HasPermit(c))
  <2>1. Granted' = Granted \ (Granted \ Granted')
    BY <1>2, OnlyRankGrants
  <2> QED
    BY <2>1 DEF Limiter!Return
<1> QED
  BY <1>1, <1>2

\* The callers of an instance see the semaphore as a limiter of maxConcurrent
\* permits (acquireSemaphore and releaseSemaphore implement Permits).
THEOREM Refinement ==
    ASSUME DistinctUids
    PROVE  Spec => ImplementsPermits
<1>1. Init => Limiter!Init
  BY DEF Init, Limiter!Init, Granted
<1>2. IInv /\ [Next]_vars => [Limiter!Next]_Granted
  BY LimiterStep DEF Limiter!Next
<1> QED
  BY <1>1, <1>2, Invariance, PTL DEF Spec, ImplementsPermits, Limiter!Spec

-----------------------------------------------------------------------------
(* Capacity.                                                               *)

GrantedAt(i) == {c \in Granted : Home[c] = i}

\* What the limiter keeps: no instance holds more than maxConcurrent permits.
WithinLimit == \A i \in Instances : Cardinality(GrantedAt(i)) <= MaxConcurrent

LEMMA GrantedFinite ==
    \A i \in Instances :
        IsFiniteSet(GrantedAt(i)) /\ Cardinality(GrantedAt(i)) \in Nat
<1> TAKE i \in Instances
<1>1. GrantedAt(i) \in SUBSET Callers
  BY DEF GrantedAt, Granted
<1> QED
  BY <1>1, FiniteAssumption, FS_Subset, FS_CardinalityType

LEMMA WithinLimitStep ==
    ASSUME DistinctUids, IInv, [Next]_vars, WithinLimit
    PROVE  WithinLimit'
<1> SUFFICES ASSUME NEW i \in Instances
             PROVE  Cardinality(GrantedAt(i)') <= MaxConcurrent
  BY DEF WithinLimit
<1>1. Cardinality(GrantedAt(i)) <= MaxConcurrent
  BY DEF WithinLimit
<1>2. CASE \E c \in Callers : Limiter!Grant(c)
  <2> PICK c \in Callers : Limiter!Grant(c)
    BY <1>2
  <2>1. Granted' = Granted \cup {c} /\ c \notin Granted
    BY DEF Limiter!Grant
  <2>2. CASE Home[c] = i
    <3>1. GrantedAt(i)' = GrantedAt(i) \cup {c} /\ c \notin GrantedAt(i)
      BY <2>1, <2>2 DEF GrantedAt
    <3>2. Cardinality(GrantedAt(i)) < MaxConcurrent
      BY <2>2, SameCardinality DEF Limiter!Grant, Limiter!Holders, GrantedAt
    <3>3. Cardinality(GrantedAt(i)') = Cardinality(GrantedAt(i)) + 1
      BY <3>1, GrantedFinite, FS_AddElement
    <3> QED
      BY <3>2, <3>3, GrantedFinite, ConfigAssumption
  <2>3. CASE Home[c] # i
    <3>1. GrantedAt(i)' = GrantedAt(i)
      BY <2>1, <2>3 DEF GrantedAt
    <3> QED
      BY <1>1, <3>1
  <2> QED
    BY <2>2, <2>3
<1>3. CASE \E S \in SUBSET Granted : Limiter!Return(S)
  <2>1. GrantedAt(i)' \in SUBSET GrantedAt(i)
    BY <1>3 DEF Limiter!Return, GrantedAt
  <2>2. /\ Cardinality(GrantedAt(i)') <= Cardinality(GrantedAt(i))
        /\ Cardinality(GrantedAt(i)') \in Nat
    BY <2>1, GrantedFinite, FS_Subset, FS_CardinalityType
  <2> QED
    BY <1>1, <2>2, GrantedFinite, ConfigAssumption
<1> QED
  BY <1>2, <1>3, LimiterStep

LEMMA WithinLimitInvariance ==
    ASSUME DistinctUids
    PROVE  Spec => [](IInv /\ WithinLimit)
<1>1. Init => WithinLimit
  <2> SUFFICES ASSUME Init, NEW i \in Instances
               PROVE  Cardinality(GrantedAt(i)) <= MaxConcurrent
    BY DEF WithinLimit
  <2>1. GrantedAt(i) = {}
    BY DEF Init, GrantedAt, Granted
  <2> QED
    BY <2>1, FS_EmptySet, ConfigAssumption
<1>2. IInv /\ WithinLimit /\ [Next]_vars => WithinLimit'
  BY WithinLimitStep
<1> QED
  BY <1>1, <1>2, Invariance, PTL DEF Spec

\* Calls inside the window are among the permit holders of their instance.
LEMMA RunningAreGranted ==
    ASSUME IInv, NEW i \in Instances
    PROVE  RunningFresh(CallersAt(i)) \subseteq GrantedAt(i)
BY DEF IInv, Entries, EntriesOf, RunningFresh, CallersAt, GrantedAt, Granted, Owns

\* Within the window a bulkhead admits at most maxConcurrent calls of an
\* instance at a time (tryEnterBulkhead), for any number of callers and
\* instances, whatever errors, crashes and evictions happen.
THEOREM CapacitySafety ==
    ASSUME DistinctUids
    PROVE  Spec => []CapacityPerInstance
<1>1. IInv /\ WithinLimit => CapacityPerInstance
  <2> SUFFICES ASSUME IInv, WithinLimit, NEW i \in Instances
               PROVE  Cardinality(RunningFresh(CallersAt(i))) <= MaxConcurrent
    BY DEF CapacityPerInstance
  <2>1. RunningFresh(CallersAt(i)) \in SUBSET GrantedAt(i)
    BY RunningAreGranted
  <2>2. /\ Cardinality(RunningFresh(CallersAt(i))) <= Cardinality(GrantedAt(i))
        /\ Cardinality(RunningFresh(CallersAt(i))) \in Nat
    BY <2>1, GrantedFinite, FS_Subset, FS_CardinalityType
  <2> QED
    BY <2>2, GrantedFinite, ConfigAssumption DEF WithinLimit
<1> QED
  BY <1>1, WithinLimitInvariance, PTL

\* A bulkhead used by one instance keeps the capacity its documentation claims.
THEOREM SoloCapacity ==
    ASSUME DistinctUids, NEW i \in Instances, \A c \in Callers : Home[c] = i
    PROVE  Spec => []Capacity
<1>1. CapacityPerInstance => Capacity
  <2>1. CallersAt(i) = Callers
    BY DEF CallersAt
  <2> QED
    BY <2>1 DEF CapacityPerInstance, Capacity
<1> QED
  BY <1>1, CapacitySafety, PTL
=============================================================================
