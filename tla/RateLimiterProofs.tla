------------------------- MODULE RateLimiterProofs -------------------------
(***************************************************************************)
(* Proofs about the window of RateLimiter, for any callers, instances and  *)
(* configuration.                                                          *)
(***************************************************************************)
EXTENDS RateLimiter, FiniteSetTheorems, TLAPS

-----------------------------------------------------------------------------
(* Type correctness.                                                       *)

LEMMA TypeStep == TypeOK /\ [Next]_vars => TypeOK'
<1> SUFFICES ASSUME TypeOK, [Next]_vars
             PROVE  TypeOK'
  OBVIOUS
<1> USE DEF TypeOK, PCs, Awaiting, MidPipeline, Done, Goto
<1>1. CASE UNCHANGED vars
  BY <1>1 DEF vars
<1>2. ASSUME NEW c \in Callers, Call(c)
      PROVE  TypeOK'
  BY <1>2 DEF Call
<1>3. ASSUME NEW c \in Callers, Evict(c)
      PROVE  TypeOK'
  BY <1>3 DEF Evict, Absent
<1>4. ASSUME NEW c \in Callers, Intersect(c)
      PROVE  TypeOK'
  BY <1>4 DEF Intersect, Absent
<1>5. ASSUME NEW c \in Callers, Draw(c)
      PROVE  TypeOK'
  BY <1>5 DEF Draw
<1>6. ASSUME NEW c \in Callers, PlaceKey(c) \/ PlaceOwner(c)
      PROVE  TypeOK'
  BY <1>6 DEF PlaceKey, PlaceOwner
<1>7. ASSUME NEW c \in Callers, Rank(c) \/ ConnectionError(c)
      PROVE  TypeOK'
  BY <1>7 DEF Rank, ConnectionError
<1>8. ASSUME NEW c \in Callers, WithdrawKey(c) \/ WithdrawOwner(c)
      PROVE  TypeOK'
  BY <1>8 DEF WithdrawKey, WithdrawOwner
<1>9. ASSUME NEW i \in Instances, Crash(i)
      PROVE  TypeOK'
  BY <1>9 DEF Crash
<1>10. CASE Tick
  BY <1>10, ConfigAssumption DEF Tick
<1> QED
  BY <1>1, <1>2, <1>3, <1>4, <1>5, <1>6, <1>7, <1>8, <1>9, <1>10 DEF Next

LEMMA TypeInit == Init => TypeOK
BY DEF Init, TypeOK, PCs

\* Every variable keeps its type (getRateWindow).
THEOREM WindowTypeCorrect == Spec => []TypeOK
BY TypeInit, TypeStep, PTL DEF Spec

-----------------------------------------------------------------------------
(* The inductive invariant: tickets order the callers of an instance as    *)
(* their connection does, and a fresh permit is in both sets.              *)

Placed == {"placingOwner", "ranking", "admitted"}
Placing == {"placing", "placingOwner", "ranking"}

\* Tickets come from the counter, and stamps from the past.
Drawn ==
    \A c \in Callers :
        /\ ticket[c] <= counter
        /\ stamp[c] <= now
        /\ pc[c] \in Placed \cup Placing => ticket[c] > 0

TicketsDiffer ==
    \A c, d \in Callers : c # d /\ ticket[c] = ticket[d] => ticket[c] = 0

\* One pipeline at a time on a connection.
OnePipeline == \A c \in Callers : pc[c] \in MidPipeline => Turn(c)

\* A caller about to be ranked has a larger ticket than its placed peers.
Ordered ==
    \A c \in Callers : \A d \in Peers(c) :
        pc[c] \in Placing /\ pc[d] \in Placed => ticket[d] < ticket[c]

\* Nobody but the caller itself changes its entries inside the window.
Entries ==
    \A c \in Callers :
        /\ pc[c] \in Placed /\ Fresh(c) => key[c] = stamp[c]
        /\ pc[c] \in {"ranking", "admitted"} /\ Fresh(c) => owner[c] = ticket[c]
        /\ pc[c] = "ranking" => owner[c] \in {Absent, ticket[c]}

IInv == TypeOK /\ Drawn /\ TicketsDiffer /\ OnePipeline /\ Ordered /\ Entries

\* Steps that leave both sets alone, and take no caller into a pipeline.
Local ==
    /\ UNCHANGED <<key, owner, counter, ticket>>
    /\ now <= now'
    /\ \A c \in Callers :
          \/ pc'[c] = pc[c] /\ stamp'[c] = stamp[c]
          \/ pc'[c] \notin Placed \cup Placing \cup MidPipeline
             /\ stamp'[c] \in {stamp[c], now}

LEMMA LocalSteps ==
    ASSUME TypeOK,
           \/ UNCHANGED vars \/ Tick
           \/ \E i \in Instances : Crash(i)
           \/ \E c \in Callers :
                 Call(c) \/ ConnectionError(c) \/ (Rank(c) /\ ~Allowed(c))
    PROVE  Local
<1> USE DEF TypeOK, Local, Goto, Placed, Placing, MidPipeline, Done
<1>1. CASE UNCHANGED vars
  BY <1>1 DEF vars
<1>2. CASE Tick
  BY <1>2 DEF Tick
<1>3. ASSUME NEW i \in Instances, Crash(i)
      PROVE  Local
  BY <1>3 DEF Crash
<1>4. ASSUME NEW c \in Callers, Call(c)
      PROVE  Local
  BY <1>4 DEF Call
<1>5. ASSUME NEW c \in Callers, ConnectionError(c)
      PROVE  Local
  BY <1>5 DEF ConnectionError
<1>6. ASSUME NEW c \in Callers, Rank(c), ~Allowed(c)
      PROVE  Local
  BY <1>6 DEF Rank
<1> QED
  BY <1>1, <1>2, <1>3, <1>4, <1>5, <1>6

LEMMA LocalKeepsIInv ==
    ASSUME IInv, TypeOK', Local
    PROVE  IInv'
<1> USE DEF IInv, TypeOK, Local
<1>1. Drawn'
  BY DEF Drawn
<1>2. TicketsDiffer'
  BY DEF TicketsDiffer
<1>3. OnePipeline'
  BY DEF OnePipeline, Turn, Peers
<1>4. Ordered'
  BY DEF Ordered, Peers
<1>5. Entries'
  BY ConfigAssumption DEF Entries, Fresh, Placed, Placing
<1> QED
  BY <1>1, <1>2, <1>3, <1>4, <1>5

\* The first batch: cleaning up spares the permits inside the window.
LEMMA EvictKeepsIInv ==
    ASSUME IInv, TypeOK', NEW c \in Callers, Evict(c)
    PROVE  IInv'
<1> USE DEF IInv, TypeOK, Goto, Placed, Placing, MidPipeline, Evict
<1>1. Drawn'
  BY DEF Drawn
<1>2. TicketsDiffer'
  BY DEF TicketsDiffer
<1>3. OnePipeline'
  BY DEF OnePipeline, Turn, Peers
<1>4. Ordered'
  BY DEF Ordered, Peers
<1>5. Entries'
  BY ConfigAssumption DEF Entries, Fresh, Drawn, Absent
<1> QED
  BY <1>1, <1>2, <1>3, <1>4, <1>5

LEMMA IntersectKeepsIInv ==
    ASSUME IInv, TypeOK', NEW c \in Callers, Intersect(c)
    PROVE  IInv'
<1> USE DEF IInv, TypeOK, Goto, Placed, Placing, MidPipeline, Intersect
<1>1. Drawn'
  BY DEF Drawn
<1>2. TicketsDiffer'
  BY DEF TicketsDiffer
<1>3. OnePipeline'
  BY DEF OnePipeline, Turn, Peers
<1>4. Ordered'
  BY DEF Ordered, Peers
<1>5. Entries'
  BY DEF Entries, Fresh, Absent
<1> QED
  BY <1>1, <1>2, <1>3, <1>4, <1>5

\* A new ticket exceeds every other.
LEMMA DrawKeepsIInv ==
    ASSUME IInv, TypeOK', NEW c \in Callers, Draw(c)
    PROVE  IInv'
<1> USE DEF IInv, TypeOK, Goto, Placed, Placing, MidPipeline, Draw
<1>1. Drawn'
  BY DEF Drawn
<1>2. TicketsDiffer'
  BY DEF Drawn, TicketsDiffer
<1>3. OnePipeline'
  BY DEF OnePipeline, Turn, Peers
<1>4. Ordered'
  BY DEF Drawn, Ordered, Peers
<1>5. Entries'
  BY DEF Entries, Fresh
<1> QED
  BY <1>1, <1>2, <1>3, <1>4, <1>5

\* The second batch.
LEMMA PlaceKeepsIInv ==
    ASSUME IInv, TypeOK', NEW c \in Callers, PlaceKey(c) \/ PlaceOwner(c)
    PROVE  IInv'
<1> USE DEF IInv, TypeOK, Goto, Placed, Placing, MidPipeline, PlaceKey, PlaceOwner
<1>1. Drawn'
  BY DEF Drawn
<1>2. TicketsDiffer'
  BY DEF TicketsDiffer
<1>3. OnePipeline'
  BY DEF OnePipeline, Turn, Peers
<1>4. Ordered'
  BY DEF Drawn, Ordered, TicketsDiffer, Before, Turn, Peers
<1>5. Entries'
  BY DEF Entries, Fresh
<1> QED
  BY <1>1, <1>2, <1>3, <1>4, <1>5

LEMMA AdmitKeepsIInv ==
    ASSUME IInv, TypeOK', NEW c \in Callers, Rank(c), Allowed(c)
    PROVE  IInv'
<1> USE DEF IInv, TypeOK, Goto, Placed, Placing, MidPipeline, Rank
<1>1. Drawn'
  BY DEF Drawn
<1>2. TicketsDiffer'
  BY DEF TicketsDiffer
<1>3. OnePipeline'
  BY DEF OnePipeline, Turn, Peers
<1>4. Ordered'
  BY DEF Ordered, Peers
<1>5. Entries'
  BY DEF Entries, Fresh
<1> QED
  BY <1>1, <1>2, <1>3, <1>4, <1>5

LEMMA WithdrawKeepsIInv ==
    ASSUME IInv, TypeOK', NEW c \in Callers, WithdrawKey(c) \/ WithdrawOwner(c)
    PROVE  IInv'
<1> USE DEF IInv, TypeOK, Goto, Placed, Placing, MidPipeline, WithdrawKey, WithdrawOwner
<1>1. Drawn'
  BY DEF Drawn
<1>2. TicketsDiffer'
  BY DEF TicketsDiffer
<1>3. OnePipeline'
  BY DEF OnePipeline, Turn, Peers
<1>4. Ordered'
  BY DEF Ordered, Peers
<1>5. Entries'
  BY DEF Entries, Fresh
<1> QED
  BY <1>1, <1>2, <1>3, <1>4, <1>5

LEMMA InvStep ==
    ASSUME IInv, [Next]_vars
    PROVE  IInv'
<1>1. TypeOK'
  BY TypeStep DEF IInv
<1>2. CASE \E c \in Callers : Evict(c)
  BY <1>1, <1>2, EvictKeepsIInv
<1>3. CASE \E c \in Callers : Intersect(c)
  BY <1>1, <1>3, IntersectKeepsIInv
<1>4. CASE \E c \in Callers : Draw(c)
  BY <1>1, <1>4, DrawKeepsIInv
<1>5. CASE \E c \in Callers : PlaceKey(c) \/ PlaceOwner(c)
  BY <1>1, <1>5, PlaceKeepsIInv
<1>6. CASE \E c \in Callers : Rank(c) /\ Allowed(c)
  BY <1>1, <1>6, AdmitKeepsIInv
<1>7. CASE \E c \in Callers : WithdrawKey(c) \/ WithdrawOwner(c)
  BY <1>1, <1>7, WithdrawKeepsIInv
<1>8. CASE \/ UNCHANGED vars \/ Tick
           \/ \E i \in Instances : Crash(i)
           \/ \E c \in Callers :
                 Call(c) \/ ConnectionError(c) \/ (Rank(c) /\ ~Allowed(c))
  <2>1. Local
    BY <1>8, LocalSteps DEF IInv
  <2> QED
    BY <1>1, <2>1, LocalKeepsIInv
<1> QED
  BY <1>2, <1>3, <1>4, <1>5, <1>6, <1>7, <1>8 DEF Next

LEMMA Invariance == Spec => []IInv
<1>1. Init => IInv
  <2> SUFFICES ASSUME Init
               PROVE  IInv
    OBVIOUS
  <2>1. Drawn /\ TicketsDiffer /\ OnePipeline /\ Ordered /\ Entries
    BY DEF Init, Drawn, TicketsDiffer, OnePipeline, Ordered, Entries, Placed, Placing,
           MidPipeline, Peers
  <2> QED
    BY <2>1, TypeInit DEF IInv
<1>2. IInv /\ [Next]_vars => IInv'
  BY InvStep
<1> QED
  BY <1>1, <1>2, PTL DEF Spec

-----------------------------------------------------------------------------
(* A step of the window is a step of the limiter.                          *)

LEMMA SubsetsOfCallers ==
    ASSUME NEW S \in SUBSET Callers
    PROVE  IsFiniteSet(S) /\ Cardinality(S) \in Nat
BY ConfigAssumption, FS_Subset, FS_CardinalityType

\* A caller is admitted only if fewer than permitLimit peers hold a permit: each
\* of them is ahead of it in the owner set.
LEMMA AdmittedBelowLimit ==
    ASSUME IInv, NEW c \in Callers, Rank(c), Allowed(c)
    PROVE  Cardinality(GrantedAt(Home[c])) < PermitLimit
<1> DEFINE H == GrantedAt(Home[c])
<1>1. owner[c] = ticket[c]
  BY DEF IInv, Entries, Rank, Allowed
<1>2. ASSUME NEW d \in H
      PROVE  d \in Ahead(c)
  <2>1. d \in Peers(c) /\ d \in Callers /\ pc[d] = "admitted" /\ Fresh(d)
    BY DEF GrantedAt, Granted, Peers, Rank
  <2>2. ticket[d] < ticket[c] /\ ticket[d] > 0 /\ ticket[d] \in Nat
    BY <2>1 DEF IInv, TypeOK, Ordered, Drawn, Placed, Placing, Rank
  <2>3. owner[d] = ticket[d]
    BY <2>1 DEF IInv, Entries
  <2> QED
    BY <1>1, <2>1, <2>2, <2>3 DEF Ahead, Absent
<1>3. Cardinality(H) <= Cardinality(Ahead(c))
  <2>1. H \in SUBSET Ahead(c) /\ Ahead(c) \in SUBSET Callers
    BY <1>2 DEF Ahead
  <2> QED
    BY <2>1, SubsetsOfCallers, FS_Subset
<1>4. H \in SUBSET Callers /\ Ahead(c) \in SUBSET Callers
  BY DEF GrantedAt, Granted, Ahead
<1>5. Cardinality(H) \in Nat /\ Cardinality(Ahead(c)) \in Nat
  BY <1>4, SubsetsOfCallers
<1>6. Cardinality(Ahead(c)) < PermitLimit
  BY DEF Allowed
<1> QED
  BY <1>3, <1>5, <1>6, ConfigAssumption

\* No other step grants a permit: time only ends windows.
LEMMA OnlyRankGrants ==
    ASSUME TypeOK, [Next]_vars, \A c \in Callers : ~(Rank(c) /\ Allowed(c))
    PROVE  Granted' \subseteq Granted
<1> SUFFICES ASSUME NEW d \in Callers, pc'[d] = "admitted", Fresh(d)'
             PROVE  pc[d] = "admitted" /\ Fresh(d)
  BY DEF Granted
<1> USE DEF TypeOK, Goto, Fresh
<1>1. CASE UNCHANGED vars
  BY <1>1 DEF vars
<1>2. CASE Tick
  BY <1>2, ConfigAssumption DEF Tick
<1>3. CASE \E i \in Instances : Crash(i)
  BY <1>3 DEF Crash
<1>4. CASE \E c \in Callers : Call(c)
  BY <1>4 DEF Call
<1>5. CASE \E c \in Callers : Evict(c) \/ Intersect(c) \/ Draw(c)
  BY <1>5 DEF Evict, Intersect, Draw
<1>6. CASE \E c \in Callers : PlaceKey(c) \/ PlaceOwner(c)
  BY <1>6 DEF PlaceKey, PlaceOwner
<1>7. CASE \E c \in Callers : Rank(c)
  BY <1>7 DEF Rank
<1>8. CASE \E c \in Callers : WithdrawKey(c) \/ WithdrawOwner(c) \/ ConnectionError(c)
  BY <1>8 DEF WithdrawKey, WithdrawOwner, ConnectionError
<1> QED
  BY <1>1, <1>2, <1>3, <1>4, <1>5, <1>6, <1>7, <1>8 DEF Next

\* Permits counts with the same Cardinality.
LEMMA SameCardinality == \A S : Limiter!Cardinality(S) = Cardinality(S)
BY DEF Limiter!Cardinality, Cardinality

LEMMA LimiterStep ==
    ASSUME IInv, [Next]_vars
    PROVE  \/ \E c \in Callers : Limiter!Grant(c)
           \/ \E S \in SUBSET Granted : Limiter!Return(S)
<1>1. ASSUME NEW c \in Callers, Rank(c), Allowed(c), Fresh(c)
      PROVE  Limiter!Grant(c)
  <2>1. c \notin Granted /\ Granted' = Granted \cup {c}
    <3>1. pc[c] = "ranking" /\ pc' = [pc EXCEPT ![c] = "admitted"]
      BY <1>1 DEF Rank, Goto
    <3>2. UNCHANGED <<now, stamp>> /\ pc \in [Callers -> PCs]
      BY <1>1 DEF Rank, IInv, TypeOK
    <3>3. \A d \in Callers : Fresh(d)' <=> Fresh(d)
      BY <3>2 DEF Fresh
    <3> QED
      BY <1>1, <3>1, <3>2, <3>3 DEF Granted
  <2>2. Limiter!Holders(c) = GrantedAt(Home[c])
    BY DEF Limiter!Holders, GrantedAt
  <2> QED
    BY <1>1, <2>1, <2>2, AdmittedBelowLimit, SameCardinality DEF Limiter!Grant
<1>2. ASSUME NEW c \in Callers, Rank(c), Allowed(c), ~Fresh(c)
      PROVE  Granted' \subseteq Granted
  BY <1>2 DEF Rank, Goto, Granted, Fresh, IInv, TypeOK
<1>3. ASSUME Granted' \subseteq Granted
      PROVE  \E S \in SUBSET Granted : Limiter!Return(S)
  <2>1. Granted' = Granted \ (Granted \ Granted')
    BY <1>3
  <2> QED
    BY <2>1 DEF Limiter!Return
<1> QED
  BY <1>1, <1>2, <1>3, OnlyRankGrants DEF IInv

\* The callers of an instance see the window as a limiter of permitLimit permits
\* (getRateWindow implements Permits).
THEOREM WindowRefinement == Spec => ImplementsPermits
<1>1. Init => Limiter!Init
  BY DEF Init, Limiter!Init, Granted
<1>2. IInv /\ [Next]_vars => [Limiter!Next]_Granted
  BY LimiterStep DEF Limiter!Next
<1> QED
  BY <1>1, <1>2, Invariance, PTL DEF Spec, ImplementsPermits, Limiter!Spec

-----------------------------------------------------------------------------
(* The limit.                                                              *)

LEMMA GrantedFinite ==
    \A i \in Instances :
        IsFiniteSet(GrantedAt(i)) /\ Cardinality(GrantedAt(i)) \in Nat
<1> TAKE i \in Instances
<1>1. GrantedAt(i) \in SUBSET Callers
  BY DEF GrantedAt, Granted
<1> QED
  BY <1>1, SubsetsOfCallers

LEMMA LimitStep ==
    ASSUME IInv, [Next]_vars, WindowLimit
    PROVE  WindowLimit'
<1> SUFFICES ASSUME NEW i \in Instances
             PROVE  Cardinality(GrantedAt(i)') <= PermitLimit
  BY DEF WindowLimit
<1>1. Cardinality(GrantedAt(i)) <= PermitLimit
  BY DEF WindowLimit
<1>2. CASE \E c \in Callers : Limiter!Grant(c)
  <2> PICK c \in Callers : Limiter!Grant(c)
    BY <1>2
  <2>1. Granted' = Granted \cup {c} /\ c \notin Granted
    BY DEF Limiter!Grant
  <2>2. CASE Home[c] = i
    <3>1. GrantedAt(i)' = GrantedAt(i) \cup {c} /\ c \notin GrantedAt(i)
      BY <2>1, <2>2 DEF GrantedAt
    <3>2. Cardinality(GrantedAt(i)) < PermitLimit
      BY <2>2, SameCardinality DEF Limiter!Grant, Limiter!Holders, GrantedAt
    <3>3. Cardinality(GrantedAt(i)') = Cardinality(GrantedAt(i)) + 1
      BY <3>1, GrantedFinite, FS_AddElement
    <3> QED
      BY <3>2, <3>3, GrantedFinite, ConfigAssumption
  <2>3. CASE Home[c] # i
    <3>1. GrantedAt(i)' = GrantedAt(i)
      BY <2>1, <2>3 DEF GrantedAt
    <3> QED
      BY <1>1, <3>1
  <2> QED
    BY <2>2, <2>3
<1>3. CASE \E S \in SUBSET Granted : Limiter!Return(S)
  <2>1. GrantedAt(i)' \in SUBSET GrantedAt(i)
    BY <1>3 DEF Limiter!Return, GrantedAt
  <2>2. /\ Cardinality(GrantedAt(i)') <= Cardinality(GrantedAt(i))
        /\ Cardinality(GrantedAt(i)') \in Nat
    BY <2>1, GrantedFinite, FS_Subset, FS_CardinalityType
  <2> QED
    BY <1>1, <2>2, GrantedFinite, ConfigAssumption
<1> QED
  BY <1>2, <1>3, LimiterStep

\* In any window at most permitLimit calls of an instance are let through, for
\* any number of callers and instances (guard).
THEOREM WindowSafety == Spec => []WindowLimit
<1>1. Init => WindowLimit
  <2> SUFFICES ASSUME Init, NEW i \in Instances
               PROVE  Cardinality(GrantedAt(i)) <= PermitLimit
    BY DEF WindowLimit
  <2>1. GrantedAt(i) = {}
    BY DEF Init, GrantedAt, Granted
  <2> QED
    BY <2>1, FS_EmptySet, ConfigAssumption
<1>2. IInv /\ WindowLimit /\ [Next]_vars => WindowLimit'
  BY LimitStep
<1> QED
  BY <1>1, <1>2, Invariance, PTL DEF Spec

-----------------------------------------------------------------------------
(* Nobody is turned away without rivals.                                   *)

\* A member of the sorted set by time has asked, and has its stamp as its score.
Stamped == \A d \in Callers : key[d] # Absent => key[d] = stamp[d] /\ pc[d] # "idle"

\* From the cleanup on, a caller finds nobody but rivals in the sets; and all who
\* may still place something there are its rivals.
Contest ==
    Window > 0 =>
        \A c \in Callers : \A d \in Callers \ {c} :
            /\ pc[c] = "intersecting" /\ key[d] # Absent => d \in Rivals(c)
            /\ /\ pc[c] \in {"drawing", "placing", "placingOwner", "ranking"}
               /\ owner[d] # Absent
               => d \in Rivals(c)
            /\ pc[c] \in Awaiting /\ pc[d] \in Awaiting => d \in Rivals(c)

LEMMA StampedStep == TypeOK /\ Stamped /\ [Next]_vars => Stamped'
<1> SUFFICES ASSUME TypeOK, Stamped, [Next]_vars
             PROVE  Stamped'
  OBVIOUS
<1> USE DEF TypeOK, Stamped, Goto, Absent
<1>1. CASE UNCHANGED vars \/ Tick
  BY <1>1 DEF vars, Tick
<1>2. CASE \E c \in Callers : Call(c)
  BY <1>2 DEF Call
<1>3. CASE \E c \in Callers : Evict(c) \/ Intersect(c) \/ Draw(c)
  BY <1>3 DEF Evict, Intersect, Draw
<1>4. CASE \E c \in Callers : PlaceKey(c) \/ PlaceOwner(c)
  BY <1>4 DEF PlaceKey, PlaceOwner
<1>5. CASE \E c \in Callers : Rank(c) \/ ConnectionError(c)
  BY <1>5 DEF Rank, ConnectionError
<1>6. CASE \E c \in Callers : WithdrawKey(c) \/ WithdrawOwner(c)
  BY <1>6 DEF WithdrawKey, WithdrawOwner
<1>7. CASE \E i \in Instances : Crash(i)
  BY <1>7 DEF Crash, Done
<1> QED
  BY <1>1, <1>2, <1>3, <1>4, <1>5, <1>6, <1>7 DEF Next

\* A step that makes nobody ask, places nothing and lets nobody past a cleanup.
LEMMA QuietKeepsContest ==
    ASSUME TypeOK, Contest,
           UNCHANGED <<stamp, abreast>>,
           \A d \in Callers : /\ key'[d] # Absent => key[d] # Absent
                              /\ owner'[d] # Absent => owner[d] # Absent
                              /\ pc'[d] \in Done \/ pc'[d] = pc[d]
                                 \/ (pc[d] = "ranking" /\ pc'[d] = "withdrawing")
                                 \/ (pc[d] = "withdrawing" /\ pc'[d] = "withdrawingOwner")
                                 \/ (pc[d] = "drawing" /\ pc'[d] = "placing")
    PROVE  Contest'
<1>1. \A c \in Callers : Rivals(c) \subseteq Rivals(c)'
  BY DEF Rivals, Done
<1> QED
  BY <1>1 DEF Contest, Awaiting, MidPipeline, Done

LEMMA ContestStep ==
    ASSUME TypeOK, Drawn, Stamped, Contest, [Next]_vars
    PROVE  Contest'
<1> USE DEF TypeOK, Goto
<1>1. CASE UNCHANGED vars \/ Tick
  BY <1>1, QuietKeepsContest DEF vars, Tick
<1>2. ASSUME NEW x \in Callers, Call(x)
      PROVE  Contest'
  <2> SUFFICES ASSUME Window > 0
               PROVE  Contest'
    BY DEF Contest
  <2>1. \A c \in Callers \ {x} : Rivals(c) \subseteq Rivals(c)' /\ x \in Rivals(c)'
    BY <1>2, ConfigAssumption DEF Call, Rivals, Drawn
  <2>2. \A d \in Callers \ {x} : pc[d] \in Awaiting => d \in Rivals(x)'
    BY <1>2 DEF Call, Rivals
  <2>3. /\ pc' = [pc EXCEPT ![x] = "evicting"] /\ pc[x] = "idle"
        /\ UNCHANGED <<key, owner>>
    BY <1>2 DEF Call
  <2> QED
    BY <2>1, <2>2, <2>3 DEF Contest, Awaiting, MidPipeline
<1>3. ASSUME NEW x \in Callers, Evict(x)
      PROVE  Contest'
  <2>1. \A c \in Callers : Rivals(c)' = Rivals(c)
    BY <1>3 DEF Evict, Rivals
  <2>2. \A d \in Callers \ {x} : key'[d] # Absent => key[d] # Absent /\ d \in Rivals(x)
    BY <1>3, ConfigAssumption DEF Evict, Rivals, Stamped
  <2>3. /\ pc' = [pc EXCEPT ![x] = "intersecting"] /\ pc[x] = "evicting"
        /\ owner' = owner
    BY <1>3 DEF Evict
  <2> QED
    BY <2>1, <2>2, <2>3 DEF Contest, Awaiting, MidPipeline
<1>4. ASSUME NEW x \in Callers, Intersect(x)
      PROVE  Contest'
  <2>1. \A c \in Callers : Rivals(c)' = Rivals(c)
    BY <1>4 DEF Intersect, Rivals
  <2>2. \A d \in Callers : owner'[d] # Absent => owner[d] # Absent /\ key[d] # Absent
    BY <1>4 DEF Intersect
  <2>3. /\ pc' = [pc EXCEPT ![x] = "drawing"] /\ pc[x] = "intersecting"
        /\ key' = key
    BY <1>4 DEF Intersect
  <2> QED
    BY <2>1, <2>2, <2>3 DEF Contest, Awaiting, MidPipeline
<1>5. ASSUME NEW x \in Callers, PlaceKey(x) \/ PlaceOwner(x)
      PROVE  Contest'
  <2>1. \A c \in Callers : Rivals(c)' = Rivals(c)
    BY <1>5 DEF PlaceKey, PlaceOwner, Rivals
  <2>2. \A d \in Callers \ {x} : key'[d] = key[d] /\ owner'[d] = owner[d]
    BY <1>5 DEF PlaceKey, PlaceOwner
  <2>3. \/ pc' = [pc EXCEPT ![x] = "placingOwner"] /\ pc[x] = "placing"
        \/ pc' = [pc EXCEPT ![x] = "ranking"] /\ pc[x] = "placingOwner"
    BY <1>5 DEF PlaceKey, PlaceOwner
  <2> QED
    BY <2>1, <2>2, <2>3 DEF Contest, Awaiting, MidPipeline
<1>6. CASE \E c \in Callers : Draw(c) \/ Rank(c) \/ ConnectionError(c)
  BY <1>6, QuietKeepsContest DEF Draw, Rank, ConnectionError, Done
<1>7. CASE \E c \in Callers : WithdrawKey(c) \/ WithdrawOwner(c)
  BY <1>7, QuietKeepsContest DEF WithdrawKey, WithdrawOwner, Done
<1>8. CASE \E i \in Instances : Crash(i)
  BY <1>8, QuietKeepsContest DEF Crash, Done
<1> QED
  BY <1>1, <1>2, <1>3, <1>4, <1>5, <1>6, <1>7, <1>8 DEF Next

\* A caller is turned away only if permitLimit others have competed with it: the
\* first batch of getRateWindow removes what all others have left behind.
THEOREM RefusalNeedsRivals == Spec => RefusedWhenFull
<1>1. Init => Stamped /\ Contest
  BY DEF Init, Stamped, Contest, Awaiting, MidPipeline
<1>2. ASSUME IInv, Stamped, Contest, Next, NEW c \in Callers, pc[c] = "ranking",
             pc'[c] = "withdrawing", Fresh(c)
      PROVE  Cardinality(Rivals(c)) >= PermitLimit
  <2>1. Rank(c) /\ ~Allowed(c)
    BY <1>2 DEF Next, IInv, TypeOK, Goto, Call, Evict, Intersect, Draw, PlaceKey,
       PlaceOwner, Rank, WithdrawKey, WithdrawOwner, ConnectionError, Crash, Tick
  <2>2. Window > 0
    BY <1>2, ConfigAssumption DEF Fresh, IInv, TypeOK, Drawn
  <2>3. owner[c] = ticket[c] /\ ticket[c] \in Nat
    BY <1>2 DEF IInv, TypeOK, Entries
  <2>4. Ahead(c) \in SUBSET Rivals(c)
    BY <1>2, <2>2, <2>3 DEF Ahead, Contest, IInv, TypeOK
  <2>5. Ahead(c) \in SUBSET Callers /\ Rivals(c) \in SUBSET Callers
    BY <1>2 DEF Ahead, Rivals, IInv, TypeOK
  <2>6. /\ Cardinality(Ahead(c)) <= Cardinality(Rivals(c))
        /\ Cardinality(Ahead(c)) \in Nat /\ Cardinality(Rivals(c)) \in Nat
    BY <2>4, <2>5, SubsetsOfCallers, FS_Subset
  <2>7. ~(Cardinality(Ahead(c)) < PermitLimit)
    BY <2>1, <2>3 DEF Allowed, Absent
  <2> QED
    BY <2>6, <2>7, ConfigAssumption
<1>3. IInv /\ Stamped /\ Contest /\ [Next]_vars =>
        [\A c \in Callers :
            pc[c] = "ranking" /\ pc'[c] = "withdrawing" /\ Fresh(c) =>
                Cardinality(Rivals(c)) >= PermitLimit]_vars
  BY <1>2
<1>4. IInv /\ Stamped /\ Contest /\ [Next]_vars => Stamped' /\ Contest'
  BY StampedStep, ContestStep DEF IInv
<1> QED
  BY <1>1, <1>3, <1>4, Invariance, PTL DEF Spec, RefusedWhenFull
=============================================================================
