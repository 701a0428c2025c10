------------------------ MODULE ConcurrentLockProofs ------------------------
(***************************************************************************)
(* Proofs about the lock record of ConcurrentLock, for any callers and     *)
(* configuration.                                                          *)
(***************************************************************************)
EXTENDS ConcurrentLock, TLAPS

\* Expiry and Period are moments of the clock.
LEMMA Moments ==
    ASSUME now \in Nat
    PROVE  Expiry \in Nat /\ now + Period \in Nat /\ now + Duration \in Nat
<1>1. Epoch + now + Duration - Drift \in Nat
  BY ConfigAssumption
<1>2. Period \in Nat
  BY ConfigAssumption DEF Period
<1> QED
  BY <1>1, <1>2, ConfigAssumption DEF Expiry

\* The record is that of a call, or free, and the clocks are numbers.
THEOREM LockTypeCorrect == Spec => []TypeOK
<1>1. Init => TypeOK
  BY DEF Init, TypeOK, PCs, Done
<1>2. TypeOK /\ [Next]_vars => TypeOK'
  <2> SUFFICES ASSUME TypeOK, [Next]_vars
               PROVE  TypeOK'
    OBVIOUS
  <2> USE DEF TypeOK, PCs, Done, Goto
  <2>1. CASE UNCHANGED vars
    BY <2>1 DEF vars
  <2>2. ASSUME NEW c \in Callers, Call(c) \/ Refuse(c) \/ Settle(c) \/ Crash(c)
        PROVE  TypeOK'
    BY <2>2 DEF Call, Refuse, Settle, Crash
  <2>3. ASSUME NEW c \in Callers, Take(c)
        PROVE  TypeOK'
    BY <2>3, Moments DEF Take, Record
  <2>4. ASSUME NEW c \in Callers, Begin(c)
        PROVE  TypeOK'
    BY <2>4, Moments DEF Begin
  <2>5. ASSUME NEW c \in Callers, Heartbeat(c)
        PROVE  TypeOK'
    BY <2>5, Moments DEF Heartbeat, Record
  <2>6. ASSUME NEW c \in Callers, Release(c) \/ ConnectionError(c)
        PROVE  TypeOK'
    BY <2>6 DEF Release, ConnectionError
  <2>7. CASE Tick
    <3>1. now' \in Nat /\ UNCHANGED <<pc, beat, since>>
      BY <2>7 DEF Tick
    <3>2. CASE lock # Free /\ lock.until <= now'
      BY <2>7, <3>1, <3>2 DEF Tick
    <3>3. CASE ~(lock # Free /\ lock.until <= now')
      BY <2>7, <3>1, <3>3 DEF Tick
    <3> QED
      BY <3>2, <3>3
  <2> QED
    BY <2>1, <2>2, <2>3, <2>4, <2>5, <2>6, <2>7 DEF Next
<1> QED
  BY <1>1, <1>2, PTL DEF Spec

-----------------------------------------------------------------------------
(* Calls overlap only after one has outlived its record.                   *)

\* What the exclusion rests on: until then the record is there, and it is that
\* of the one call that believes it holds the lock.
InsideOwns ==
    overrun = {} => \A c \in Callers : Inside(c) => lock # Free /\ lock.by = c

LEMMA Owned == Spec => []InsideOwns
<1>1. Init => InsideOwns
  BY DEF Init, InsideOwns, Inside
<1>2. TypeOK /\ InsideOwns /\ [Next]_vars => InsideOwns'
  <2> SUFFICES ASSUME TypeOK, InsideOwns, [Next]_vars
               PROVE  InsideOwns'
    OBVIOUS
  <2> USE DEF InsideOwns, Inside, Goto
  <2>1. CASE UNCHANGED vars
    BY <2>1 DEF vars
  <2>2. ASSUME NEW c \in Callers,
               Call(c) \/ Refuse(c) \/ Begin(c) \/ Settle(c)
        PROVE  InsideOwns'
    BY <2>2 DEF TypeOK, Call, Refuse, Begin, Settle
  <2>3. ASSUME NEW c \in Callers, ConnectionError(c) \/ Crash(c)
        PROVE  InsideOwns'
    BY <2>3 DEF TypeOK, ConnectionError, Crash
  <2>4. ASSUME NEW c \in Callers, Take(c)
        PROVE  InsideOwns'
    <3> SUFFICES ASSUME overrun = {}, NEW d \in Callers, Inside(d)'
                 PROVE  lock' # Free /\ lock'.by = d
      BY <2>4 DEF Take
    <3>1. ~Inside(d)
      BY <2>4 DEF Take
    <3>2. d = c
      BY <2>4, <3>1 DEF Take, TypeOK
    <3>3. lock'.by = c /\ lock'.until = now + Duration
      BY <2>4 DEF Take, Record
    <3>4. lock'.until # Free.until
      BY <3>3, ConfigAssumption DEF TypeOK, Free
    <3> QED
      BY <3>2, <3>3, <3>4
  <2>5. ASSUME NEW c \in Callers, Heartbeat(c)
        PROVE  InsideOwns'
    <3>1. lock # Free => lock' # Free /\ lock'.by = lock.by
      BY <2>5 DEF Heartbeat, Record, Free
    <3> QED
      BY <2>5, <3>1 DEF Heartbeat
  <2>6. ASSUME NEW c \in Callers, Release(c)
        PROVE  InsideOwns'
    <3>1. \A d \in Callers : d # c /\ overrun = {} => ~Inside(d)
      BY <2>6 DEF Release
    <3> QED
      BY <2>6, <3>1 DEF Release, TypeOK
  <2>7. CASE Tick
    <3>1. CASE lock # Free /\ lock.until <= now'
      <4>1. overrun' = {} => \A c \in Callers : ~Inside(c)
        BY <2>7, <3>1 DEF Tick
      <4> QED
        BY <2>7, <4>1 DEF Tick
    <3>2. CASE ~(lock # Free /\ lock.until <= now')
      BY <2>7, <3>2 DEF Tick
    <3> QED
      BY <3>1, <3>2
  <2> QED
    BY <2>1, <2>2, <2>3, <2>4, <2>5, <2>6, <2>7 DEF Next
<1> QED
  BY <1>1, <1>2, LockTypeCorrect, PTL DEF Spec

\* No crash, lost reply, failed DEL, heartbeat or DEL of another call lets a
\* second call in while no call has outlived its record.
THEOREM OverlapSafety == Spec => []OnlyOverrunsOverlap
<1>1. InsideOwns => OnlyOverrunsOverlap
  BY DEF InsideOwns, OnlyOverrunsOverlap
<1> QED
  BY <1>1, Owned, PTL

-----------------------------------------------------------------------------
(* Which records are extended.                                             *)

\* However late the heartbeats, they extend the record of a call that holds the lock,
\* and not what a call that has ended left behind, until some call outlives its record.
THEOREM AliveByHolder == Spec => KeptAliveByHolder
<1> DEFINE Held == \E c \in Extensible : lock.by = c /\ pc[c] \in {"running", "releasing"}
           Extends == overrun = {} /\ lock # Free /\ lock' \notin {lock, Free}
<1>1. InsideOwns /\ [Next]_vars => [Extends => Held]_vars
  <2> SUFFICES ASSUME InsideOwns, Next, Extends
               PROVE  Held
    OBVIOUS
  <2>1. PICK c \in Callers : Heartbeat(c)
    BY DEF Next, Call, Take, Refuse, Begin, Settle, Release, ConnectionError, Crash, Tick
  <2>2. c \in Extensible /\ pc[c] \in {"running", "releasing"}
    BY <2>1 DEF Heartbeat
  <2>3. lock.by = c
    BY <2>2 DEF InsideOwns, Inside
  <2> QED
    BY <2>2, <2>3
<1> QED
  BY <1>1, Owned, PTL DEF Spec, KeptAliveByHolder
=============================================================================
