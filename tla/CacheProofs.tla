----------------------------- MODULE CacheProofs -----------------------------
(***************************************************************************)
(* Proofs about the entry of Cache, for any readers, busters, kinds of     *)
(* cache and times.                                                        *)
(***************************************************************************)
EXTENDS Cache, TLAPS

PCs == Done \cup {"idle", "getting", "computing", "storing", "clearing", "deleting"}

\* What is about to be stored was computed, by a reader.
Computed == \A c \in Calls : pc[c] = "storing" => c \in Readers /\ value[c] # Absent
ReadersRead == \A c \in Calls : pc[c] \in {"getting", "computing"} => c \in Readers

TInv == TypeOK /\ Computed /\ ReadersRead

LEMMA TInvInit == Init => TInv
<1> SUFFICES ASSUME Init
             PROVE  TInv
  OBVIOUS
<1> QED
  BY ConfigAssumption DEF Init, TInv, TypeOK, Computed, ReadersRead, Absent, Never, Nobody,
     Calls, Done

LEMMA TInvStep == TInv /\ [Next]_vars => TInv'
<1> SUFFICES ASSUME TInv, [Next]_vars
             PROVE  TInv'
  OBVIOUS
<1> USE ConfigAssumption DEF TInv, TypeOK, Computed, ReadersRead, Absent, Never, Nobody, Calls,
        Done, Goto, Clears, Last, InRedis, store
<1>1. CASE UNCHANGED vars
  BY <1>1 DEF vars
<1>2. ASSUME NEW c \in Calls, Call(c) \/ Get(c) \/ Reject(c) \/ Crash(c)
      PROVE  TInv'
  BY <1>2 DEF Call, Get, Reject, Crash
<1>3. ASSUME NEW c \in Calls, Compute(c)
      PROVE  TInv'
  BY <1>3 DEF Compute
<1>4. ASSUME NEW c \in Calls, Set(c)
      PROVE  TInv'
  <2>1. value[c] \in 1..version /\ c \in Readers
    BY <1>4 DEF Set
  <2>2. expires' \in 0..(MaxNow + 1) /\ (config.kind = "cache" => expires' # MaxNow + 1)
    BY <1>4 DEF Set
  <2>3. pc' \in [Calls -> PCs]
    BY <1>4 DEF Set, PCs
  <2> QED
    BY <1>4, <2>1, <2>2, <2>3 DEF Set, PCs
<1>5. ASSUME NEW c \in Calls, Clear(c)
      PROVE  TInv'
  BY <1>5 DEF Clear, Remove
<1>6. ASSUME NEW b \in Calls, Change(b)
      PROVE  TInv'
  BY <1>6 DEF Change
<1>7. ASSUME NEW b \in Calls, Bust(b)
      PROVE  TInv'
  BY <1>7 DEF Bust, Remove
<1>8. ASSUME NEW b \in Calls, BustFails(b)
      PROVE  TInv'
  BY <1>8 DEF BustFails
<1>9. CASE Tick
  BY <1>9 DEF Tick, Remove
<1> QED
  BY <1>1, <1>2, <1>3, <1>4, <1>5, <1>6, <1>7, <1>8, <1>9 DEF Next

\* Every variable keeps its type; what is in the cache was stored by somebody, and
\* expires if and only if it is in the cache proper (cache.ts, set).
THEOREM CacheTypeCorrect == Spec => []TypeOK
<1>1. TInv => TypeOK
  BY DEF TInv
<1> QED
  BY <1>1, TInvInit, TInvStep, PTL DEF Spec

-----------------------------------------------------------------------------
(* Staleness.                                                              *)

\* A value that a completed bust has made obsolete before it is stored was
\* overtaken by that bust.
Overtaken == \A c \in Calls : pc[c] = "storing" /\ value[c] < floor => c \in overtaken

LEMMA StaleStep ==
    ASSUME TInv, TInv', Overtaken, StaleOnlyByOvertaking, [Next]_vars
    PROVE  Overtaken' /\ StaleOnlyByOvertaking'
<1> USE DEF TInv, TypeOK, Computed, Overtaken, StaleOnlyByOvertaking, Goto, Calls, Absent,
        Nobody, store
<1>1. CASE UNCHANGED vars
  BY <1>1 DEF vars
<1>2. ASSUME NEW c \in Calls, Call(c) \/ Get(c) \/ Reject(c) \/ Crash(c) \/ Clear(c)
      PROVE  Overtaken' /\ StaleOnlyByOvertaking'
  BY <1>2 DEF Call, Get, Reject, Crash, Clear, Remove, Last
<1>3. ASSUME NEW c \in Calls, Compute(c)
      PROVE  Overtaken' /\ StaleOnlyByOvertaking'
  BY <1>3 DEF Compute
<1>4. ASSUME NEW c \in Calls, Set(c)
      PROVE  Overtaken' /\ StaleOnlyByOvertaking'
  BY <1>4 DEF Set, Last
<1>5. ASSUME NEW b \in Calls, Change(b) \/ BustFails(b)
      PROVE  Overtaken' /\ StaleOnlyByOvertaking'
  BY <1>5 DEF Change, BustFails
<1>6. ASSUME NEW b \in Calls, Bust(b)
      PROVE  Overtaken' /\ StaleOnlyByOvertaking'
  BY <1>6 DEF Bust, Remove
<1>7. CASE Tick
  BY <1>7 DEF Tick, Remove
<1> QED
  BY <1>1, <1>2, <1>3, <1>4, <1>5, <1>6, <1>7 DEF Next

\* A cached value is older than a completed bust only if that bust came between
\* its computation and its storing: nothing else leaves a stale value behind.
THEOREM Staleness == Spec => []StaleOnlyByOvertaking
<1> DEFINE IInv == TInv /\ Overtaken /\ StaleOnlyByOvertaking
<1>1. Init => IInv
  BY TInvInit DEF Init, Overtaken, StaleOnlyByOvertaking, Absent
<1>2. IInv /\ [Next]_vars => IInv'
  BY TInvStep, StaleStep
<1> QED
  BY <1>1, <1>2, PTL DEF Spec

-----------------------------------------------------------------------------
(* The end of a request.                                                   *)

LEMMA ClearedStep ==
    ASSUME TInv, ClearedByItsCall, [Next]_vars
    PROVE  ClearedByItsCall'
<1> USE DEF TInv, TypeOK, ClearedByItsCall, Clears, Goto, Calls, Absent, Nobody, store
<1>1. CASE UNCHANGED vars
  BY <1>1 DEF vars
<1>2. ASSUME NEW c \in Calls, Call(c) \/ Get(c) \/ Compute(c)
      PROVE  ClearedByItsCall'
  BY <1>2 DEF Call, Get, Compute
<1>3. ASSUME NEW c \in Calls, Reject(c) \/ Crash(c)
      PROVE  ClearedByItsCall'
  BY <1>3 DEF Reject, Crash, Done
<1>4. ASSUME NEW c \in Calls, Set(c)
      PROVE  ClearedByItsCall'
  BY <1>4 DEF Set, Last
<1>5. ASSUME NEW c \in Calls, Clear(c)
      PROVE  ClearedByItsCall'
  BY <1>5 DEF Clear, Remove
<1>6. ASSUME NEW b \in Calls, Change(b) \/ Bust(b) \/ BustFails(b)
      PROVE  ClearedByItsCall'
  BY <1>6 DEF Change, Bust, BustFails, Remove
<1>7. CASE Tick
  BY <1>7 DEF Tick, Remove
<1> QED
  BY <1>1, <1>2, <1>3, <1>4, <1>5, <1>6, <1>7 DEF Next

\* Where the scope is cleared at the end of a request, an entry lasts no longer
\* than the call that stored it, unless that call could not clear it.
THEOREM ScopeSafety == Spec => []ClearedByItsCall
<1>1. Init => TInv /\ ClearedByItsCall
  BY TInvInit DEF Init, ClearedByItsCall
<1>2. TInv /\ ClearedByItsCall /\ [Next]_vars => TInv' /\ ClearedByItsCall'
  BY TInvStep, ClearedStep
<1> QED
  BY <1>1, <1>2, PTL DEF Spec
=============================================================================
