------------------------ MODULE CircuitBreakerProofs ------------------------
(***************************************************************************)
(* Proofs about the circuit of CircuitBreaker, for any callers, instances  *)
(* and configuration.                                                      *)
(***************************************************************************)
EXTENDS CircuitBreaker, SequenceTheorems, TLAPS

-----------------------------------------------------------------------------
(* An open circuit shuts new calls out.                                    *)

TasksTyped ==
    /\ stage \in [Tasks -> Stages]
    /\ step \in [Tasks -> Steps]

\* A call that began after the circuit opened has come no further than onOpen.
Outside ==
    registry = "Open" =>
        \A c \in Callers \ inside : stage[CallOf(c)] \in {"idle", "state", "open"}

LEMMA CallTasks ==
    \A c, d \in Callers :
        /\ CallOf(c) \in Tasks /\ CheckOf(c) \in Tasks
        /\ CallOf(c) # CheckOf(d)
        /\ CallOf(c) = CallOf(d) => c = d
BY DEF CallOf, CheckOf, Tasks

\* The control variables of every task keep their type.
LEMMA TasksTypedStep == TasksTyped /\ [Next]_vars => TasksTyped'
<1> SUFFICES ASSUME TasksTyped, [Next]_vars
             PROVE  TasksTyped'
  OBVIOUS
<1> USE CallTasks
    DEF TasksTyped, Stages, BucketStages, Steps, Enter, Leave, Throw, Go, Stay, control
<1>1. CASE UNCHANGED vars
  BY <1>1 DEF vars
<1>2. ASSUME NEW i \in Instances, CheckRegistry(i) \/ RegisterCircuit(i) \/ InitFails(i)
      PROVE  TasksTyped'
  BY <1>2 DEF CheckRegistry, RegisterCircuit, InitFails
<1>3. ASSUME NEW c \in Callers, Invoke(c) \/ Settle(c)
      PROVE  TasksTyped'
  BY <1>3 DEF Invoke, Settle
<1>4. ASSUME NEW c \in Callers, GetState(c) \/ Admit(c) \/ LookWhenOpen(c) \/ HalfOpen(c)
      PROVE  TasksTyped'
  BY <1>4 DEF GetState, Admit, LookWhenOpen, HalfOpen
<1>5. ASSUME NEW c \in Callers, OnSuccess(c) \/ OnError(c) \/ Trip(c) \/ Finally(c)
      PROVE  TasksTyped'
  BY <1>5 DEF OnSuccess, OnError, Trip, Finally
<1>6. ASSUME NEW t \in Tasks, FindBucket(t) \/ CreateBucket(t) \/ ConnectionLost(t)
      PROVE  TasksTyped'
  BY <1>6 DEF FindBucket, CreateBucket, ConnectionLost
<1>7. ASSUME NEW t \in Tasks, ReadCanary(t) \/ CountCanary(t) \/ RefuseCanary(t)
      PROVE  TasksTyped'
  BY <1>7 DEF ReadCanary, CountCanary, RefuseCanary
<1>8. ASSUME NEW t \in Tasks, CommandFails(t) \/ ReplyLost(t)
      PROVE  TasksTyped'
  BY <1>8 DEF CommandFails, ReplyLost
<1>9. ASSUME NEW i \in Instances, Crash(i)
      PROVE  TasksTyped'
  BY <1>9 DEF Crash
<1>10. CASE Tick
  BY <1>10 DEF Tick
<1> QED
  BY <1>1, <1>2, <1>3, <1>4, <1>5, <1>6, <1>7, <1>8, <1>9, <1>10 DEF Next, CallStep, TaskStep

LEMMA OutsideStep == TasksTyped /\ Outside /\ [Next]_vars => Outside'
<1> SUFFICES ASSUME TasksTyped, Outside, [Next]_vars
             PROVE  Outside'
  OBVIOUS
<1> USE CallTasks DEF TasksTyped, Outside, Enter, Leave, Throw, Go, Stay, control
<1>1. CASE UNCHANGED vars
  BY <1>1 DEF vars
<1>2. ASSUME NEW i \in Instances, CheckRegistry(i) \/ RegisterCircuit(i) \/ InitFails(i)
      PROVE  Outside'
  BY <1>2 DEF CheckRegistry, RegisterCircuit, InitFails, AddBucket
<1>3. ASSUME NEW c \in Callers, Invoke(c)
      PROVE  Outside'
  BY <1>3 DEF Invoke
<1>4. ASSUME NEW c \in Callers, Settle(c) \/ Admit(c)
      PROVE  Outside'
  BY <1>4 DEF Settle, Admit, At
<1>5. ASSUME NEW c \in Callers, GetState(c)
      PROVE  Outside'
  <2>1. CASE registry = "Open"
    <3>1. stage' = [stage EXCEPT ![CallOf(c)] = "open"]
      BY <1>5, <2>1 DEF GetState
    <3> QED
      BY <1>5, <3>1 DEF GetState
  <2>2. CASE registry # "Open"
    BY <1>5, <2>2 DEF GetState
  <2> QED
    BY <2>1, <2>2
<1>6. ASSUME NEW c \in Callers, LookWhenOpen(c) \/ HalfOpen(c)
      PROVE  Outside'
  BY <1>6 DEF LookWhenOpen, HalfOpen
<1>7. ASSUME NEW c \in Callers, OnSuccess(c) \/ OnError(c) \/ Finally(c)
      PROVE  Outside'
  <2>1. CASE OnSuccess(c)
    BY <2>1 DEF OnSuccess, CountSuccess
  <2>2. CASE OnError(c)
    <3>1. UNCHANGED <<registry, inside>> /\ stage[CallOf(c)] = "fail"
      BY <2>2 DEF OnError, CountFailure, At
    <3>2. \A d \in Callers : d # c => stage'[CallOf(d)] = stage[CallOf(d)]
      BY <2>2 DEF OnError
    <3> QED
      BY <3>1, <3>2
  <2>3. CASE Finally(c)
    BY <2>3 DEF Finally
  <2> QED
    BY <1>7, <2>1, <2>2, <2>3
<1>8. ASSUME NEW c \in Callers, Trip(c)
      PROVE  Outside'
  <2>1. ASSUME NEW d \in Callers \ inside'
        PROVE  stage'[CallOf(d)] \in {"idle", "state", "open"}
    <3>1. stage[CallOf(c)] = "fail" /\ d \in Callers
      BY <1>8 DEF Trip, At
    <3>2. stage' = [stage EXCEPT ![CallOf(c)] = "finally"]
      BY <1>8 DEF Trip
    <3>3. stage[CallOf(d)] \in {"idle", "state", "open"}
      BY <1>8, <2>1 DEF Trip, Open
    <3> QED
      BY <3>1, <3>2, <3>3
  <2> QED
    BY <2>1
<1>9. ASSUME NEW t \in Tasks, TaskStep(t)
      PROVE  Outside'
  <2>1. registry' = registry /\ inside' = inside
    BY <1>9 DEF TaskStep, FindBucket, CreateBucket, ConnectionLost, ReadCanary,
       CountCanary, RefuseCanary, AddBucket
  <2>2. stage[t] \in BucketStages
    BY <1>9 DEF TaskStep, FindBucket, CreateBucket, ConnectionLost, ReadCanary,
       CountCanary, RefuseCanary, At, BucketStages
  <2>3. \A u \in Tasks : u # t => stage'[u] = stage[u]
    BY <1>9 DEF TaskStep, FindBucket, CreateBucket, ConnectionLost, ReadCanary,
       CountCanary, RefuseCanary
  <2> QED
    BY <2>1, <2>2, <2>3 DEF BucketStages
<1>10. CASE Tick
  BY <1>10 DEF Tick
<1>11. ASSUME NEW t \in Tasks, CommandFails(t) \/ ReplyLost(t)
      PROVE  Outside'
  <2>1. \A u \in Tasks : u # t => stage'[u] = stage[u]
    BY <1>11 DEF CommandFails, ReplyLost
  <2>2. stage'[t] = "idle" \/ stage[t] \in {"succeed", "fail"}
    BY <1>11 DEF CommandFails, ReplyLost
  <2>3. CASE UNCHANGED <<registry, inside>>
    BY <2>1, <2>2, <2>3
  <2>4. CASE registry' # "Open"
    BY <2>4
  <2>5. CASE Open
    <3>1. ASSUME NEW d \in Callers \ inside'
          PROVE  stage[CallOf(d)] \in {"idle", "state", "open"}
      BY <2>5, <3>1 DEF Open
    <3> QED
      BY <2>1, <2>2, <3>1
  <2> QED
    BY <1>11, <2>3, <2>4, <2>5 DEF CommandFails, ReplyLost, CountSuccess, CountFailure, AddBucket
<1>12. ASSUME NEW i \in Instances, Crash(i)
      PROVE  Outside'
  BY <1>12 DEF Crash
<1> QED
  BY <1>1, <1>2, <1>3, <1>4, <1>5, <1>6, <1>7, <1>8, <1>9, <1>10, <1>11, <1>12 DEF Next, CallStep

\* Every decorated function that runs while the circuit is open was called
\* before it opened (onOpen is awaited; Closed and HalfOpen were read earlier).
THEOREM OpenSafety == Spec => []OpenShutsOut
<1>1. Init => TasksTyped /\ Outside
  BY DEF Init, TasksTyped, Outside, Stages, Steps, Unregistered
<1>2. TasksTyped /\ Outside /\ [Next]_vars => TasksTyped' /\ Outside'
  BY TasksTypedStep, OutsideStep
<1>3. Outside => OpenShutsOut
  BY DEF Outside, OpenShutsOut, Running
<1> QED
  BY <1>1, <1>2, <1>3, PTL DEF Spec

-----------------------------------------------------------------------------
(* The circuit opens on failures that some bucket has counted.             *)

\* Bucket b has counted enough failures.
Failed(b) == b \in DOMAIN buckets /\ buckets[b].failure >= MinimumFailures

LocalsTyped ==
    /\ bucket \in [Tasks -> Nat]
    /\ lastFailure \in [Tasks -> Nat]

BucketsTyped == buckets \in Seq(Bucket) /\ now \in Nat /\ LocalsTyped

\* The steps of a task that has found its bucket.
Holding == {"act", "count", "undo", "trip"}

\* What a circuit's opening rests on.
Justified ==
    /\ registry = "Open" => \E b \in DOMAIN buckets : Failed(b)
    /\ \A t \in Tasks : step[t] = "trip" => Failed(bucket[t])
    /\ \A t \in Tasks : step[t] \in Holding => bucket[t] \in DOMAIN buckets

\* Counting keeps the buckets, and never takes a failure back.
Grows ==
    /\ DOMAIN buckets \subseteq DOMAIN buckets'
    /\ \A b \in DOMAIN buckets : buckets'[b].failure >= buckets[b].failure

LEMMA BucketType ==
    ASSUME BucketsTyped
    PROVE  /\ DOMAIN buckets = 1 .. Len(buckets)
           /\ \A b \in DOMAIN buckets : /\ buckets[b] \in Bucket
                                        /\ buckets[b].failure \in Nat
                                        /\ buckets[b].lastFailure \in Nat
<1>1. \A b \in 1 .. Len(buckets) : buckets[b] \in Bucket
  BY ElementOfSeq DEF BucketsTyped
<1>2. DOMAIN buckets = 1 .. Len(buckets)
  BY LenProperties DEF BucketsTyped
<1> QED
  BY <1>1, <1>2 DEF Bucket

LEMMA FailedStays ==
    ASSUME BucketsTyped, BucketsTyped', Grows, NEW b, Failed(b)
    PROVE  Failed(b)'
<1>1. b \in DOMAIN buckets /\ b \in DOMAIN buckets'
  BY DEF Failed, Grows
<1>2. buckets[b].failure \in Nat
  BY <1>1, BucketType
<1>3. buckets'[b].failure \in Nat
  <2>1. \A d \in 1 .. Len(buckets') : buckets'[d] \in Bucket
    BY ElementOfSeq DEF BucketsTyped
  <2>2. DOMAIN buckets' = 1 .. Len(buckets')
    BY LenProperties DEF BucketsTyped
  <2> QED
    BY <1>1, <2>1, <2>2 DEF Bucket
<1>4. MinimumFailures \in Nat
  BY ConfigAssumption
<1> QED
  BY <1>1, <1>2, <1>3, <1>4 DEF Failed, Grows

LEMMA AppendGrows ==
    ASSUME BucketsTyped, buckets' = Append(buckets, NewBucket)
    PROVE  Grows /\ buckets' \in Seq(Bucket)
<1>1. NewBucket \in Bucket
  BY DEF NewBucket, Bucket, BucketsTyped
<1>2. buckets' \in Seq(Bucket) /\ Len(buckets') = Len(buckets) + 1
  BY <1>1, AppendProperties DEF BucketsTyped
<1>3. \A b \in 1 .. Len(buckets) : buckets'[b] = buckets[b]
  BY <1>1, AppendProperties DEF BucketsTyped
<1>4. DOMAIN buckets' = 1 .. Len(buckets') /\ Len(buckets) \in Nat
  BY <1>2, LenProperties DEF BucketsTyped
<1> QED
  BY <1>2, <1>3, <1>4, BucketType DEF Grows

\* A bucket in which one more call is counted.
LEMMA CountedBucket ==
    ASSUME NEW r \in Bucket, NEW n \in Nat
    PROVE  /\ [r EXCEPT !.success = @ + 1] \in Bucket
           /\ [r EXCEPT !.success = @ + 1].failure >= r.failure
           /\ [r EXCEPT !.failure = @ + 1, !.lastFailure = n] \in Bucket
           /\ [r EXCEPT !.failure = @ + 1, !.lastFailure = n].failure >= r.failure
<1>1. r.failure \in Nat /\ r.success \in Nat
  BY DEF Bucket
<1>2. [r EXCEPT !.success = @ + 1] \in Bucket
  BY <1>1 DEF Bucket
<1>3. [r EXCEPT !.success = @ + 1].failure >= r.failure
  <2>1. [r EXCEPT !.success = @ + 1].failure = r.failure
    BY DEF Bucket
  <2> QED
    BY <1>1, <2>1
<1>4. [r EXCEPT !.failure = @ + 1, !.lastFailure = n] \in Bucket
  <2>1. \A s \in Bucket : [s EXCEPT !.lastFailure = n] \in Bucket
    BY DEF Bucket
  <2>2. [r EXCEPT !.failure = @ + 1] \in Bucket
    BY <1>1 DEF Bucket
  <2>3. [r EXCEPT !.failure = @ + 1, !.lastFailure = n] =
        [[r EXCEPT !.failure = @ + 1] EXCEPT !.lastFailure = n]
    OBVIOUS
  <2> QED
    BY <2>1, <2>2, <2>3
<1>5. [r EXCEPT !.failure = @ + 1, !.lastFailure = n].failure >= r.failure
  <2>1. [r EXCEPT !.failure = @ + 1, !.lastFailure = n].failure = r.failure + 1
    BY DEF Bucket
  <2> QED
    BY <1>1, <2>1
<1> QED
  BY <1>2, <1>3, <1>4, <1>5

\* Replacing a bucket by one with as many failures.
LEMMA UpdateGrows ==
    ASSUME BucketsTyped, NEW b \in DOMAIN buckets, NEW r \in Bucket,
           r.failure >= buckets[b].failure, buckets' = [buckets EXCEPT ![b] = r]
    PROVE  Grows /\ buckets' \in Seq(Bucket)
<1>1. \A d \in DOMAIN buckets : buckets'[d] = IF d = b THEN r ELSE buckets[d]
  OBVIOUS
<1>2. DOMAIN buckets' = DOMAIN buckets
  OBVIOUS
<1>3. buckets' \in Seq(Bucket)
  BY ExceptSeq, BucketType DEF BucketsTyped
<1> QED
  BY <1>1, <1>2, <1>3, BucketType DEF Grows

LEMMA CountGrows ==
    ASSUME BucketsTyped, NEW b \in DOMAIN buckets, NEW n \in Int, Count(b, n)
    PROVE  Grows /\ buckets' \in Seq(Bucket)
<1> DEFINE r == [buckets[b] EXCEPT !.inFlight = @ + n]
<1>1. r \in Bucket /\ r.failure = buckets[b].failure
  BY BucketType DEF Bucket
<1>2. buckets' = [buckets EXCEPT ![b] = r]
  BY DEF Count
<1>3. r.failure >= buckets[b].failure
  BY <1>1, BucketType
<1> HIDE DEF r
<1> QED
  BY <1>1, <1>2, <1>3, UpdateGrows

LEMMA SuccessGrows ==
    ASSUME BucketsTyped, NEW t, bucket[t] \in DOMAIN buckets, CountSuccess(t)
    PROVE  Grows /\ buckets' \in Seq(Bucket)
<1> DEFINE b == bucket[t]
           r == [buckets[b] EXCEPT !.success = @ + 1]
<1>1. r \in Bucket /\ r.failure >= buckets[b].failure
  BY BucketType, CountedBucket
<1>2. buckets' = [buckets EXCEPT ![b] = r] /\ b \in DOMAIN buckets
  BY DEF CountSuccess
<1> HIDE DEF b, r
<1> QED
  BY <1>1, <1>2, UpdateGrows

LEMMA FailureGrows ==
    ASSUME BucketsTyped, NEW t, bucket[t] \in DOMAIN buckets, CountFailure(t)
    PROVE  Grows /\ buckets' \in Seq(Bucket)
<1> DEFINE b == bucket[t]
           r == [buckets[b] EXCEPT !.failure = @ + 1, !.lastFailure = now]
<1>1. r \in Bucket /\ r.failure >= buckets[b].failure
  BY BucketType, CountedBucket DEF BucketsTyped
<1>2. buckets' = [buckets EXCEPT ![b] = r] /\ b \in DOMAIN buckets
  BY DEF CountFailure
<1> HIDE DEF b, r
<1> QED
  BY <1>1, <1>2, UpdateGrows

\* How a step may change what Justified speaks of: who opens the circuit, and
\* what becomes of the bucket a task holds.
Opens == registry' = "Open" => registry = "Open" \/ \E t \in Tasks : step[t] = "trip"

Holds(t) ==
    \/ step'[t] \notin Holding
    \/ /\ step[t] \in Holding /\ bucket'[t] = bucket[t]
       /\ step'[t] = "trip" => step[t] = "trip" \/ Failed(bucket[t])'
    \/ step'[t] # "trip" /\ bucket'[t] \in DOMAIN buckets

Moves == Opens /\ \A t \in Tasks : Holds(t)

LEMMA JustifiedKept ==
    ASSUME BucketsTyped, BucketsTyped', Justified, Grows, Moves
    PROVE  Justified'
<1>1. \A b : Failed(b) => Failed(b)'
  BY FailedStays
<1>2. DOMAIN buckets \subseteq DOMAIN buckets'
  BY DEF Grows
<1>3. ASSUME registry' = "Open"
      PROVE  \E b \in DOMAIN buckets' : Failed(b)'
  <2>1. \E b \in DOMAIN buckets : Failed(b)
    BY <1>3 DEF Moves, Opens, Justified, Holding
  <2> QED
    BY <1>1, <1>2, <2>1
<1>4. ASSUME NEW t \in Tasks, step'[t] = "trip"
      PROVE  Failed(bucket[t])'
  <2>1. step[t] \in Holding /\ bucket'[t] = bucket[t]
    BY <1>4 DEF Moves, Holds, Holding
  <2>2. step[t] = "trip" \/ Failed(bucket[t])'
    BY <1>4, <2>1 DEF Moves, Holds, Holding, Failed
  <2> QED
    BY <1>1, <2>1, <2>2 DEF Justified, Failed
<1>5. ASSUME NEW t \in Tasks, step'[t] \in Holding
      PROVE  bucket'[t] \in DOMAIN buckets'
  BY <1>2, <1>5 DEF Moves, Holds, Justified
<1> QED
  BY <1>3, <1>4, <1>5 DEF Justified

LEMMA SameGrows == BucketsTyped /\ buckets' = buckets => Grows
BY BucketType DEF Grows

\* What each way of moving a task does to its locals.
LEMMA UnchangedHolds ==
    ASSUME LocalsTyped, UNCHANGED control
    PROVE  LocalsTyped' /\ \A t \in Tasks : Holds(t)
BY DEF LocalsTyped, Holds, control, Holding

LEMMA EnterHolds ==
    ASSUME TasksTyped, LocalsTyped, NEW t \in Tasks, NEW s, NEW p, p \notin Holding,
           Enter(t, s, p)
    PROVE  LocalsTyped' /\ \A u \in Tasks : Holds(u)
<1> USE DEF TasksTyped, LocalsTyped, Enter, Go
<1>1. LocalsTyped'
  OBVIOUS
<1>2. step'[t] = p
  OBVIOUS
<1>3. \A u \in Tasks : u # t => step'[u] = step[u] /\ bucket'[u] = bucket[u]
  OBVIOUS
<1> QED
  BY <1>1, <1>2, <1>3 DEF Holds, Holding

LEMMA ThrowHolds ==
    ASSUME TasksTyped, LocalsTyped, NEW t \in Tasks, Throw(t)
    PROVE  LocalsTyped' /\ \A u \in Tasks : Holds(u)
<1>1. \E s, p \in {"fail", "finally", "idle", "find", "none"} : Enter(t, s, p)
  BY DEF Throw, Leave
<1> QED
  BY <1>1, EnterHolds DEF Holding

LEMMA StayHolds ==
    ASSUME TasksTyped, LocalsTyped, NEW t \in Tasks, NEW p, Stay(t, p),
           p \in Holding => step[t] \in Holding,
           p = "trip" => Failed(bucket[t])'
    PROVE  LocalsTyped' /\ \A u \in Tasks : Holds(u)
<1>1. step'[t] = p /\ bucket' = bucket /\ lastFailure' = lastFailure
  BY DEF Stay, TasksTyped
<1>2. \A u \in Tasks : u # t => step'[u] = step[u]
  BY DEF Stay, TasksTyped
<1> QED
  BY <1>1, <1>2 DEF Holds, Holding, LocalsTyped

\* Every step moves within these limits.
LEMMA StepMoves ==
    ASSUME TasksTyped, BucketsTyped, Justified, [Next]_vars
    PROVE  BucketsTyped' /\ Grows /\ Moves
<1> USE CallTasks DEF BucketsTyped
<1>1. CASE UNCHANGED vars
  <2>1. UNCHANGED <<registry, buckets, now>> /\ UNCHANGED control
    BY <1>1 DEF vars
  <2> QED
    BY <2>1, SameGrows, UnchangedHolds DEF Moves, Opens
<1>2. CASE Tick
  BY <1>2, SameGrows, UnchangedHolds DEF Tick, Moves, Opens
<1>3. ASSUME NEW i \in Instances, CheckRegistry(i)
      PROVE  BucketsTyped' /\ Grows /\ Moves
  BY <1>3, SameGrows, UnchangedHolds DEF CheckRegistry, Moves, Opens
<1>4. ASSUME NEW i \in Instances, RegisterCircuit(i)
      PROVE  BucketsTyped' /\ Grows /\ Moves
  BY <1>4, AppendGrows, UnchangedHolds DEF RegisterCircuit, AddBucket, Moves, Opens
\* The actions of a call that leave the buckets alone and take up another stage.
<1>5. ASSUME NEW c \in Callers, NEW s, NEW p \in {"find", "none"},
             Enter(CallOf(c), s, p), UNCHANGED <<now, buckets>>, Opens
      PROVE  BucketsTyped' /\ Grows /\ Moves
  BY <1>5, SameGrows, EnterHolds DEF Moves, Holding
<1>6. ASSUME NEW c \in Callers, Invoke(c) \/ Settle(c) \/ HalfOpen(c)
      PROVE  BucketsTyped' /\ Grows /\ Moves
  <2>1. CASE Invoke(c)
    BY <1>5, <2>1 DEF Invoke, Opens
  <2>2. CASE Settle(c)
    BY <1>5, <2>2 DEF Settle, Opens
  <2>3. CASE HalfOpen(c)
    BY <1>5, <2>3 DEF HalfOpen, Opens
  <2> QED
    BY <1>6, <2>1, <2>2, <2>3
<1>7. ASSUME NEW c \in Callers, LookWhenOpen(c)
      PROVE  BucketsTyped' /\ Grows /\ Moves
  <2>1. UNCHANGED <<now, registry, buckets>>
    BY <1>7 DEF LookWhenOpen
  <2>2. CASE Leave(CallOf(c))
    BY <1>5, <2>1, <2>2 DEF Leave, Opens
  <2>3. CASE Stay(CallOf(c), "halfOpen")
    BY <2>1, <2>3, SameGrows, StayHolds DEF Moves, Opens, Holding
  <2> QED
    BY <1>7, <2>2, <2>3 DEF LookWhenOpen
<1>8. ASSUME NEW c \in Callers, GetState(c)
      PROVE  BucketsTyped' /\ Grows /\ Moves
  <2>1. UNCHANGED <<now, registry, buckets>> /\ Opens
    BY <1>8 DEF GetState, Opens
  <2>2. ASSUME NEW s \in {"admit", "open"}, Enter(CallOf(c), s, "find")
        PROVE  BucketsTyped' /\ Grows /\ Moves
    BY <1>5, <2>1, <2>2
  <2>3. ASSUME step' = [step EXCEPT ![CheckOf(c)] = "find"],
               UNCHANGED <<bucket, attempt, lastFailure>>
        PROVE  BucketsTyped' /\ Grows /\ Moves
    <3>1. \A t \in Tasks : step'[t] = "find" \/ step'[t] = step[t]
      BY <2>3 DEF TasksTyped
    <3>2. \A t \in Tasks : Holds(t)
      BY <2>3, <3>1 DEF Holds, Holding
    <3> QED
      BY <2>1, <2>3, <3>2, SameGrows DEF Moves, LocalsTyped
  <2> QED
    BY <1>8, <2>2, <2>3 DEF GetState
<1>9. ASSUME NEW c \in Callers, Admit(c) \/ Finally(c)
      PROVE  BucketsTyped' /\ Grows /\ Moves
  <2>1. bucket[CallOf(c)] \in DOMAIN buckets
    BY <1>9 DEF Admit, Finally, At, Justified, Holding
  <2>2. \E n \in Int : Count(bucket[CallOf(c)], n)
    BY <1>9 DEF Admit, Finally
  <2>3. Grows /\ buckets' \in Seq(Bucket)
    BY <2>1, <2>2, CountGrows
  <2>4. /\ UNCHANGED <<now, registry>>
        /\ \E s \in {"running", "idle"} : Enter(CallOf(c), s, "none")
    BY <1>9 DEF Admit, Finally, Leave
  <2> QED
    BY <2>3, <2>4, EnterHolds DEF Moves, Opens, Holding
<1>10. ASSUME NEW c \in Callers, OnSuccess(c)
      PROVE  BucketsTyped' /\ Grows /\ Moves
  <2>1. bucket[CallOf(c)] \in DOMAIN buckets
    BY <1>10 DEF OnSuccess, At, Justified, Holding
  <2>2. Grows /\ buckets' \in Seq(Bucket)
    BY <1>10, <2>1, SuccessGrows DEF OnSuccess
  <2>3. Opens /\ now' = now /\ Enter(CallOf(c), "finally", "find")
    BY <1>10 DEF OnSuccess, CountSuccess, Opens
  <2> QED
    BY <2>2, <2>3, EnterHolds DEF Moves, Holding
<1>11. ASSUME NEW c \in Callers, OnError(c)
      PROVE  BucketsTyped' /\ Grows /\ Moves
  <2> DEFINE t == CallOf(c)
             b == bucket[t]
  <2>1. b \in DOMAIN buckets
    BY <1>11 DEF OnError, At, Justified, Holding
  <2>2. Grows /\ buckets' \in Seq(Bucket)
    BY <1>11, <2>1, FailureGrows DEF OnError
  <2>3. UNCHANGED <<now, registry>> /\ step[t] = "act" /\ Opens
    BY <1>11 DEF OnError, CountFailure, At, Opens
  <2>4. CASE Exceeded(buckets'[b])
    <3>1. Stay(t, "trip")
      BY <1>11, <2>4 DEF OnError
    <3>2. Failed(bucket[t])'
      BY <2>1, <2>2, <2>4, <3>1 DEF Failed, Exceeded, Grows, Stay
    <3> QED
      BY <2>2, <2>3, <3>1, <3>2, StayHolds DEF Moves, Holding
  <2>5. CASE ~Exceeded(buckets'[b])
    <3>1. Enter(t, "finally", "find")
      BY <1>11, <2>5 DEF OnError
    <3> QED
      BY <2>2, <2>3, <3>1, EnterHolds DEF Moves, Holding
  <2> QED
    BY <2>4, <2>5
<1>12. ASSUME NEW c \in Callers, Trip(c)
       PROVE  BucketsTyped' /\ Grows /\ Moves
  <2>1. Opens
    BY <1>12 DEF Trip, At, Opens
  <2> QED
    BY <1>5, <1>12, <2>1 DEF Trip, Open
<1>13. ASSUME NEW t \in Tasks, FindBucket(t)
       PROVE  BucketsTyped' /\ Grows /\ Moves
  <2>1. UNCHANGED <<now, registry, buckets>> /\ Opens /\ Grows
    BY <1>13, SameGrows DEF FindBucket, Opens
  <2>2. CASE Stay(t, "create")
    BY <2>1, <2>2, StayHolds DEF Moves, Holding
  <2>3. ASSUME NEW b \in Active, bucket' = [bucket EXCEPT ![t] = b],
               step' = [step EXCEPT ![t] = "act"], lastFailure' = lastFailure
        PROVE  BucketsTyped' /\ Grows /\ Moves
    <3>1. b \in DOMAIN buckets /\ b \in Nat
      BY BucketType DEF Active
    <3>2. LocalsTyped'
      BY <2>3, <3>1 DEF LocalsTyped
    <3>3. \A u \in Tasks : Holds(u)
      BY <2>3, <3>1 DEF Holds, Holding, TasksTyped, LocalsTyped
    <3> QED
      BY <2>1, <3>2, <3>3 DEF Moves
  <2> QED
    BY <1>13, <2>2, <2>3 DEF FindBucket
<1>14. ASSUME NEW t \in Tasks, CreateBucket(t)
       PROVE  BucketsTyped' /\ Grows /\ Moves
  <2>1. Grows /\ buckets' \in Seq(Bucket)
    BY <1>14, AppendGrows DEF CreateBucket, AddBucket
  <2>2. UNCHANGED <<now, registry, bucket, lastFailure>> /\ Opens
    BY <1>14 DEF CreateBucket, Opens
  <2>3. \A u \in Tasks : Holds(u)
    BY <1>14, <2>2 DEF CreateBucket, Holds, Holding, TasksTyped
  <2> QED
    BY <2>1, <2>2, <2>3 DEF Moves, LocalsTyped
<1>15. ASSUME NEW t \in Tasks, ConnectionLost(t)
       PROVE  BucketsTyped' /\ Grows /\ Moves
  <2>1. UNCHANGED <<now, registry, buckets>> /\ Opens
    BY <1>15 DEF ConnectionLost, Opens
  <2> QED
    BY <1>15, <2>1, SameGrows, ThrowHolds DEF ConnectionLost, Moves
<1>16. ASSUME NEW t \in Tasks, ReadCanary(t)
       PROVE  BucketsTyped' /\ Grows /\ Moves
  <2>1. UNCHANGED <<now, registry, buckets, bucket>> /\ Opens /\ Grows
    BY <1>16, SameGrows DEF ReadCanary, Opens
  <2>2. step[t] \in Holding /\ buckets[bucket[t]].lastFailure \in Nat
    BY <1>16, BucketType DEF ReadCanary, At, Justified, Holding
  <2>3. LocalsTyped'
    BY <1>16, <2>1, <2>2 DEF ReadCanary, LocalsTyped
  <2>4. \A u \in Tasks : Holds(u)
    BY <1>16, <2>1, <2>2 DEF ReadCanary, Go, Holds, Holding, TasksTyped
  <2> QED
    BY <2>1, <2>3, <2>4 DEF Moves
<1>17. ASSUME NEW t \in Tasks, CountCanary(t) \/ RefuseCanary(t)
       PROVE  BucketsTyped' /\ Grows /\ Moves
  <2>1. bucket[t] \in DOMAIN buckets /\ step[t] \in Holding
    BY <1>17 DEF CountCanary, RefuseCanary, At, Justified, Holding
  <2>2. \E n \in Int : Count(bucket[t], n)
    BY <1>17 DEF CountCanary, RefuseCanary
  <2>3. Grows /\ buckets' \in Seq(Bucket)
    BY <2>1, <2>2, CountGrows
  <2>4. UNCHANGED <<now, registry>> /\ Opens
    BY <1>17 DEF CountCanary, RefuseCanary, Opens
  <2>5. \/ Stay(t, "undo")
        \/ \E s \in {"running", "idle"} : Enter(t, s, "none")
    BY <1>17 DEF CountCanary, RefuseCanary, Leave
  <2>6. LocalsTyped' /\ \A u \in Tasks : Holds(u)
    BY <2>1, <2>5, StayHolds, EnterHolds DEF Holding
  <2> QED
    BY <2>3, <2>4, <2>6 DEF Moves
<1>18. ASSUME NEW i \in Instances, InitFails(i)
       PROVE  BucketsTyped' /\ Grows /\ Moves
  <2>1. Grows /\ buckets' \in Seq(Bucket)
    BY <1>18, SameGrows, AppendGrows DEF InitFails, AddBucket
  <2>2. now' = now /\ UNCHANGED control /\ Opens
    BY <1>18 DEF InitFails, Opens
  <2> QED
    BY <2>1, <2>2, UnchangedHolds DEF Moves
<1>19. ASSUME NEW t \in Tasks, CommandFails(t)
       PROVE  BucketsTyped' /\ Grows /\ Moves
  <2>1. UNCHANGED <<now, registry, buckets>> /\ Opens
    BY <1>19 DEF CommandFails, Opens
  <2> QED
    BY <1>19, <2>1, SameGrows, ThrowHolds DEF CommandFails, Moves
<1>20. ASSUME NEW t \in Tasks, ReplyLost(t)
       PROVE  BucketsTyped' /\ Grows /\ Moves
  <2>1. step[t] = "act" \/ step[t] = "count" => bucket[t] \in DOMAIN buckets
    BY DEF Justified, Holding
  <2>2. ASSUME NEW n \in {1, -1}, Count(bucket[t], n), bucket[t] \in DOMAIN buckets
        PROVE  Grows /\ buckets' \in Seq(Bucket)
    BY <2>2, CountGrows
  <2>3. Grows /\ buckets' \in Seq(Bucket)
    <3>1. CASE At(t, "admit", "act") \/ At(t, "canary", "count") \/ At(t, "finally", "act")
      BY <1>20, <2>1, <2>2, <3>1 DEF ReplyLost, At
    <3>2. CASE At(t, "succeed", "act")
      BY <1>20, <2>1, <3>2, SuccessGrows DEF ReplyLost, At, BucketStages
    <3>3. CASE At(t, "fail", "act")
      BY <1>20, <2>1, <3>3, FailureGrows DEF ReplyLost, At, BucketStages
    <3>4. CASE At(t, "fail", "trip") \/ At(t, "open", "halfOpen")
      BY <1>20, <3>4, SameGrows DEF ReplyLost, At, BucketStages, Open, BucketsTyped
    <3>5. CASE step[t] = "create"
      BY <1>20, <3>5, AppendGrows DEF ReplyLost, At, AddBucket
    <3> QED
      BY <1>20, <3>1, <3>2, <3>3, <3>4, <3>5 DEF ReplyLost
  <2>4. Opens
    BY <1>20 DEF ReplyLost, At, Opens, CountSuccess, CountFailure
  <2>5. now' = now /\ Throw(t)
    BY <1>20 DEF ReplyLost
  <2> QED
    BY <2>3, <2>4, <2>5, ThrowHolds DEF Moves
<1>21. ASSUME NEW i \in Instances, Crash(i)
       PROVE  BucketsTyped' /\ Grows /\ Moves
  <2>1. UNCHANGED <<now, registry, buckets>> /\ Opens
    BY <1>21 DEF Crash, Opens
  <2>2. \A t \in Tasks : \/ step'[t] = "none"
                         \/ UNCHANGED <<step[t], bucket[t]>>
    BY <1>21 DEF Crash
  <2>3. LocalsTyped'
    BY <1>21 DEF Crash, LocalsTyped
  <2> QED
    BY <2>1, <2>2, <2>3, SameGrows DEF Moves, Holds, Holding
<1> QED
  BY <1>1, <1>2, <1>3, <1>4, <1>6, <1>7, <1>8, <1>9, <1>10, <1>11, <1>12,
     <1>13, <1>14, <1>15, <1>16, <1>17, <1>18, <1>19, <1>20, <1>21
  DEF Next, CallStep, TaskStep

\* The circuit opens only on failures that some bucket has counted, and keeps
\* them: no call, half-open check or registration makes a bucket forget.
THEOREM OpenNeedsFailures == Spec => []OpenMeansMinimum
<1> DEFINE IInv == TasksTyped /\ BucketsTyped /\ Justified
<1>1. Init => IInv
  <2> SUFFICES ASSUME Init
               PROVE  IInv
    OBVIOUS
  <2>1. TasksTyped
    BY DEF Init, TasksTyped, Stages, Steps
  <2>2. BucketsTyped
    BY ConfigAssumption DEF Init, Start, BucketsTyped, LocalsTyped
  <2>3. Justified
    BY DEF Init, Justified, Holding, Unregistered
  <2> QED
    BY <2>1, <2>2, <2>3
<1>2. IInv /\ [Next]_vars => IInv'
  BY TasksTypedStep, StepMoves, JustifiedKept
<1>3. IInv => OpenMeansMinimum
  BY DEF Justified, Failed, OpenMeansMinimum
<1> HIDE DEF IInv
<1> QED
  BY <1>1, <1>2, <1>3, PTL DEF Spec

-----------------------------------------------------------------------------
(* Types.                                                                  *)

\* The variables that TasksTyped and BucketsTyped say nothing of.
RestTyped ==
    /\ registry \in States \cup {Unregistered}
    /\ init \in [Instances -> {"new", "register", "ready", "failed"}]
    /\ attempt \in [Tasks -> Nat]
    /\ events \in Nat
    /\ inside \in SUBSET Callers

\* `activeBucket` is a bucket of the circuit.
Located == \A t \in Tasks : bucket[t] = 0 \/ bucket[t] \in DOMAIN buckets

LEMMA RestTypedStep == RestTyped /\ [Next]_vars => RestTyped'
<1> SUFFICES ASSUME RestTyped, [Next]_vars
             PROVE  RestTyped'
  OBVIOUS
<1> USE CallTasks DEF RestTyped, States, Event, Enter, Leave, Throw, Go, Stay, control
<1>1. CASE UNCHANGED vars
  BY <1>1 DEF vars
<1>2. ASSUME NEW i \in Instances, CheckRegistry(i) \/ RegisterCircuit(i) \/ InitFails(i)
      PROVE  RestTyped'
  BY <1>2 DEF CheckRegistry, RegisterCircuit, InitFails, AddBucket
<1>3. ASSUME NEW c \in Callers,
             Invoke(c) \/ Settle(c) \/ GetState(c) \/ Admit(c) \/ LookWhenOpen(c)
      PROVE  RestTyped'
  BY <1>3 DEF Invoke, Settle, GetState, Admit, LookWhenOpen
<1>4. ASSUME NEW c \in Callers,
             HalfOpen(c) \/ OnSuccess(c) \/ OnError(c) \/ Finally(c)
      PROVE  RestTyped'
  BY <1>4 DEF HalfOpen, OnSuccess, OnError, Finally, CountSuccess, CountFailure
<1>5. ASSUME NEW c \in Callers, Trip(c)
      PROVE  RestTyped'
  BY <1>5 DEF Trip, Open
<1>6. ASSUME NEW t \in Tasks, FindBucket(t) \/ CreateBucket(t) \/ ConnectionLost(t)
      PROVE  RestTyped'
  <2>1. CASE FindBucket(t)
    BY <2>1 DEF FindBucket
  <2>2. CASE CreateBucket(t)
    BY <2>2 DEF CreateBucket, AddBucket
  <2>3. CASE ConnectionLost(t)
    <3>1. attempt' = [attempt EXCEPT ![t] = 0]
      BY <2>3 DEF ConnectionLost
    <3> QED
      BY <2>3, <3>1 DEF ConnectionLost
  <2> QED
    BY <1>6, <2>1, <2>2, <2>3
<1>7. ASSUME NEW t \in Tasks, ReadCanary(t) \/ CountCanary(t) \/ RefuseCanary(t)
      PROVE  RestTyped'
  BY <1>7 DEF ReadCanary, CountCanary, RefuseCanary
<1>8. CASE Tick
  BY <1>8 DEF Tick
<1>9. ASSUME NEW t \in Tasks, CommandFails(t) \/ ReplyLost(t)
      PROVE  RestTyped'
  <2>1. attempt' = [attempt EXCEPT ![t] = 0] /\ init' = init /\ events' = events + 1
    BY <1>9 DEF CommandFails, ReplyLost
  <2>2. registry' \in States \cup {Unregistered}
    BY <1>9 DEF CommandFails, ReplyLost, CountSuccess, CountFailure, Open
  <2>3. inside' \in SUBSET Callers
    BY <1>9 DEF CommandFails, ReplyLost, CountSuccess, CountFailure, Open, AddBucket
  <2> QED
    BY <2>1, <2>2, <2>3
<1>10. ASSUME NEW i \in Instances, Crash(i)
      PROVE  RestTyped'
  BY <1>10 DEF Crash
<1> QED
  BY <1>1, <1>2, <1>3, <1>4, <1>5, <1>6, <1>7, <1>8, <1>9, <1>10 DEF Next, CallStep, TaskStep

LEMMA LocatedStep ==
    ASSUME BucketsTyped, Located, Grows, [Next]_vars
    PROVE  Located'
<1>1. \A t \in Tasks : \/ bucket'[t] = bucket[t]
                       \/ bucket'[t] = 0
                       \/ bucket'[t] \in DOMAIN buckets
  <2> USE CallTasks DEF BucketsTyped, LocalsTyped, Enter, Leave, Throw, Go, Stay, control
  <2> DEFINE P == \A t \in Tasks : \/ bucket'[t] = bucket[t]
                                   \/ bucket'[t] = 0
                                   \/ bucket'[t] \in DOMAIN buckets
  <2>1. CASE UNCHANGED vars \/ Tick
    BY <2>1 DEF vars, Tick
  <2>2. ASSUME NEW i \in Instances, CheckRegistry(i) \/ RegisterCircuit(i) \/ InitFails(i)
        PROVE  P
    BY <2>2 DEF CheckRegistry, RegisterCircuit, InitFails
  <2>3. ASSUME NEW c \in Callers,
               Invoke(c) \/ Settle(c) \/ GetState(c) \/ Admit(c) \/ LookWhenOpen(c)
        PROVE  P
    BY <2>3 DEF Invoke, Settle, GetState, Admit, LookWhenOpen
  <2>4. ASSUME NEW c \in Callers,
               HalfOpen(c) \/ OnSuccess(c) \/ OnError(c) \/ Trip(c) \/ Finally(c)
        PROVE  P
    BY <2>4 DEF HalfOpen, OnSuccess, OnError, Trip, Finally
  <2>5. ASSUME NEW t \in Tasks, FindBucket(t) \/ CreateBucket(t) \/ ConnectionLost(t)
        PROVE  P
    BY <2>5 DEF FindBucket, CreateBucket, ConnectionLost, Active
  <2>6. ASSUME NEW t \in Tasks, ReadCanary(t) \/ CountCanary(t) \/ RefuseCanary(t)
        PROVE  P
    BY <2>6 DEF ReadCanary, CountCanary, RefuseCanary
  <2>7. ASSUME NEW t \in Tasks, CommandFails(t) \/ ReplyLost(t)
        PROVE  P
    BY <2>7 DEF CommandFails, ReplyLost
  <2>8. ASSUME NEW i \in Instances, Crash(i)
        PROVE  P
    BY <2>8 DEF Crash
  <2> QED
    BY <2>1, <2>2, <2>3, <2>4, <2>5, <2>6, <2>7, <2>8 DEF Next, CallStep, TaskStep
<1> QED
  BY <1>1 DEF Located, Grows

\* Every variable keeps its type; in particular every task that holds a bucket
\* holds one that exists.
THEOREM BreakerTypeCorrect == Spec => []TypeOK
<1> DEFINE IInv == TasksTyped /\ BucketsTyped /\ Justified /\ RestTyped /\ Located
<1>1. Init => IInv
  <2> SUFFICES ASSUME Init
               PROVE  IInv
    OBVIOUS
  <2>1. TasksTyped
    BY DEF Init, TasksTyped, Stages, Steps
  <2>2. BucketsTyped
    BY ConfigAssumption DEF Init, Start, BucketsTyped, LocalsTyped
  <2>3. Justified
    BY DEF Init, Justified, Holding, Unregistered
  <2>4. RestTyped /\ Located
    BY DEF Init, RestTyped, Located
  <2> QED
    BY <2>1, <2>2, <2>3, <2>4
<1>2. IInv /\ [Next]_vars => IInv'
  BY TasksTypedStep, StepMoves, JustifiedKept, RestTypedStep, LocatedStep
<1>3. IInv => TypeOK
  <2> SUFFICES ASSUME IInv
               PROVE  TypeOK
    OBVIOUS
  <2>1. bucket \in [Tasks -> 0 .. Len(buckets)]
    <3>1. Len(buckets) \in Nat /\ DOMAIN buckets = 1 .. Len(buckets)
      BY BucketType, LenProperties DEF BucketsTyped
    <3> QED
      BY <3>1 DEF BucketsTyped, LocalsTyped, Located
  <2> QED
    BY <2>1 DEF TypeOK, TasksTyped, BucketsTyped, LocalsTyped, RestTyped
<1> HIDE DEF IInv
<1> QED
  BY <1>1, <1>2, <1>3, PTL DEF Spec

-----------------------------------------------------------------------------
(* Every call ends: the steps that are left to it become fewer.            *)

\* How far a task is from its end: the stages that may follow the one it is in,
StagesLeft(t) ==
    CASE stage[t] = "state" -> 7
      [] stage[t] = "open" -> 6
      [] stage[t] \in {"admit", "canary"} -> 5
      [] stage[t] = "running" -> 4
      [] stage[t] = "succeed" -> 3
      [] stage[t] = "fail" -> 2
      [] stage[t] = "finally" -> 1
      [] stage[t] = "idle" -> 0

\* and the steps that may follow in that stage, of which there are fewer than StageSteps.
StageSteps == 2 * Retries + 6
StepsInStage(t) ==
    CASE step[t] = "find" -> 2 * (Retries - attempt[t]) + 5
      [] step[t] = "create" -> 2 * (Retries - attempt[t]) + 4
      [] step[t] = "act" -> 3
      [] step[t] \in {"count", "trip", "halfOpen"} -> 2
      [] step[t] = "undo" -> 1
      [] step[t] = "none" -> 0
StepsLeft(t) == StageSteps * StagesLeft(t) + StepsInStage(t)

\* A task that has begun comes closer to its end with each of its steps, and no step
\* of another task takes it further from it.
CallsShrink ==
    \A t \in Tasks :
        stage[t] # "idle" =>
            \/ UNCHANGED <<stage[t], step[t], attempt[t]>>
            \/ StepsLeft(t)' \in Nat /\ StepsLeft(t)' < StepsLeft(t)

\* getActiveBucket makes a bucket only with a retry left.
RetriesLeft ==
    \A t \in Tasks :
        /\ attempt[t] \in 0..Retries
        /\ step[t] = "create" => attempt[t] < Retries

\* The half-open check of a call is started when the state has been read.
ChecksFollow ==
    \A c \in Callers : stage[CallOf(c)] = "state" => stage[CheckOf(c)] = "idle"

SInv == TasksTyped /\ attempt \in [Tasks -> Nat] /\ RetriesLeft /\ ChecksFollow

LEMMA SInvInit == Init => SInv
<1> SUFFICES ASSUME Init
             PROVE  SInv
  OBVIOUS
<1> QED
  BY ConfigAssumption, CallTasks
     DEF Init, SInv, TasksTyped, Stages, Steps, RetriesLeft, ChecksFollow

LEMMA SInvStep == SInv /\ [Next]_vars => SInv'
<1> SUFFICES ASSUME SInv, [Next]_vars
             PROVE  SInv'
  OBVIOUS
<1> USE ConfigAssumption, CallTasks
<1>1. TasksTyped'
  BY TasksTypedStep DEF SInv
<1> USE DEF SInv, TasksTyped, RetriesLeft, ChecksFollow, Enter, Leave, Throw, Go, Stay
<1> DEFINE Rest == attempt' \in [Tasks -> Nat] /\ RetriesLeft' /\ ChecksFollow'
<1>2. CASE UNCHANGED control
  BY <1>2 DEF control
<1>3. ASSUME NEW c \in Callers, Invoke(c) \/ Settle(c) \/ GetState(c)
      PROVE  Rest
  <2>1. CASE Invoke(c) \/ Settle(c)
    BY <2>1 DEF Invoke, Settle
  <2>2. CASE GetState(c)
    <3>1. /\ stage[CallOf(c)] = "state" /\ stage[CheckOf(c)] = "idle"
          /\ stage'[CallOf(c)] \in {"admit", "open", "running"}
          /\ \A t \in Tasks : t \notin {CallOf(c), CheckOf(c)} => stage'[t] = stage[t]
      BY <2>2 DEF GetState
    <3>2. /\ attempt' \in [Tasks -> Nat]
          /\ \A t \in Tasks : attempt'[t] \in {attempt[t], 0}
          /\ \A t \in Tasks :
                step'[t] = "create" => step[t] = "create" /\ attempt'[t] = attempt[t]
      BY <2>2 DEF GetState
    <3>3. RetriesLeft'
      BY <3>2
    <3>4. ASSUME NEW d \in Callers, stage'[CallOf(d)] = "state"
          PROVE  stage'[CheckOf(d)] = "idle"
      <4>1. d # c /\ CallOf(d) # CallOf(c) /\ CheckOf(d) # CheckOf(c)
        BY <3>1, <3>4 DEF CheckOf
      <4>2. stage'[CallOf(d)] = stage[CallOf(d)] /\ stage'[CheckOf(d)] = stage[CheckOf(d)]
        BY <3>1, <4>1
      <4> QED
        BY <3>4, <4>2
    <3> QED
      BY <3>2, <3>3, <3>4
  <2> QED
    BY <1>3, <2>1, <2>2
<1>4. ASSUME NEW c \in Callers, Admit(c) \/ LookWhenOpen(c) \/ HalfOpen(c)
      PROVE  Rest
  BY <1>4 DEF Admit, LookWhenOpen, HalfOpen, At
<1>5. ASSUME NEW c \in Callers, OnSuccess(c) \/ OnError(c) \/ Trip(c) \/ Finally(c)
      PROVE  Rest
  BY <1>5 DEF OnSuccess, OnError, Trip, Finally, At
<1>6. ASSUME NEW t \in Tasks, FindBucket(t) \/ CreateBucket(t) \/ ConnectionLost(t)
      PROVE  Rest
  BY <1>6 DEF FindBucket, CreateBucket, ConnectionLost, BucketStages
<1>7. ASSUME NEW t \in Tasks, ReadCanary(t) \/ CountCanary(t) \/ RefuseCanary(t)
      PROVE  Rest
  BY <1>7 DEF ReadCanary, CountCanary, RefuseCanary, At
<1>8. ASSUME NEW t \in Tasks, CommandFails(t) \/ ReplyLost(t)
      PROVE  Rest
  <2>1. Throw(t)
    BY <1>8 DEF CommandFails, ReplyLost
  <2> QED
    BY <2>1
<1>9. ASSUME NEW i \in Instances, Crash(i)
      PROVE  Rest
  <2>1. /\ \A t \in Tasks : /\ stage'[t] \in {stage[t], "idle"}
                            /\ attempt'[t] \in {attempt[t], 0}
                            /\ step'[t] = "create" => step[t] = "create" /\ attempt'[t] = attempt[t]
        /\ attempt' \in [Tasks -> Nat]
    BY <1>9 DEF Crash
  <2>2. \A c \in Callers : stage'[CallOf(c)] = "state" => stage[CallOf(c)] = "state"
    BY <2>1
  <2> QED
    BY <2>1, <2>2
<1>10. Rest
  BY <1>2, <1>3, <1>4, <1>5, <1>6, <1>7, <1>8, <1>9
     DEF Next, vars, CallStep, TaskStep, CheckRegistry, RegisterCircuit, InitFails, Tick
<1> QED
  BY <1>1, <1>10

Bounded ==
    \A t \in Tasks : StagesLeft(t) \in 0..7 /\ StepsInStage(t) \in 0..(StageSteps - 1)

LEMMA SInvBounded == SInv => Bounded
BY ConfigAssumption
   DEF SInv, TasksTyped, RetriesLeft, Bounded, StagesLeft, StepsInStage, StageSteps, Stages,
       BucketStages, Steps

LEMMA SInvBoundedNext == SInv' => Bounded'
BY SInvBounded, PTL

\* A task goes on to another stage, or a step further in the same.
Descends(t) ==
    \/ UNCHANGED <<stage[t], step[t], attempt[t]>>
    \/ StagesLeft(t)' < StagesLeft(t)
    \/ StagesLeft(t)' = StagesLeft(t) /\ StepsInStage(t)' < StepsInStage(t)

LEMMA Descent ==
    ASSUME SInv, [Next]_vars, NEW t \in Tasks, stage[t] # "idle"
    PROVE  Descends(t)
<1> USE ConfigAssumption, CallTasks
    DEF SInv, TasksTyped, Enter, Leave, Throw, Go, Stay, Descends, At
<1>1. CASE UNCHANGED control
  BY <1>1 DEF control
<1>2. ASSUME NEW c \in Callers, Invoke(c) \/ Settle(c) \/ Admit(c)
      PROVE  Descends(t)
  BY <1>2 DEF Invoke, Settle, Admit, StagesLeft
<1>3. ASSUME NEW c \in Callers, GetState(c)
      PROVE  Descends(t)
  <2>1. stage[CallOf(c)] = "state" /\ stage[CheckOf(c)] = "idle"
    BY <1>3 DEF GetState, ChecksFollow
  <2>2. stage'[CallOf(c)] \in {"admit", "open", "running"}
    BY <1>3 DEF GetState
  <2>3. t \notin {CallOf(c), CheckOf(c)} => UNCHANGED <<stage[t], step[t], attempt[t]>>
    BY <1>3 DEF GetState
  <2> QED
    BY <2>1, <2>2, <2>3 DEF StagesLeft
<1>4. ASSUME NEW c \in Callers, LookWhenOpen(c) \/ HalfOpen(c)
      PROVE  Descends(t)
  BY <1>4 DEF LookWhenOpen, HalfOpen, StagesLeft, StepsInStage, RetriesLeft
<1>5. ASSUME NEW c \in Callers, OnSuccess(c) \/ OnError(c) \/ Trip(c) \/ Finally(c)
      PROVE  Descends(t)
  BY <1>5 DEF OnSuccess, OnError, Trip, Finally, StagesLeft, StepsInStage
<1>6. ASSUME NEW u \in Tasks, FindBucket(u) \/ CreateBucket(u) \/ ConnectionLost(u)
      PROVE  Descends(t)
  BY <1>6 DEF FindBucket, CreateBucket, ConnectionLost, StagesLeft, StepsInStage, RetriesLeft,
     BucketStages
<1>7. ASSUME NEW u \in Tasks, ReadCanary(u) \/ CountCanary(u) \/ RefuseCanary(u)
      PROVE  Descends(t)
  BY <1>7 DEF ReadCanary, CountCanary, RefuseCanary, StagesLeft, StepsInStage
<1>8. ASSUME NEW u \in Tasks, CommandFails(u) \/ ReplyLost(u)
      PROVE  Descends(t)
  <2>1. Throw(u) /\ stage[u] \notin {"idle", "running"}
    BY <1>8 DEF CommandFails, ReplyLost, BucketStages
  <2>2. u # t => UNCHANGED <<stage[t], step[t], attempt[t]>>
    BY <2>1
  <2>3. u = t => StagesLeft(t)' < StagesLeft(t)
    BY <2>1 DEF StagesLeft, Stages, BucketStages
  <2> QED
    BY <2>2, <2>3
<1>9. ASSUME NEW i \in Instances, Crash(i)
      PROVE  Descends(t)
  <2>1. UNCHANGED <<stage[t], step[t], attempt[t]>> \/ stage'[t] = "idle"
    BY <1>9 DEF Crash
  <2>2. stage'[t] = "idle" => StagesLeft(t)' < StagesLeft(t)
    BY DEF StagesLeft, Stages, BucketStages
  <2> QED
    BY <2>1, <2>2
<1> QED
  BY <1>1, <1>2, <1>3, <1>4, <1>5, <1>6, <1>7, <1>8, <1>9
     DEF Next, vars, CallStep, TaskStep, CheckRegistry, RegisterCircuit, InitFails, Tick

LEMMA Lexicographic ==
    ASSUME NEW w \in Nat, NEW r \in Nat, NEW s \in Nat, NEW i \in Nat, NEW j \in Nat,
           j < w, s < r \/ (s = r /\ j < i)
    PROVE  w * s + j \in Nat /\ w * s + j < w * r + i
<1>1. CASE s = r /\ j < i
  BY <1>1
<1>2. CASE s < r
  <2>1. w * (s + 1) <= w * r
    BY <1>2
  <2>2. w * (s + 1) = w * s + w
    OBVIOUS
  <2> QED
    BY <2>1, <2>2
<1> QED
  BY <1>1, <1>2

\* For any number of callers and retries, whatever fails and whoever interferes: a call
\* has at most 7 * StageSteps steps of its own.  With fairness, this is why CallEnds holds.
THEOREM CallsTakeFiniteSteps == Spec => [][CallsShrink]_vars
<1>1. ASSUME SInv, SInv', [Next]_vars
      PROVE  CallsShrink
  <2>1. ASSUME NEW t \in Tasks, stage[t] # "idle", ~ UNCHANGED <<stage[t], step[t], attempt[t]>>
        PROVE  StepsLeft(t)' \in Nat /\ StepsLeft(t)' < StepsLeft(t)
    <3>1. /\ StagesLeft(t) \in Nat /\ StepsInStage(t) \in Nat
          /\ StagesLeft(t)' \in Nat /\ StepsInStage(t)' \in 0..(StageSteps - 1)
          /\ StageSteps \in Nat
      BY <1>1, SInvBounded, SInvBoundedNext, ConfigAssumption DEF Bounded, StageSteps
    <3>2. \/ StagesLeft(t)' < StagesLeft(t)
          \/ StagesLeft(t)' = StagesLeft(t) /\ StepsInStage(t)' < StepsInStage(t)
      BY <1>1, <2>1, Descent DEF Descends
    <3>3. /\ StepsInStage(t)' \in Nat /\ StepsInStage(t)' < StageSteps
      BY <3>1
    <3>4. StageSteps * StagesLeft(t)' + StepsInStage(t)' \in Nat
          /\ StageSteps * StagesLeft(t)' + StepsInStage(t)'
               < StageSteps * StagesLeft(t) + StepsInStage(t)
      BY <3>1, <3>2, <3>3, Lexicographic
    <3> QED
      BY <3>4 DEF StepsLeft, StageSteps
  <2> QED
    BY <2>1 DEF CallsShrink
<1>2. SInv /\ [Next]_vars => [CallsShrink]_vars
  BY <1>1, SInvStep
<1> QED
  BY <1>2, SInvInit, SInvStep, PTL DEF Spec
=============================================================================
