--------------------------- MODULE CircuitBreaker ---------------------------
(***************************************************************************)
(* One circuit of the circuit breaker decorator                            *)
(* (packages/circuit-breaker/lib/circuit-breaker.ts), kept in Redis and    *)
(* used by the callers of several instances (processes).                   *)
(*                                                                         *)
(* A call is split at its awaits: between two steps of a task anyone else  *)
(* may run.  A command and the clock it carries are one step; so is a      *)
(* MULTI.  Each caller has two tasks: its call, and the half-open check    *)
(* (onHalfOpen) that the call starts without waiting for it.  A command    *)
(* may fail, executed or not, and a process may die and start again.       *)
(*                                                                         *)
(* Left out: the events emitted, and the `rejection` and `state` fields of *)
(* a bucket, which nothing reads.                                          *)
(***************************************************************************)
EXTENDS Integers, Sequences, FiniteSets

CONSTANTS
    Callers,          \* sources of calls; each makes one call at a time
    Instances, Home,  \* Home[c]: the process, with its own CircuitBreaker object
    Strategy,         \* "volume" or "percentage"
    Threshold,        \* config.threshold: failures, or per cent of the calls
    MinimumFailures,  \* config.minimumFailures
    Interval,         \* config.interval
    Retries,          \* config.circuitConnectionRetries
    HalfOpenLimit,    \* config.halfOpenLimit
    MaxNow,           \* bound: the clock stops there
    MaxEvents,        \* bound: calls, failing commands and crashes in all
    MaxBuckets        \* bound: buckets created in all

ASSUME HomeAssumption == Home \in [Callers -> Instances]
ASSUME ConfigAssumption ==
    /\ Strategy \in {"volume", "percentage"}
    /\ {Threshold, MinimumFailures, Interval, HalfOpenLimit, MaxNow, MaxEvents} \subseteq Nat
    /\ Retries \in Nat /\ MaxBuckets \in Nat

VARIABLES
    now,       \* Date.now()
    registry,  \* the circuit's score in the registry `r4t-circuits`
    buckets,   \* the buckets in order of creation: their hash, and the score
               \* `born` they have in the circuit's time series
    init,      \* how far CircuitBreaker.init has come in each instance;
               \* where it has failed, every call rejects at once
    stage,     \* what each task is doing
    step,      \* and how far it has come in it
    bucket,    \* `activeBucket`, an index into buckets (0: none)
    attempt,   \* `attempt` of getActiveBucket
    lastFailure,  \* what onHalfOpen has read of its bucket
    events,    \* calls and faults so far
    inside     \* history: callers whose present call was under way when the
               \* circuit last became open

control == <<stage, step, bucket, attempt, lastFailure>>
vars == <<now, registry, buckets, init, control, events, inside>>

-----------------------------------------------------------------------------
States == {"Closed", "HalfOpen", "Open"}
Unregistered == "none"

Tasks == Callers \X {"call", "check"}
CallOf(c) == <<c, "call">>
CheckOf(c) == <<c, "check">>

\* The stages that begin with getActiveBucket: onClosed, onHalfOpen, onSuccess,
\* onError and the finally block.
BucketStages == {"admit", "canary", "succeed", "fail", "finally"}
Stages == BucketStages \cup {"idle", "state", "open", "running"}
Steps == {"find", "create", "act", "count", "undo", "trip", "halfOpen", "none"}

\* Date.now() is always more than an interval past the epoch.
Start == Interval + 1

At(t, s, p) == stage[t] = s /\ step[t] = p

Go(t, s, p) ==
    /\ stage' = [stage EXCEPT ![t] = s]
    /\ step' = [step EXCEPT ![t] = p]

Stay(t, p) == step' = [step EXCEPT ![t] = p] /\ UNCHANGED <<stage, bucket, attempt, lastFailure>>

\* Task t leaves what it was doing for a stage s: its locals are new.
Enter(t, s, p) ==
    /\ Go(t, s, p)
    /\ bucket' = [bucket EXCEPT ![t] = 0]
    /\ attempt' = [attempt EXCEPT ![t] = 0]
    /\ lastFailure' = [lastFailure EXCEPT ![t] = 0]

Leave(t) == Enter(t, "idle", "none")

\* getTimeseriesData: the youngest bucket born within the interval.  Buckets of
\* the same millisecond are ordered by their random ids.
InInterval(b) == buckets[b].born >= now - Interval /\ buckets[b].born <= now
Active ==
    {b \in DOMAIN buckets : InInterval(b) /\
        \A d \in DOMAIN buckets : InInterval(d) => buckets[d].born <= buckets[b].born}

NewBucket == [born |-> now, inFlight |-> 0, success |-> 0, failure |-> 0, lastFailure |-> 0]

\* Variant of Count: the wrong field of the bucket.
CountMutant(b, n) == buckets' = [buckets EXCEPT ![b].failure = @ + n]

\* hIncrBy inFlight
Count(b, n) == buckets' = [buckets EXCEPT ![b].inFlight = @ + n]

\* onSuccess: one MULTI counts a success and closes the circuit.
CountSuccess(t) ==
    /\ buckets' = [buckets EXCEPT ![bucket[t]].success = @ + 1]
    /\ registry' = "Closed"
    /\ UNCHANGED inside

\* onError: one MULTI counts a failure (and reads the bucket back).
CountFailure(t) ==
    /\ buckets' = [buckets EXCEPT ![bucket[t]].failure = @ + 1, ![bucket[t]].lastFailure = now]
    /\ UNCHANGED <<registry, inside>>

\* onError: the circuit opens.
Open ==
    /\ registry' = "Open"
    /\ inside' = IF registry = "Open" THEN inside
                 ELSE {c \in Callers : stage[CallOf(c)] # "idle"}
    /\ UNCHANGED buckets

\* onExpired
AddBucket ==
    /\ Len(buckets) < MaxBuckets
    /\ buckets' = Append(buckets, NewBucket)
    /\ UNCHANGED inside

\* Variant of Exceeded: minimumFailures is forgotten.
ExceededMutant(b) == 100 * b.failure >= Threshold * (b.failure + b.success)

\* BaseStrategy.isThresholdExceeded on the counts of a bucket.
Exceeded(b) ==
    /\ b.failure >= MinimumFailures
    /\ IF Strategy = "volume" THEN b.failure >= Threshold
       ELSE 100 * b.failure >= Threshold * (b.failure + b.success)

\* BaseStrategy.allowCanary
AllowCanary(inFlight, failedAt) ==
    HalfOpenLimit >= inFlight \/ now - Interval > failedAt

-----------------------------------------------------------------------------
Init ==
    /\ now = Start
    /\ registry = Unregistered
    /\ buckets = <<>>
    /\ init = [i \in Instances |-> "new"]
    /\ stage = [t \in Tasks |-> "idle"]
    /\ step = [t \in Tasks |-> "none"]
    /\ bucket = [t \in Tasks |-> 0]
    /\ attempt = [t \in Tasks |-> 0]
    /\ lastFailure = [t \in Tasks |-> 0]
    /\ events = 0
    /\ inside = {}

Event == events < MaxEvents /\ events' = events + 1

\* CircuitBreaker.init: `!registered` also holds for the score 0 of Closed.
CheckRegistry(i) ==
    /\ init[i] = "new"
    /\ init' = [init EXCEPT ![i] =
                  IF registry \in {Unregistered, "Closed"} THEN "register" ELSE "ready"]
    /\ UNCHANGED <<now, registry, buckets, control, events, inside>>

\* registerCircuit: closed, with a new bucket.
RegisterCircuit(i) ==
    /\ init[i] = "register"
    /\ AddBucket /\ registry' = "Closed"
    /\ init' = [init EXCEPT ![i] = "ready"]
    /\ UNCHANGED <<now, control, events>>

\* A command of init rejects, executed or not; `initialized` is never made again.
InitFails(i) ==
    /\ Event
    /\ init[i] \in {"new", "register"}
    /\ init' = [init EXCEPT ![i] = "failed"]
    /\ \/ UNCHANGED <<registry, buckets, inside>>
       \/ init[i] = "register" /\ AddBucket /\ registry' = "Closed"
    /\ UNCHANGED <<now, control>>

\* The decorated function is called.
Invoke(c) ==
    /\ stage[CallOf(c)] = "idle" /\ stage[CheckOf(c)] = "idle"
    /\ init[Home[c]] = "ready"
    /\ Event
    /\ inside' = inside \ {c}
    /\ Enter(CallOf(c), "state", "none")
    /\ UNCHANGED <<now, registry, buckets, init>>

\* Variant of GetState: the promise of onOpen is dropped too.
GetStateMutant(c) ==
    /\ stage[CallOf(c)] = "state"
    /\ IF registry = "Closed" THEN Enter(CallOf(c), "admit", "find")
       ELSE Enter(CallOf(c), "running", "none")
    /\ UNCHANGED <<now, registry, buckets, init, events, inside>>

\* getCircuitState.  A half-open circuit lets the call go on at once: the
\* promise of onHalfOpen is dropped.
GetState(c) ==
    /\ stage[CallOf(c)] = "state"
    /\ \/ registry = "Closed" /\ Enter(CallOf(c), "admit", "find")
       \/ registry = "Open" /\ Enter(CallOf(c), "open", "find")
       \/ /\ registry = "HalfOpen"
          /\ stage' = [stage EXCEPT ![CallOf(c)] = "running", ![CheckOf(c)] = "canary"]
          /\ step' = [step EXCEPT ![CheckOf(c)] = "find"]
          /\ UNCHANGED <<bucket, attempt, lastFailure>>
    /\ UNCHANGED <<now, registry, buckets, init, events, inside>>

\* getActiveBucket finds a bucket of this interval, or goes to make one.
FindBucket(t) ==
    /\ stage[t] \in BucketStages /\ step[t] = "find" /\ attempt[t] < Retries
    /\ \/ /\ Active = {}
          /\ Stay(t, "create")
       \/ \E b \in Active :
             /\ bucket' = [bucket EXCEPT ![t] = b]
             /\ step' = [step EXCEPT ![t] = "act"]
             /\ UNCHANGED <<stage, attempt, lastFailure>>
    /\ UNCHANGED <<now, registry, buckets, init, events, inside>>

\* Variant of CreateBucket: onExpired forgets the time series, and the attempts
\* are not counted.
CreateBucketMutant(t) ==
    /\ stage[t] \in BucketStages /\ step[t] = "create"
    /\ Stay(t, "find")
    /\ UNCHANGED <<now, registry, buckets, init, events, inside>>

\* onExpired
CreateBucket(t) ==
    /\ stage[t] \in BucketStages /\ step[t] = "create"
    /\ AddBucket
    /\ attempt' = [attempt EXCEPT ![t] = @ + 1]
    /\ step' = [step EXCEPT ![t] = "find"]
    /\ UNCHANGED <<now, registry, init, stage, bucket, lastFailure, events>>

\* An exception: thrown out of onSuccess it is handled as an error of the call, out
\* of onError it still reaches the finally block, and out of the others it ends
\* the task.
Throw(t) ==
    CASE stage[t] = "succeed" -> Enter(t, "fail", "find")
      [] stage[t] = "fail" -> Enter(t, "finally", "find")
      [] OTHER -> Leave(t)

\* CircuitConnectionLost
ConnectionLost(t) ==
    /\ stage[t] \in BucketStages /\ step[t] = "find" /\ attempt[t] >= Retries
    /\ Throw(t)
    /\ UNCHANGED <<now, registry, buckets, init, events, inside>>

\* onClosed
Admit(c) ==
    LET t == CallOf(c)
    IN  /\ At(t, "admit", "act")
        /\ Count(bucket[t], 1)
        /\ Enter(t, "running", "none")
        /\ UNCHANGED <<now, registry, init, events, inside>>

\* onOpen: a bucket of this interval shuts the call out.
LookWhenOpen(c) ==
    LET t == CallOf(c)
    IN  /\ At(t, "open", "find")
        /\ \/ Active # {} /\ Leave(t)
           \/ Active = {} /\ Stay(t, "halfOpen")
        /\ UNCHANGED <<now, registry, buckets, init, events, inside>>

\* onOpen, otherwise: half-open, and the call waits for its check.
HalfOpen(c) ==
    LET t == CallOf(c)
    IN  /\ At(t, "open", "halfOpen")
        /\ registry' = "HalfOpen"
        /\ Enter(t, "canary", "find")
        /\ UNCHANGED <<now, buckets, init, events, inside>>

\* onHalfOpen reads the bucket (hGetAll); of it, lastFailure is used later.
ReadCanary(t) ==
    /\ At(t, "canary", "act")
    /\ lastFailure' = [lastFailure EXCEPT ![t] = buckets[bucket[t]].lastFailure]
    /\ Go(t, "canary", "count")
    /\ UNCHANGED <<now, registry, buckets, init, bucket, attempt, events, inside>>

\* incrementCounter, and the verdict on its reply.
CountCanary(t) ==
    LET b == bucket[t]
    IN  /\ At(t, "canary", "count")
        /\ Count(b, 1)
        /\ IF AllowCanary(buckets[b].inFlight + 1, lastFailure[t])
           THEN IF t[2] = "call" THEN Enter(t, "running", "none") ELSE Leave(t)
           ELSE Stay(t, "undo")
        /\ UNCHANGED <<now, registry, init, events, inside>>

\* A refused check takes its count back and throws: that ends a call that waits
\* for it, and is an unhandled rejection otherwise.
RefuseCanary(t) ==
    /\ At(t, "canary", "undo")
    /\ Count(bucket[t], -1)
    /\ Leave(t)
    /\ UNCHANGED <<now, registry, init, events, inside>>

\* The decorated function resolves or rejects.
Settle(c) ==
    LET t == CallOf(c)
    IN  /\ stage[t] = "running"
        /\ \E s \in {"succeed", "fail"} : Enter(t, s, "find")
        /\ UNCHANGED <<now, registry, buckets, init, events, inside>>

OnSuccess(c) ==
    LET t == CallOf(c)
    IN  /\ At(t, "succeed", "act")
        /\ CountSuccess(t)
        /\ Enter(t, "finally", "find")
        /\ UNCHANGED <<now, init, events>>

OnError(c) ==
    LET t == CallOf(c)
    IN  /\ At(t, "fail", "act")
        /\ CountFailure(t)
        /\ IF Exceeded(buckets'[bucket[t]]) THEN Stay(t, "trip") ELSE Enter(t, "finally", "find")
        /\ UNCHANGED <<now, init, events>>

\* onError, above the threshold.
Trip(c) ==
    LET t == CallOf(c)
    IN  /\ At(t, "fail", "trip")
        /\ Open
        /\ Enter(t, "finally", "find")
        /\ UNCHANGED <<now, init, events>>

\* The finally block: whatever bucket is active by now loses the count.
Finally(c) ==
    LET t == CallOf(c)
    IN  /\ At(t, "finally", "act")
        /\ Count(bucket[t], -1)
        /\ Leave(t)
        /\ UNCHANGED <<now, registry, init, events, inside>>

\* A command of task t rejects and has not been executed.
CommandFails(t) ==
    /\ Event
    /\ stage[t] \notin {"idle", "running"}
    /\ Throw(t)
    /\ UNCHANGED <<now, registry, buckets, init, inside>>

\* A command of task t rejects although it was executed.
ReplyLost(t) ==
    /\ Event
    /\ \/ At(t, "admit", "act") /\ Count(bucket[t], 1) /\ UNCHANGED <<registry, inside>>
       \/ At(t, "canary", "count") /\ Count(bucket[t], 1) /\ UNCHANGED <<registry, inside>>
       \/ At(t, "finally", "act") /\ Count(bucket[t], -1) /\ UNCHANGED <<registry, inside>>
       \/ At(t, "succeed", "act") /\ CountSuccess(t)
       \/ At(t, "fail", "act") /\ CountFailure(t)
       \/ At(t, "fail", "trip") /\ Open
       \/ At(t, "open", "halfOpen") /\ registry' = "HalfOpen" /\ UNCHANGED <<buckets, inside>>
       \/ stage[t] \in BucketStages /\ step[t] = "create" /\ AddBucket /\ UNCHANGED registry
    /\ Throw(t)
    /\ UNCHANGED <<now, init>>

\* Process i dies, and a new one takes its place.
Crash(i) ==
    LET all == {t \in Tasks : Home[t[1]] = i}
    IN  /\ Event
        /\ init' = [init EXCEPT ![i] = "new"]
        /\ stage' = [t \in Tasks |-> IF t \in all THEN "idle" ELSE stage[t]]
        /\ step' = [t \in Tasks |-> IF t \in all THEN "none" ELSE step[t]]
        /\ bucket' = [t \in Tasks |-> IF t \in all THEN 0 ELSE bucket[t]]
        /\ attempt' = [t \in Tasks |-> IF t \in all THEN 0 ELSE attempt[t]]
        /\ lastFailure' = [t \in Tasks |-> IF t \in all THEN 0 ELSE lastFailure[t]]
        /\ UNCHANGED <<now, registry, buckets, inside>>

Tick ==
    /\ now < MaxNow
    /\ now' = now + 1
    /\ UNCHANGED <<registry, buckets, init, control, events, inside>>

\* What the runtime and Redis owe a task that has begun.
TaskStep(t) ==
    \/ FindBucket(t) \/ CreateBucket(t) \/ ConnectionLost(t)
    \/ ReadCanary(t) \/ CountCanary(t) \/ RefuseCanary(t)

CallStep(c) ==
    \/ GetState(c) \/ Admit(c) \/ LookWhenOpen(c) \/ HalfOpen(c)
    \/ OnSuccess(c) \/ OnError(c) \/ Trip(c) \/ Finally(c)

Next ==
    \/ \E i \in Instances : CheckRegistry(i) \/ RegisterCircuit(i) \/ InitFails(i) \/ Crash(i)
    \/ \E c \in Callers : Invoke(c) \/ CallStep(c) \/ Settle(c)
    \/ \E t \in Tasks : TaskStep(t) \/ CommandFails(t) \/ ReplyLost(t)
    \/ Tick

\* The decorated function is assumed to settle; calls and the clock owe nothing.
Fairness ==
    /\ \A c \in Callers : WF_vars(CallStep(c)) /\ WF_vars(Settle(c))
    /\ \A t \in Tasks : WF_vars(TaskStep(t))

Spec == Init /\ [][Next]_vars
FairSpec == Spec /\ Fairness

-----------------------------------------------------------------------------
Bucket == [born : Nat, inFlight : Int, success : Nat, failure : Nat, lastFailure : Nat]

\* The type of every variable of the circuit and of its tasks.
TypeOK ==
    /\ now \in Nat
    /\ registry \in States \cup {Unregistered}
    /\ buckets \in Seq(Bucket)
    /\ init \in [Instances -> {"new", "register", "ready", "failed"}]
    /\ stage \in [Tasks -> Stages]
    /\ step \in [Tasks -> Steps]
    /\ bucket \in [Tasks -> 0 .. Len(buckets)]
    /\ attempt \in [Tasks -> Nat] /\ lastFailure \in [Tasks -> Nat]
    /\ events \in Nat
    /\ inside \in SUBSET Callers

Running(c) == stage[CallOf(c)] = "running"

\* An open circuit shuts new calls out: every decorated function that runs while
\* it is open was called before it opened, however stale the state its call had
\* read (getCircuitState and the awaits that follow it).
OpenShutsOut ==
    registry = "Open" => \A c \in Callers : Running(c) => c \in inside

\* The circuit is open only because some bucket has counted minimumFailures
\* failures (onError), whoever counted them and whatever came in between.
OpenMeansMinimum ==
    registry = "Open" => \E b \in DOMAIN buckets : buckets[b].failure >= MinimumFailures

\* Every call comes to an end, whatever the circuit does meanwhile: the retries
\* of getActiveBucket are bounded.
CallEnds == \A c \in Callers : stage[CallOf(c)] # "idle" ~> stage[CallOf(c)] = "idle"

\* "In the HALF_OPEN state, the circuit breaker will allow a configurable number
\* of executions of the decorated function" (circuit-breaker.md:7).  onHalfOpen
\* is not awaited, so its verdict comes too late.
HalfOpenLimited ==
    registry = "HalfOpen" => Cardinality({c \in Callers : Running(c)}) <= HalfOpenLimit

\* A circuit leaves OPEN for HALF_OPEN (circuit-breaker.md:7).  A call that was
\* let in earlier and succeeds late closes it at once.
OpenBecomesHalfOpen ==
    [][registry = "Open" => registry' \in {"Open", "HalfOpen"}]_vars
=============================================================================
