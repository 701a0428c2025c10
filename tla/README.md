# resilience4ts in TLA+

A verification project for resilience4ts, a TypeScript library of resilience
decorators (bulkhead, circuit breaker, lock, queue, ...) most of which keep
their state in Redis, so that all processes of an application share it. The
interesting behaviour is that of several calls, in several processes, whose
Redis commands interleave; it is what the modules here describe, at the grain of
the code's awaits.

Paths below are relative to `src/packages/<package>/lib` unless they say
otherwise.

## 1. The system

Every decorator is a class with `of(name, config)`, an asynchronous `init` that a
call awaits first, and `on(fn)` / `onBound(fn, self)`, which return the decorated
function and differ only in how they call `fn`. All of them reach Redis through
one client per process (`core`), which sends commands over one connection in
order. Redis executes a command, or a MULTI/EXEC batch, in one step;
`execAsPipeline` sends commands that others may interleave with.

| Component | State | Operations | Hard behaviour | What makes it correct |
|---|---|---|---|---|
| **bulkhead** (`bulkhead.ts`, `internal/bulkhead-strategy.ts`) | two sorted sets and a counter per semaphore; the deadline of each waiting call | acquireSemaphore, releaseSemaphore, tryEnterBulkhead, on | batches of several processes interleave; permits expire under a running call; lost batches; crashes leak permits | capacity; a running call keeps its permit; a call is decided by its deadline |
| **circuit-breaker** (`circuit-breaker.ts`, `internal/circuit-breaker-strategy.ts`) | the circuit's state in a registry; a time series of buckets with counters | init, getCircuitState, onClosed, onHalfOpen, onOpen, onSuccess, onError, getActiveBucket | state read before awaits and used after; an un-awaited check; buckets that expire between two steps; late completions | an open circuit shuts calls out; it opens only on enough failures; calls end |
| **concurrent-lock** (`concurrent-lock.ts`) | one expiring record per key; a heartbeat timer per call | SET NX PX, EXPIRE by timer, DEL | expiry under a running call; late heartbeats; unconditional DEL; crashes, lost replies | mutual exclusion; the record goes away |
| **concurrent-queue** (`concurrent-queue.ts`) | a sorted set of waiting calls per key | zAdd, acquireLock, zRem | entries that arrive out of order; cleanups from stale reads; expiring entries; crashes | mutual exclusion in order of arrival; a live entry stays |
| **rate-limiter** (`rate-limiter.ts`, `internal/rate-limiter-strategy.ts`) | the bulkhead's sets, kept for a window instead of released | getRateWindow, guard | as the bulkhead; rejected calls are counted for a moment | at most permitLimit calls per window |
| **retry** (`retry.ts`, `backoff.ts`) | a bucket in Redis per window with the retry budget | getActiveBucket, incrementRetryCount, on, Backoff.wait | check-then-reset of the bucket by several processes; buckets that expire between two steps; bounds on waits | the budget of a window is kept; a call ends with all its attempts |
| **hedge** (`hedge.ts`, `internal/hedge-executor.ts`) | one AbortController per object; a timer per call | schedule, cancel, on | primary and hedge race; the abort outlives its call | the outcome is that of a function of the call; no hedge after a success |
| **timeout** (`timeout.ts`) | a timer per call | on | function and timer race | the first to settle decides |
| **fallback** (`fallback.ts`) | none | on | which errors it takes | an error it names gives the fallback's value |
| **cache**, **cache-buster** (`cache.ts`, `cache-buster.ts`) | expiring keys | get, set, del | a set that follows a bust | a value is no older than its key's last bust |
| **request-scoped cache** (`request-scoped-cache.ts`, `internal/`) | a WeakMap of scopes, or a hash per scope | on, get, set, del | one call clears the scope others use | an entry ends with its scope |
| **safe promise** (core `util/safe-promise.ts`) | contenders of unfinished races, in a WeakMap | race, cancel | shared contenders | one outcome per race, no leak |
| **provider** (core `resilience-provider.service.ts`, `cache/cache.service.ts`) | a singleton and a module-level client | forRoot, start, stop | stop and restart | a started provider has a connected client |
| **resilience pipe** (all `resilience-pipe.ts`) | the list of decorators of a builder | with..., build, execute | the order of nesting; what a timeout gives up goes on | an outer decorator deals with the errors of the inner ones; a timeout ends the call |
| **nestjs** (`decorators/`, `resilience.module.ts`) | none | method decorators | none of its own | it calls `onBound` |

The decorators interact in two ways: through nesting (the decorated function of
one is the call of another; the pipe builds such nests), and through Redis
(objects of the same name or key in several processes). The modules below treat
the decorated function as something that settles at any time with any outcome,
so they hold for every nest.

## 2. Plan

The modules, in the order they were written, the most important behaviour (mutual
exclusion and the capacity of what is shared) first:

1. `Bulkhead`, with its abstract specification `Permits` and the refinement;
   proofs of the capacity and of the refinement.
2. `CircuitBreaker`; proofs about the open state.
3. `ConcurrentLock`; proofs of exclusion while nobody overruns.
4. `ConcurrentQueue`; proofs of exclusion among the calls of a process.
5. `RateLimiter`, whose batches resemble the bulkhead's, with a release by time
   only; `Permits` is its abstract specification too. Proofs of the limit, of the
   refinement and of what a refusal means.
6. `Retry`: the loop with its outcomes, the budget that processes share, the waits;
   proofs about the budget.
7. `SafePromise`, shown to implement the abstract race `Race`, on which `Hedge` is
   built; proofs about the outcomes of `Hedge`.
8. `Cache`: the cache, its buster and the request-scoped cache; proofs about stale
   values.
9. `Provider`, and `Pipe`, which composes it with the timeout, the retry and the
   fallback in any order.

10. Proofs about `SafePromise` (its invariants, and that it implements `Race`), about
    `Pipe`, and about the steps that are left to a call of the breaker and of the retry.

What is left: a pipe that contains the limiters (a retried call takes a permit
for each attempt, a timed-out one keeps its permit until the function ends);
progress of the queue and of the bulkhead's waiters under fairness; proofs that the
calls of the queue and of the pipe take finitely many steps. The number of runs is kept small: the runs of a component are merged where
one instance can answer for both, and a disagreement that is plain in the source
has no run of its own and stays in the list below.

## 3. Modules

| Module | Role |
|---|---|
| `Permits` | abstract concurrency limiter: clients in groups, a limit per group |
| `Bulkhead` | the bulkhead; implements `Permits` |
| `CircuitBreaker` | one circuit and its callers |
| `ConcurrentLock` | one lock key and its callers |
| `ConcurrentQueue` | one queue and its callers |
| `RateLimiter` | the window of one limiter and its callers; implements `Permits` |
| `Retry` | the loop of the retry, its waits and the shared budget |
| `Race` | abstract race of promises: decided once, and if a contender settles |
| `SafePromise` | SafePromise.race and cancel at the grain of jobs; implements `Race` |
| `Hedge` | the calls of one Hedge object, built on the races of `Race` |
| `Cache` | one entry of a cache, its readers and its busters, for all kinds of cache |
| `Provider` | the provider singleton and the client of its module |
| `Pipe` | timeout, retry and fallback nested in any order, over `Provider` |
| `RaceProofs` | the theorems about `SafePromise` and `Hedge`, and their lemmas |
| `PipelineProofs` | the theorems about `Retry` and `Pipe`, and their lemmas |
| `*Proofs` | the theorems about the module so named, and their lemmas |
| `MC*` | small instances for TLC; the `.cfg` files give the constants |

Definitions named `...Mutant` are variants of the definition that follows them
(a dropped guard, a swapped operand). No specification uses them: substituted for
the original, each makes the property it belongs to fail, which shows that the
property depends on that piece of code.

### Bulkhead

A caller is one invocation of a decorated function. `pc` follows it through
`tryEnterBulkhead` ("trying" is the head of the loop), `acquireSemaphore`
("drawing": the MULTI is sent; "placing" to "ranking": the pipeline of zAdd, zAdd,
zCard, zRank; "withdrawing...": the two zRem of a caller that is turned away),
the function ("running") and `releaseSemaphore`. A MULTI is one step (`Draw`),
each command of a pipeline its own. A sorted set is a function from ids to
scores. Both strategies are covered: `Distributed` selects one semaphore for all,
otherwise each instance has its own.

A connection is first in, first out: batches of one instance do not interleave
(`Turn`) and tickets are placed in the order they were drawn (`InOrder`). Batches
of different instances interleave freely. node-redis never empties the queue of
a `multi()` object, so later batches of an attempt repeat its earlier commands;
the repetitions only evict again with the same bound, draw tickets nobody uses,
and put back for a moment entries that the same batch removes; they are left out. So are events, and `init`, which only registers a name.
`ConnectionError` may strike at any await, whether or not Redis has executed the
command: since it is an action of its own, it follows or precedes the step that
executes it.

Within the limits of the window: a permit older than `maxWait +
executionTimeout` is evicted by the next caller, by design, while its function may
still run. `Fresh` names the callers that are inside it, and the properties speak
of those.

### CircuitBreaker

`registry` is the circuit's score in the registry, `buckets` the hashes of its
time series in order of creation. Every caller has two tasks: its call, and the
half-open check that `on` starts without awaiting it. `stage` is the handler a
task is in and `step` how far it is: "find" and "create" are getActiveBucket, the
others the commands of the handler itself. A call that found Closed, HalfOpen or
Open goes to "admit" (onClosed), to "running" with a check beside it
(onHalfOpen), or to "open" (onOpen, whose half-open check is awaited, so the call
itself goes through the stage "canary"). After the function: "succeed", "fail",
"finally". Exceptions follow the code's try, catch and finally: a lost circuit in
onSuccess leads to onError, one in onError to the finally block.

The threshold of the percentage strategy is given in per cent and compared
without division. `inside` is a history variable: the callers whose present call
had begun when the circuit last became open. Times start one interval past zero,
as Date.now() is far from the epoch, on which the test `now - interval >
lastFailure` of a bucket without failures depends. `CommandFails` rejects any
command a task waits for, `ReplyLost` does so although Redis has executed it
(`Throw` is where the exception leads), `InitFails` spoils a process for good, and
`Crash` replaces it by a new one. Left out: events, the fields `rejection` and
`state`, which nothing reads, and the whitelist, which nothing reads either.

### ConcurrentLock

Each call is a process of its own. SET is executed some time after the call
(`Take`, `Refuse`), its reply arrives later still (`Begin`), the heartbeat fires
on time or late (`Heartbeat`), DEL comes after the function settled (`Release`).
`Tick` moves the clock and expires the record. EXPIRE is modelled as the code calls
it: with a time in milliseconds since the epoch where Redis expects seconds
(`Expiry`). `lock.by`, `lock.extended`, `since` and `overrun` are history.
Redis accepts any positive PX, so `Duration` is at least 1.

### ConcurrentQueue

Callers are natural numbers that stand for their uuids, whose order decides
between equal scores. The score is computed by `Call` and arrives with `Add`; one
turn of the loop is `Attempt` (or `GiveUp`), `Read`, and `Retry` or `Admit`
followed by `Clean`. `view` is what acquireLock has read, later reduced to the
expired part. Commands of one connection keep their order (`InOrder`), except
that within one millisecond the model leaves the order of two calls open, because
`setTimeout(0)` may end in the millisecond it began. All calls use one
configuration, as they do when they share a decorator. `Limit` stands for the 20
entries acquireLock reads.

### RateLimiter

A caller is one invocation and stands for the uuid it draws, so ids never clash.
Both scopes call `getRateWindow` with a key made of the limiter's name (and, in the
instance scope, of the request's identifier) in the Redis all instances share; a
model is one such key. Unlike the bulkhead's, its first batch is a pipeline too, so
`Evict`, `Intersect` and `Draw` are steps of their own; the second is `PlaceKey`,
`PlaceOwner`, `Rank`; the third, of a call that is turned away, `WithdrawKey` and
`WithdrawOwner`. There is no loop and no release: an error refuses the call
(`ConnectionError`), an admitted call ends the model's interest in it, and its entries
stay until their window is over. The commands that a `multi()` object repeats are
left out as in the bulkhead. `stamp` is the time a call began, `Fresh` says that
its window is not over, and `abreast` is history: who was asking when it began.
`ImplementsPermits` says that for the callers of an instance, admission is the
abstract limiter's grant, and the end of the window its release.

### Retry

A caller is one invocation: `Try` is the head of the loop, `Exists`, `Reset`,
`Expire` and `CountAttempt` the commands of `incrementRetryCount`, `Succeed`, `Fail`
and `ListenerThrows` the outcomes of the function with what follows them. `bucket[w]`
is the count of window w. Commands of one process are executed in the order they
were sent (`ahead`). EXPIRE takes seconds, and the code passes `windowSize`, which it
uses in milliseconds before, hence the constant `Second`; a time to live of 0 deletes
the key. `Waits` and `Valid` are the computed wait and the check `Backoff.wait` makes
of it; the sleep itself may take any time. `until` has no action: its verdict changes
nothing, its exception is a failure. `permitted`, `lost`, `within` and `expired` are
history. `init` writes names and an empty bucket that nothing reads.

### Race, SafePromise and Hedge

`Race` says what its users rely on: a race is decided once, by a contender that has
settled or was cancelled, and it is decided if one of them settles.

`SafePromise` runs the code between two awaits as one step and queues what follows an
await as a job. `record` and `races` are raceMap; the first pass over the contenders
is `Pass`, which stops at an unknown contender for `await null` (`Register`,
`Check`), the second is `Link`. `Tell` is what follows `await contender` in
addRaceContender, `Resume` the rest of race with its finally block. A job of the
runtime that only passes a settled promise on is left out, and so are contenders that
are no promises. `order` and `before` are history.

`Hedge` has two races per call: that of the call, between the primary and the future,
and that of its pool. `TimerFires` may only happen when no continuation is left to
run (`Quiet`), since microtasks precede timers. `CancelTimers` aborts the controller of
the object: the pending timers of all its calls reject, and those of later calls at once.
The events and the options nothing reads are left out.

### Cache

A value is the version of the data it was computed from; one entry is modelled, since
keys do not interact. `config` selects the cache proper (a key with PX), the
distributed request-scoped cache (a field of a hash, whose finally block may delete
the scope) or the local one (a Map, which neither fails nor expires). A reader is
"getting", "computing", "storing" and, if the scope is cleared, "clearing"; a buster
changes the data, and deletes the key if its options say so. `floor`, `overtaken` and
`storer` are history. The guard of `Set` on the clock keeps `expires` in range.

### Provider and Pipe

`Provider` is the static instance with its `initialized` promise, and the client that
the module of the cache service keeps: after `stop` the client is closed and stays, so
that a provider made later is initialized with a closed client.

`Pipe` nests the decorators of `order`, the last one outermost. `st[k][a]` is the
state of level k (0 is the function) in attempt a of the retry. A level that waits
for its `initialized` stays "called". `Retry.init` waits for the provider and then for a
command of Redis, which may fail on a connected client and always does on a closed one;
its promise then stays rejected (`RetryInit`). `Timeout` starts a timer that nobody clears, and
what it gives up goes on. `TimerFires` waits for the calls that run in the present
task. The retry has no budget here (`Retry` has), and the fallback its default
`shouldHandle`. `answered` is history. What the other decorators do around a function
is in their own modules.

## 4. Runs

All runs take the callers and clocks from their `.cfg`; deadlock is not checked,
since calls are made once (a bounded number of times in the circuit breaker) and the
clock stops at `MaxNow`, so every run of the model ends.

| Run | Properties | What it shows |
|---|---|---|
| `bulkhead_shared` | FreshPermitBacked, CapacityPerInstance, ImplementsPermits | with two instances on one semaphore, errors, crashes and evictions, running calls keep their permits, each instance keeps to maxConcurrent and the semaphore implements `Permits` |
| `bulkhead_solo` | TypeOK, Capacity, CallIsDecided | one instance: the capacity claimed by the documentation, and every attempt to enter is decided |
| `breaker` | OpenShutsOut | no call begun after the circuit opened runs while it is open, even if a second process starts then, commands fail or a process restarts |
| `breaker_calls` | TypeOK, OpenMeansMinimum, CallEnds | a bucket has the failures that opened the circuit; every call ends |
| `lock` | TypeOK, OnlyOverrunsOverlap, KeptAliveByHolder, RecordGoesAway | two holders, or a record kept alive that nobody holds, only after an overrun; a record that no heartbeat has reached goes away |
| `queue` | TypeOK, LiveEntryKept, PeersExclude | cleanups spare live entries; calls of one process exclude each other |
| `rate_limiter` | TypeOK, WindowLimit, ImplementsPermits, RefusedWhenFull | each instance keeps to the permits of a window and implements `Permits`; nobody is turned away without permitLimit competitors, whatever crashes and errors left behind |
| `retry` | TypeOK, BudgetAccounted, OwnCountsKept, CallEnds | the budget of a window is exceeded by lost counts only, and one process alone loses none by resets; a call ends with all its attempts unless an exponential wait is refused |
| `race` | NothingLeaks, FirstWins, ImplementsRace | races that share promises implement `Race`; the first contender to settle after the linking wins; no promise keeps a race that is over |
| `hedge` | HedgeTypeOK, OutcomeJustified, NoHedgeAfterSuccess, CallEnds | a call ends with what its own functions did, or because another call's success aborted its timer; no hedge starts once the primary has fulfilled |
| `cache` | TypeOK, StaleOnlyByOvertaking, ClearedByItsCall, StaleGoesAway | an entry is older than a completed bust only if that came between its computation and its storing; an entry older than the data goes away, busted or not; a cleared scope loses an entry with the call that stored it |
| `pipe` | PipeTypeOK, OutcomeExplained, StrayAttempts, TimeoutEndsCall | what a call may end with in each order of nesting, when attempts overlap or run after the answer, and that a timeout ends the call |

### Disagreements between code and documentation

`findings` in `PROJECT.json` quotes the lines on both sides. Where a definition is
named, TLC refutes it when it is added to the component's `.cfg`; for the first that
is `Capacity` in `MCBulkhead.cfg`, for HalfOpenLimited with three callers. The
hazards of `PROJECT.json` that name no property are those the code does not guard
against, or lets happen by design: their notes say which.

- *Capacity across instances*. A ticket is drawn in one batch and placed in a second
  one. With maxConcurrent = 1, process A draws 1, B draws 2 and places it at rank 0,
  then A places 1, at rank 0 too.
- *Half-open limit* (`HalfOpenLimited`). `on` does not await `onHalfOpen`, so every
  call runs at once whatever the check says.
- *Open to half-open* (`OpenBecomesHalfOpen`). `onSuccess` writes Closed in every
  state.
- *Lock* (`FreshExclusive`). The DEL of a call that has outlived its record removes
  the record of the next holder; a third call then runs beside that one.
- *Queue* (`QueueExclusive`). An entry with a lower score may arrive after another
  call was admitted, and is admitted as well.
- *Heartbeat*. EXPIRE extends a lock by decades instead of by its duration, which is
  why `RecordGoesAway` must except extended records: if the process dies then, the
  lock is gone for good.
- *Limit across instances* (`LimitAcrossInstances`). The rate limiter places its tickets
  as the bulkhead does, so it lets calls of two processes through together.
- *Execution timeout*. `BulkheadConfigImpl` ignores the `executionTimeout` it is given.
- *Instance scope* of the rate limiter: its window is shared by all instances.
- *until* of the retry: `until?.(result) || true` accepts every result.
- *Exponential backoff*: the fourth wait of five attempts is refused as invalid. This
  is the exception in the `CallEnds` of `Retry`.
- *Budget*. A second process that found no bucket resets the one that the first has
  counted in. `BudgetAccounted` names the excess: it is what was lost so.
- *Hedge* (`OwnFailuresOnly`). The AbortController of the object is aborted by the
  first primary that succeeds, and stays so: later calls race their primary with a
  timer that rejects at once, and reject unless the primary is faster.
- *Order of a race*. While a race is still checking its contenders, a later contender
  may be noticed before an earlier one that settled first. `FirstWins` therefore
  speaks of contenders that settle after the linking.
- *Time to live of the cache*: milliseconds in the code, seconds in the comment.
- *Lifetime of a request scope*: cleared at the end of each call, not of the request.

### Bounds

- *bulkhead*: two callers in one instance and one in another are the least with
  both kinds of neighbours; one permit makes the second caller the limit case.
  `MaxTickets` (3 or 4) attempts in all let a caller lose, retry after an error or
  an eviction, and win; the window (1 or 2) is shorter than the clock's run.
- *circuit breaker*: two callers; calls and faults are counted together, three in
  all; an interval of 1 and a clock that runs 2 further (3 in `breaker_calls`), so
  that circuits open, half-open, close and open again, and buckets expire and are
  made twice. `breaker_calls` takes one retry, so that the retries run out; its 5
  buckets are more than it can use, or `CallEnds` would fail. Both instances
  together take every step of the module.
- *lock*: three callers (the overrunning one, the robbed one and the third), a
  duration of 2, heartbeats after 1, a clock that covers two durations. `Epoch`
  only has to exceed the clock's run.
- *queue*: three callers, two in one process, with uuids on either side of the
  third's; two attempts with a backoff of 1, so entries live for 3 and the clock
  runs beyond that; `Limit` 2 makes a full view possible.
- *rate limiter*: three callers, two in one process; one permit; a window of 1 and a
  clock that runs to 2, so that permits of an earlier window, and what a crash or an
  error left in it, meet calls of the next.

- *retry*: two callers in one process and one in another; a budget of 1 with two
  attempts, or five attempts without a budget, the least number with which an
  exponential wait is refused; a window and a second of one time unit, so that a
  bucket expires and is made again while calls that found it go on.
- *race*: three promises; two races that share one of them, and one without a rival,
  so that a promise is told to two races, checked by one while linked to the other.
- *hedge*: two calls (one aborts the timer of the other) with two hedged functions.
- *cache*: three readers and two busters; an entry lives for one unit of a clock that
  runs to 3, so it can be stored and expire twice.
- *pipe*: all 15 orders of one to three different decorators; three attempts; two
  providers, so that one is made after a stop.

The clock's guards (`now + MaxWait <= MaxNow`, ...) keep deadlines inside the
clock's range. They restrict when calls begin (in `Cache`, also how late a value is
stored), never what they do afterwards.

### Fairness

- `Bulkhead`: time passes, Redis executes what was sent and the runtime resumes
  callers. Not assumed: that a call is made, that the function ends, that a fault
  happens. An error only sends a caller round the loop, so `CallIsDecided` needs
  nothing beyond the clock to reach the deadline.
- `CircuitBreaker`: the same for the steps of a task, and the decorated function
  settles; no fault need happen. `CallEnds` does not need the clock: it is the number of retries that
  ends the loop.
- `ConcurrentLock`: only time passes. `RecordGoesAway` holds without any caller
  making a step.
- `ConcurrentQueue`, `RateLimiter`: none, no liveness is checked of them.
- `Retry`: Redis answers (or a command fails), waits end, functions settle. The clock
  need not advance: it is the failures that are counted.
- `SafePromise`: the runtime runs its queue of jobs, and resumes a race of one promise
  once that has settled. Promises need not settle.
- `Hedge`: continuations run and timers fire. Functions need not settle.
- `Cache`: only time passes: `StaleGoesAway` needs no reader and no buster.
- `Pipe`: `connect()` ends, timers fire, continuations run, the fallback's action
  settles. The function need not: that is what a timeout is for.

## 5. Proofs

The theorems hold for all values of the constants that satisfy the modules'
assumptions (finite sets of callers, natural numbers for times and limits), any
number of callers and instances, and in particular for every `MaxNow`,
`MaxTickets`, ... They are statements about the safety part (`Spec`), and about
the models: the abstractions of section 3 are theirs too.

**BulkheadProofs.** Assumption `DistinctUids`: two callers never use the same id,
which is for the configured `getUniqueId` to see to. The inductive invariant `IInv` says, besides
`TypeOK`: a ticket in use was drawn (`Drawn`); two callers at one semaphore have
different tickets (`TicketsDiffer`); at most one caller of an instance is in a
pipeline (`OnePipeline`); the callers of an instance place tickets in the order
of the tickets (`Ordered`); a placed caller that is fresh has both entries
(`Entries`). The type invariant alone does not exclude that a caller with a lower
ticket is ranked after one with a higher; `Ordered` with `OnePipeline` does, for
callers of one instance, and this is the argument for the capacity: when a caller
is ranked below maxConcurrent, all granted peers are ahead of it, so there are fewer
than maxConcurrent of them. `TypeCorrect`, `PermitSafety`, `Refinement` (every
step is a step of `Permits` or a stutter), `CapacitySafety` and, for one instance,
`SoloCapacity`.

**CircuitBreakerProofs.** `OpenSafety` from the invariant `Outside`: while the
circuit is open, a call that is not in `inside` is idle or in the stages before
the function that lead through `onOpen`. `OpenNeedsFailures` from `Justified`: the
circuit is open, or a caller is about to open it, only when a bucket has the
failures; counts of failures never shrink and buckets never go away. Neither
depends on what fails: an exception only moves a task to another handler (`Throw`).
`BreakerTypeCorrect` adds that a task's bucket exists (`Located`).
`CallsTakeFiniteSteps` is the half of `CallEnds` that needs no fairness: a task that has
begun comes closer to its end with each of its steps (`StepsLeft`: the stages that may
still follow, and in a stage the retries left), whatever commands fail and whatever
others do. It needs `RetriesLeft` (a bucket is made only with a retry left) and
`ChecksFollow` (a half-open check starts only after its call has read the state, so it
never starts anew while it is under way).

**ConcurrentLockProofs.** `OverlapSafety` from `InsideOwns`: while nobody has
overrun, the record is that of the only call inside. `AliveByHolder` from the same
invariant: only a call inside has a heartbeat, so the record it extends is its own.

**ConcurrentQueueProofs.** `EntrySafety` from `Called` (scores lie ahead of the clock
when their calls wait) and `Chosen` (a view that is about to be cleaned holds expired
entries only). `PeersSafety` adds `Arrived`, `Seen` and `Oldest`: an older live peer
has arrived, is seen by whoever reads later, and so the caller that is admitted is
the oldest of its process.

**RateLimiterProofs.** The invariant has the parts of the bulkhead's: `Drawn`,
`TicketsDiffer`, `OnePipeline`, `Ordered`, and `Entries` for callers in their
window; the argument for `WindowRefinement` and `WindowSafety` is the same,
although the first batch may now be interrupted. `RefusalNeedsRivals` needs two
more: `Stamped` (only calls that were made are in the sets) and `Contest`: once
a caller has intersected the sets, all entries of the owner set but its own
are those of its rivals. A caller turned away has permitLimit entries ahead of it,
so that many rivals.

**PipelineProofs, the retry.** `RetryTypeCorrect` needs `AttemptsLeft`: a call in the loop has
failures left. `BudgetSafety` from `Counted` (an attempt let through is in the
bucket or among the lost counts), which is what makes the comparison of the count
with the budget a bound on the attempts. `OwnCountsSafety` from `Present` (a call that
is about to count has a bucket, unless it has expired), so that a call which finds
none has no peer ready to count, and `ResetFirst`: while it waits to reset the
bucket, its peers' counts queue behind its reset, since a connection is first in,
first out. `WaitsRefused` is about `Backoff`: under `WaitsFit` (the delay is positive, as
withWait demands, and MAX_DURATION, an hour, is no less than twice maxAttempts delays)
no wait is refused but an exponential one, and none before the fourth failure; it rests
on the arithmetic of `WaitsAccepted` and shows that the exception `CallEnds` makes is
the only one, for any delay and number of attempts. `RetriesTakeFiniteSteps` bounds the
steps of a call by 6 * (maxAttempts + 1): the other half of `CallEnds` is fairness.

**PipelineProofs, the pipe.** For any set of orders without repetition (which
`PipeAssumption` states: a decorator of each kind at most), any number of attempts and
of providers. The invariant `PipeInv` has six parts. `Shape`: only the levels of the
pipe are called, in attempts the retry may make, and nothing is under way below a level
that does not run, unless it is a timeout (`Nested`); a timeout leaves what it gave up
running, and everything else follows from where it stands. `Loops`: below the retry,
attempts that failed have settled and later ones have not begun. `Timers`: the timer of
an innermost timeout does not fire before the function is called. `Providing`: what the
promises of a provider say of the client, and that nothing is called before the
decorators are made. `Causes`: `OutcomeExplained` for every level instead
of the outermost, about the decorators below it, since an outcome travels upwards level
by level. `Late`: the second half of `StrayAttempts`. Its first half, that attempts run
beside each other only if the timeout is inside the retry, follows from `Loops` and
`Nested`: without a timeout between the retry and the function, an attempt is settled
all the way down before the next is made. Theorems `PipeTypeCorrect`,
`OutcomesExplained`, `StrayAttemptsSafety`.

**RaceProofs, SafePromise.** For any sets of promises and races, finite or not, and
arrays in which a promise may occur more than once. The invariant `RaceAll` has two
halves. `RaceInv` is about what is in the maps: every job that is due is in the queue,
once (`JobsDue`), what is recorded as settled is (`Recorded`), a race has the result of
one contender (`Results`), and what is linked waits (`LinksLive`). The last gives
`RaceLeavesNothing`, but is inductive only with the others: a race leaves the maps when
it goes on, which is when its job runs. `OrderInv` is about when: `InOrder` says that
the contenders of a race that waits give notice in the order in which they settled, as
the queue is first in, first out, and `FirstOf` that a result is the first of them;
`FirstToSettleWins` follows. `SafePromiseImplements` shows that every step (a pass of
race() that goes on to the linking, a notice, a continuation) is one step of `Race` or
none that it sees: the safety part of `ImplementsRace`. What is needed of the library is
about sequences without duplicates, and stated first (`TailFacts`, `ConcatFacts`,
`SetToSeqFacts`); `LeastMember` rests on the well-foundedness of the numbers.

**RaceProofs, Hedge.** One invariant for the three theorems: a race is decided for a
contender that has settled (`WinnersSettled`), a future has the result of a hedged
function or was aborted (`FutureBacked`), timers are aborted only after some
primary has fulfilled (`AbortBacked`), and a call that has ended had an error win its
race or has no timer pending (`EndsAfterRace`). A timer fires when all continuations have
run: a primary that has settled by then has won the race, as the future of a pending
timer has not settled, so it has either failed or had the timer aborted (`HedgeStops`).
The outcome of a call then goes back through its race, its
future and the race of its pool to a function of its own, or to another call's
success. These theorems rest on `Race`, and so hold for any implementation of it:
`HedgeRunsRaces` shows that a Hedge object does nothing to its races but what `Race`
allows, and `SafePromiseImplements` that SafePromise is an implementation.

**CacheProofs.** `Staleness` from `Overtaken`: what is about to be stored is older
than a completed bust only if that bust came after it was computed, and `Computed`:
only a computed value of a reader is stored. `ClearedByItsCall` is inductive by
itself (`ScopeSafety`).

Every safety invariant and every action property of the runs is proved. Only
model-checked are the liveness properties: `CallIsDecided`, the `CallEnds` of three
modules, `RecordGoesAway`, `StaleGoesAway`, `TimeoutEndsCall`, and the condition
`Decisive` of `ImplementsRace`. They depend on fairness, hence on ENABLED, which the
proof system does not reach; for the breaker and the retry, the theorems about the steps
that are left are as far as it goes. Induction over data and RECURSIVE operators are out
of its reach too, but the modules need neither. The refuted claims are of course not
theorems.

## 6. What is not modelled

See `components` in `PROJECT.json` for the reason of each part. In short: events and
logs, which nothing reads back; the nestjs adapter, which has no state; the priority
queue of the hedge package and the resource utilization strategy, which no code uses;
the reporting functions of the bulkhead and of the rate limiter
(getAvailablePermits, getWaitingCount); the registration of names in Redis sets,
which no other operation reads; in the pipe, the decorators that have a module of
their own; exceptions thrown synchronously by a decorated function that is not
`async`; and the end of a process by an unhandled rejection, which the un-awaited
half-open check may cause, as the host decides what it does.
The scripts under `docs/book` are the generated site of the documentation.
