-------------------------------- MODULE Pipe --------------------------------
(***************************************************************************)
(* A call of a pipeline (packages/all/lib/resilience-pipe.ts) of a         *)
(* timeout, a retry and a fallback (packages/timeout/lib/timeout.ts,       *)
(* packages/retry/lib/retry.ts, packages/fallback/lib/fallback.ts), and    *)
(* the provider they wait for.                                             *)
(*                                                                         *)
(* Level 0 is the function; the decorator added k-th is level k and wraps  *)
(* level k - 1.  An invocation of a level is named by the attempt of the   *)
(* retry it belongs to, 1 from the retry upwards.  What a timeout gives up *)
(* goes on.  The retry has no budget and its configuration is valid.       *)
(***************************************************************************)
EXTENDS Integers, Sequences

CONSTANTS
    Orders,        \* the lists of decorators a builder may be given
    MaxAttempts,   \* config.maxAttempts of the retry
    MaxProviders   \* bound: how often a provider is made

Decorators == {"timeout", "retry", "fallback"}

ASSUME PipeAssumption ==
    /\ Orders \subseteq Seq(Decorators)
    /\ \A o \in Orders : \A j, k \in DOMAIN o : o[j] = o[k] => j = k
    /\ MaxAttempts \in Nat \ {0} /\ MaxProviders \in Nat

VARIABLES
    order,      \* ResiliencePipeBuilder.decorators
    instance, made, client, initialized,   \* see Provider
    core,       \* the provider of the decorators, 0 before they are made
    ready,      \* Retry.initialized
    st,         \* st[k][a]: the state of level k in attempt a
    timer,      \* timer[a]: the timer of the timeout in attempt a
    failures,   \* `attempts` of the retry
    answered    \* history: the attempts that began after the call had settled

provider == <<instance, made, client, initialized>>
pipeVars == <<order, provider, core, ready, st, timer, failures, answered>>

Core == INSTANCE Provider

-----------------------------------------------------------------------------
Fulfilled == {"ok", "substitute"}
\* An error of the function, a value thrown that is no Error, and the errors of
\* the decorators: TimeoutExceeded, MaxRetriesExceeded, a rejected `initialized`.
Rejected == {"error", "other", "timeout", "exceeded", "broken"}
Settled == Fulfilled \cup Rejected

Levels == 0..3
Attempts == 1..MaxAttempts

Top == Len(order)

\* Variant of Is: the decorator added first is the outermost.
IsMutant(k, d) == k \in 1..Top /\ order[Top + 1 - k] = d

\* `this.fn = decorator.on(this.fn)`: level k is the decorator added k-th.
Is(k, d) == k \in 1..Top /\ order[k] = d

\* The invocation level k waits for.
Child(k, a) == st[k - 1][IF Is(k, "retry") THEN failures + 1 ELSE a]

\* What the call of level k waits for before it calls the level it wraps.
Awaits(k) ==
    IF Is(k, "retry") THEN ready ELSE IF Is(k, "fallback") THEN initialized[core] ELSE "ok"

PipeInit ==
    /\ order \in Orders
    /\ Core!Init
    /\ core = 0 /\ ready = "pending"
    /\ st = [k \in Levels |-> [a \in Attempts |-> "none"]]
    /\ timer = [a \in Attempts |-> "none"]
    /\ failures = 0 /\ answered = {}

Becomes(k, a, s) == st' = [st EXCEPT ![k][a] = s]

\* Level k goes on to call the level it wraps, as attempt b.
Invokes(k, a, b) == st' = [st EXCEPT ![k][a] = "running", ![k - 1][b] = "called"]

-----------------------------------------------------------------------------
\* The provider on its own.
ProviderStep ==
    /\ Core!Next
    /\ UNCHANGED <<order, core, ready, st, timer, failures, answered>>

\* The decorators are made: they keep the provider there is.
Make ==
    /\ core = 0 /\ instance # 0
    /\ core' = instance
    /\ UNCHANGED <<order, provider, ready, st, timer, failures, answered>>

\* Retry.init: start, and a command of Redis, which may fail, and does so on a client
\* that is not open.  Nobody calls init again.
RetryInit ==
    /\ core # 0 /\ ready = "pending" /\ initialized[core] # "pending"
    /\ ready' \in IF initialized[core] = "ok" /\ client = "connected"
                  THEN {"ok", "rejected"} ELSE {"rejected"}
    /\ UNCHANGED <<order, provider, core, st, timer, failures, answered>>

\* execute
Execute ==
    /\ core # 0 /\ st[Top][1] = "none"
    /\ Becomes(Top, 1, "called")
    /\ UNCHANGED <<order, provider, core, ready, timer, failures, answered>>

\* The function is called.
CallFunction(a) ==
    /\ st[0][a] = "called"
    /\ Becomes(0, a, "running")
    /\ answered' = IF st[Top][1] \in Settled THEN answered \cup {a} ELSE answered
    /\ UNCHANGED <<order, provider, core, ready, timer, failures>>

FunctionSettles(a) ==
    /\ st[0][a] = "running"
    /\ \E s \in {"ok", "error", "other"} : Becomes(0, a, s)
    /\ UNCHANGED <<order, provider, core, ready, timer, failures, answered>>

\* Variant of Timeout: no timer is started.
TimeoutMutant(k, a) ==
    /\ Is(k, "timeout") /\ st[k][a] = "called"
    /\ Invokes(k, a, a)
    /\ UNCHANGED <<order, provider, core, ready, timer, failures, answered>>

\* Timeout.on: the inner level is called and a timer is started.
Timeout(k, a) ==
    /\ Is(k, "timeout") /\ st[k][a] = "called"
    /\ Invokes(k, a, a)
    /\ timer' = [timer EXCEPT ![a] = "armed"]
    /\ UNCHANGED <<order, provider, core, ready, failures, answered>>

\* Nobody clears a timer: it fires even if the race is over.  A call is under way in
\* the same task, and no timer fires in it, unless it waits for a pending promise.
TimerFires(a) ==
    /\ timer[a] = "armed"
    /\ \A k \in Levels, b \in Attempts : st[k][b] = "called" => Awaits(k) = "pending"
    /\ timer' = [timer EXCEPT ![a] = "fired"]
    /\ UNCHANGED <<order, provider, core, ready, st, failures, answered>>

\* The timer wins the race: TimeoutExceededException.
TimesOut(k, a) ==
    /\ Is(k, "timeout") /\ st[k][a] = "running" /\ timer[a] = "fired"
    /\ Becomes(k, a, "timeout")
    /\ UNCHANGED <<order, provider, core, ready, timer, failures, answered>>

\* The inner level wins the race.
InTime(k, a) ==
    /\ Is(k, "timeout") /\ st[k][a] = "running" /\ Child(k, a) \in Settled
    /\ Becomes(k, a, Child(k, a))
    /\ UNCHANGED <<order, provider, core, ready, timer, failures, answered>>

\* Retry.on and Fallback.on: `await this.initialized`, which no handler surrounds.
Initialized(k, a) ==
    /\ Is(k, "retry") \/ Is(k, "fallback")
    /\ st[k][a] = "called" /\ Awaits(k) # "pending"
    /\ IF Awaits(k) = "ok" THEN Invokes(k, a, a) ELSE Becomes(k, a, "broken")
    /\ UNCHANGED <<order, provider, core, ready, timer, failures, answered>>

\* Variant of RetryReturns: the last attempt is not counted.
RetryReturnsMutant(k, a) ==
    /\ Is(k, "retry") /\ st[k][a] = "running" /\ Child(k, a) \in Settled
    /\ failures' = failures + 1
    /\ IF Child(k, a) \in Fulfilled
       THEN Becomes(k, a, "ok")
       ELSE Becomes(k, a, IF failures' > MaxAttempts THEN "exceeded" ELSE "sleeping")
    /\ UNCHANGED <<order, provider, core, ready, timer, answered>>

\* The loop of the retry: its result, MaxRetriesExceeded, or a wait.
RetryReturns(k, a) ==
    /\ Is(k, "retry") /\ st[k][a] = "running" /\ Child(k, a) \in Settled
    /\ IF Child(k, a) \in Fulfilled
       THEN Becomes(k, a, Child(k, a)) /\ UNCHANGED failures
       ELSE /\ failures' = failures + 1
            /\ Becomes(k, a, IF failures' = MaxAttempts THEN "exceeded" ELSE "sleeping")
    /\ UNCHANGED <<order, provider, core, ready, timer, answered>>

RetryWakes(k, a) ==
    /\ Is(k, "retry") /\ st[k][a] = "sleeping"
    /\ Invokes(k, a, failures + 1)
    /\ UNCHANGED <<order, provider, core, ready, timer, failures, answered>>

\* Variant of Handles: only what the function throws.
HandlesMutant(s) == s = "error"

\* The default shouldHandle: any Error but OperationCancelledException.
Handles(s) == s \in Rejected \ {"other"}

\* The inner level of the fallback settles: its result, its error, or the action.
FallbackReturns(k, a) ==
    /\ Is(k, "fallback") /\ st[k][a] = "running" /\ Child(k, a) \in Settled
    /\ Becomes(k, a, IF Handles(Child(k, a)) THEN "acting" ELSE Child(k, a))
    /\ UNCHANGED <<order, provider, core, ready, timer, failures, answered>>

FallbackActs(k, a) ==
    /\ Is(k, "fallback") /\ st[k][a] = "acting"
    /\ \E s \in {"substitute", "error"} : Becomes(k, a, s)
    /\ UNCHANGED <<order, provider, core, ready, timer, failures, answered>>

Decorator(k, a) ==
    \/ Timeout(k, a) \/ TimesOut(k, a) \/ InTime(k, a)
    \/ Initialized(k, a) \/ RetryReturns(k, a) \/ RetryWakes(k, a)
    \/ FallbackReturns(k, a) \/ FallbackActs(k, a)

PipeNext ==
    \/ ProviderStep \/ Make \/ RetryInit \/ Execute
    \/ \E a \in Attempts :
          \/ CallFunction(a) \/ FunctionSettles(a) \/ TimerFires(a)
          \/ \E k \in 1..Top : Decorator(k, a)

PipeSpec == PipeInit /\ [][PipeNext]_pipeVars

\* connect() ends, timers fire, continuations run and the action of the fallback
\* settles.  The function need not.
PipeFairSpec ==
    /\ PipeSpec
    /\ WF_pipeVars(Core!Connects /\ ProviderStep) /\ WF_pipeVars(RetryInit)
    /\ \A a \in Attempts :
          /\ WF_pipeVars(CallFunction(a)) /\ WF_pipeVars(TimerFires(a))
          /\ \A k \in 1..3 : WF_pipeVars(Decorator(k, a))

-----------------------------------------------------------------------------
Outcome == st[Top][1]

Added(d) == \E k \in 1..Top : order[k] = d
\* d was added after e: it is around e.
Outside(d, e) == \E j, k \in 1..Top : j < k /\ order[j] = e /\ order[k] = d

\* The type of every variable; a retry waits only if it has attempts left.
PipeTypeOK ==
    /\ order \in Orders
    /\ instance \in 0..MaxProviders /\ made \in 0..MaxProviders /\ core \in 0..MaxProviders
    /\ client \in {"none", "connecting", "connected", "closed", "failed"}
    /\ initialized \in [Core!Providers -> {"pending", "ok", "rejected"}]
    /\ ready \in {"pending", "ok", "rejected"}
    /\ st \in [Levels -> [Attempts ->
                 Settled \cup {"none", "called", "running", "sleeping", "acting"}]]
    /\ timer \in [Attempts -> {"none", "armed", "fired"}]
    /\ failures \in 0..MaxAttempts
    /\ answered \subseteq Attempts
    /\ \A k \in Levels, a \in Attempts : st[k][a] = "sleeping" => failures < MaxAttempts

\* What a call ends with has a cause in the decorators outside of the fallback: an
\* error of a decorator the fallback surrounds never gets out, unless it is that
\* of an action, and without a fallback nothing is substituted.  A level ends broken
\* only if the client could not be connected or the init of the retry has failed: what
\* else fails is no reason, and a retry within a fallback breaks no call by itself.
OutcomeExplained ==
    /\ Outcome = "substitute" => Added("fallback")
    /\ Outcome = "timeout" => Added("timeout") /\ ~Outside("fallback", "timeout")
    /\ Outcome = "exceeded" => Added("retry") /\ ~Outside("fallback", "retry")
    /\ Outcome = "ok" => \E a \in Attempts : st[0][a] = "ok"
    /\ Outcome = "broken" =>
          /\ Added("retry") \/ Added("fallback")
          /\ Outside("fallback", "retry") => initialized[core] = "rejected"
    /\ (\E k \in Levels, a \in Attempts : st[k][a] = "broken") =>
          client = "failed" \/ (Added("retry") /\ ready = "rejected")

\* Two attempts of a call run at a time only if the timeout is inside the retry.  The
\* function is called after the answer only under a timeout around the retry, or for
\* the first time, under a timeout around a fallback that waited for the provider.
StrayAttempts ==
    /\ \A a, b \in Attempts :
          a # b /\ st[0][a] = "running" /\ st[0][b] = "running" => Outside("retry", "timeout")
    /\ answered # {} => Outside("timeout", "retry") \/ Outside("timeout", "fallback")

\* With a timeout anywhere in the pipe a call ends though its function may not.
TimeoutEndsCall ==
    Added("timeout") /\ Outcome = "called" ~> Outcome \in Settled
=============================================================================
