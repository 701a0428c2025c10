------------------------------- MODULE Retry -------------------------------
(***************************************************************************)
(* The retry decorator: the loop of packages/retry/lib/retry.ts, the       *)
(* budget of attempts that the calls of all processes share through a      *)
(* bucket per window in Redis, and the waits of                            *)
(* packages/retry/lib/backoff.ts.                                          *)
(*                                                                         *)
(* A caller is one invocation.  A connection is first in, first out:       *)
(* ahead[c] are the callers of the same process whose commands were sent   *)
(* before that of c and have not been executed.  Executing a command and   *)
(* sending the next is one step.  A sleep may last any time; only its      *)
(* computed length is looked at, as the code does, to accept or refuse it. *)
(***************************************************************************)
EXTENDS Integers, FiniteSets

CONSTANTS
    Callers,                 \* invocations
    Instances, Home,         \* Home[c]: the process a caller runs in
    Configs,                 \* see Config
    WindowBudget,            \* config.windowBudget
    WindowSize,              \* config.windowSize
    Second,                  \* clock units in a second, the unit of EXPIRE
    Delay,                   \* config.wait
    MaxDuration,             \* MAX_DURATION
    MaxNow                   \* bound: the clock stops there

Modes == {"linear", "exponential", "jitter", "constant", "immediate"}

ASSUME HomeAssumption == Home \in [Callers -> Instances]
ASSUME ConfigAssumption ==
    /\ Configs \subseteq [budgeted : BOOLEAN, maxAttempts : Nat \ {0}, mode : Modes]
    /\ WindowBudget \in Nat /\ WindowSize \in Nat /\ Second \in Nat \ {0}
    /\ Delay \in Nat /\ MaxDuration \in Nat /\ MaxNow \in Nat

VARIABLES
    now,        \* Date.now(); the processes' clocks agree
    config,     \* the decorator's configuration: whether retryStrategy is
                \* Budgeted, maxAttempts, and retryMode
    bucket,     \* bucket[w]: the field `attempts` of window w, or Absent
    expiry,     \* expiry[w]: when Redis drops the bucket
    pc,         \* where each caller is
    win,        \* win[c]: the window of the bucket c uses
    attempts,   \* attempts[c]: the failures of c
    ahead,
    permitted,  \* history: attempts let through on each bucket
    lost,       \* history: counts of each bucket that are gone
    within,     \* history: which processes have counted in the bucket as it is now
    expired     \* history: the buckets that have expired

redis == <<bucket, expiry, permitted, lost, within, expired>>
vars == <<now, config, redis, pc, win, attempts, ahead>>

-----------------------------------------------------------------------------
Absent == -1       \* a bucket that does not exist
Never == MaxNow + 1 + (WindowSize + 1) * Second   \* no expiry was set

\* Math.floor(Date.now() / (windowSize || 1)) at time t.
Window(t) == IF WindowSize = 0 THEN t ELSE t \div WindowSize
Windows == 0..MaxNow

InRedis == {"exists", "reset", "expire", "count"}
Done == {"returned", "exceeded", "exhausted", "refused", "failed"}
PCs == InRedis \cup Done \cup {"idle", "running", "sleeping"}

Peers(c) == {d \in Callers \ {c} : Home[d] = Home[c]}

\* c has sent its command, after those its peers have under way.
Send(c, to) ==
    /\ pc' = [pc EXCEPT ![c] = to]
    /\ ahead' = [d \in Callers |->
                   IF d = c THEN {e \in Peers(c) : pc[e] \in InRedis} ELSE ahead[d] \ {c}]

\* c has no command under way any more.
Goto(c, to) ==
    /\ pc' = [pc EXCEPT ![c] = to]
    /\ ahead' = [d \in Callers |-> IF d = c THEN {} ELSE ahead[d] \ {c}]

\* The command s of c is the next of its connection.
Executes(c, s) == pc[c] = s /\ ahead[c] = {}

Count(w) == IF bucket[w] = Absent THEN 0 ELSE bucket[w]

-----------------------------------------------------------------------------
\* The waits Backoff.wait may compute after the a-th failure.
Waits(a) ==
    CASE config.mode = "linear" -> {Delay + a * Delay}
      [] config.mode = "exponential" -> {Delay * 2 ^ a}
      [] config.mode = "jitter" -> Delay..(Delay + a * Delay)
      [] config.mode = "constant" -> {Delay}
      [] config.mode = "immediate" -> {0}

\* Backoff.validate: at most the sum of 1, ..., maxAttempts intervals.
Valid(w) ==
    /\ w > 0 \/ config.mode = "immediate"
    /\ 2 * w <= Delay * config.maxAttempts * (config.maxAttempts + 1) /\ w <= MaxDuration

-----------------------------------------------------------------------------
Init ==
    /\ now = 0
    /\ config \in Configs
    /\ bucket = [w \in Windows |-> Absent]
    /\ expiry = [w \in Windows |-> Never]
    /\ pc = [c \in Callers |-> "idle"]
    /\ win = [c \in Callers |-> 0]
    /\ attempts = [c \in Callers |-> 0]
    /\ ahead = [c \in Callers |-> {}]
    /\ permitted = [w \in Windows |-> 0]
    /\ lost = [w \in Windows |-> 0]
    /\ within = [w \in Windows |-> {}]
    /\ expired = {}

\* Variant of Try: Math.ceil in the place of Math.floor.
TryMutant(c) ==
    /\ pc[c] \in {"idle", "sleeping"}
    /\ IF config.budgeted
       THEN Send(c, "exists") /\ win' = [win EXCEPT ![c] = Window(now) + 1]
       ELSE Goto(c, "running") /\ UNCHANGED win
    /\ UNCHANGED <<now, config, redis, attempts>>

\* The head of the loop: a new call, or one whose wait is over.
Try(c) ==
    /\ pc[c] \in {"idle", "sleeping"}
    /\ attempts[c] < config.maxAttempts
    /\ IF config.budgeted
       THEN Send(c, "exists") /\ win' = [win EXCEPT ![c] = Window(now)]
       ELSE Goto(c, "running") /\ UNCHANGED win
    /\ UNCHANGED <<now, config, redis, attempts>>

\* Variant of Exists: the bucket is reset whether or not it was found.
ExistsMutant(c) ==
    /\ Executes(c, "exists")
    /\ Send(c, "reset")
    /\ UNCHANGED <<now, config, redis, win, attempts>>

\* getActiveBucket: exists,
Exists(c) ==
    /\ Executes(c, "exists")
    /\ Send(c, IF bucket[win[c]] = Absent THEN "reset" ELSE "count")
    /\ UNCHANGED <<now, config, redis, win, attempts>>

\* hSet of a bucket that was not found,
Reset(c) ==
    /\ Executes(c, "reset")
    /\ Send(c, "expire")
    /\ bucket' = [bucket EXCEPT ![win[c]] = 0]
    /\ lost' = [lost EXCEPT ![win[c]] = @ + Count(win[c])]
    /\ within' = [within EXCEPT ![win[c]] = {}]
    /\ UNCHANGED <<now, config, expiry, win, attempts, permitted, expired>>

\* expire, which a time to live of 0 turns into a deletion.
Expire(c) ==
    /\ Executes(c, "expire")
    /\ Send(c, "count")
    /\ IF WindowSize = 0
       THEN /\ bucket' = [bucket EXCEPT ![win[c]] = Absent]
            /\ lost' = [lost EXCEPT ![win[c]] = @ + Count(win[c])]
            /\ within' = [within EXCEPT ![win[c]] = {}]
            /\ expired' = expired \cup {win[c]}
            /\ UNCHANGED expiry
       ELSE /\ expiry' = IF bucket[win[c]] = Absent THEN expiry
                         ELSE [expiry EXCEPT ![win[c]] = now + WindowSize * Second]
            /\ UNCHANGED <<bucket, lost, within, expired>>
    /\ UNCHANGED <<now, config, win, attempts, permitted>>

\* Variant of CountAttempt: the budget is compared with the count before.
CountAttemptMutant(c) ==
    /\ Executes(c, "count")
    /\ bucket' = [bucket EXCEPT ![win[c]] = Count(win[c]) + 1]
    /\ within' = [within EXCEPT ![win[c]] = @ \cup {Home[c]}]
    /\ IF Count(win[c]) > WindowBudget
       THEN Goto(c, "exhausted") /\ UNCHANGED permitted
       ELSE Goto(c, "running") /\ permitted' = [permitted EXCEPT ![win[c]] = @ + 1]
    /\ UNCHANGED <<now, config, expiry, win, attempts, lost, expired>>

\* incrementRetryCount: hIncrBy, and RetryBudgetExhausted or the function.
CountAttempt(c) ==
    /\ Executes(c, "count")
    /\ bucket' = [bucket EXCEPT ![win[c]] = Count(win[c]) + 1]
    /\ within' = [within EXCEPT ![win[c]] = @ \cup {Home[c]}]
    /\ IF Count(win[c]) + 1 > WindowBudget
       THEN Goto(c, "exhausted") /\ UNCHANGED permitted
       ELSE Goto(c, "running") /\ permitted' = [permitted EXCEPT ![win[c]] = @ + 1]
    /\ UNCHANGED <<now, config, expiry, win, attempts, lost, expired>>

\* The function fulfils: `until?.(result) || true` holds whatever `until` says.
Succeed(c) ==
    /\ pc[c] = "running"
    /\ Goto(c, "returned")
    /\ UNCHANGED <<now, config, redis, win, attempts>>

\* Variant of Fail: the failures are not counted.
FailMutant(c) ==
    /\ pc[c] = "running"
    /\ \E w \in Waits(attempts[c] + 1) : Goto(c, IF Valid(w) THEN "sleeping" ELSE "refused")
    /\ UNCHANGED <<now, config, redis, win, attempts>>

\* It rejects, or `until` throws: MaxRetriesExceeded, or a wait if it is valid.
Fail(c) ==
    /\ pc[c] = "running"
    /\ attempts' = [attempts EXCEPT ![c] = @ + 1]
    /\ IF attempts[c] + 1 >= config.maxAttempts
       THEN Goto(c, "exceeded")
       ELSE \E w \in Waits(attempts[c] + 1) :
               Goto(c, IF Valid(w) THEN "sleeping" ELSE "refused")
    /\ UNCHANGED <<now, config, redis, win>>

\* It rejects, and config.onRuntimeError throws: the loop is left.
ListenerThrows(c) ==
    /\ pc[c] = "running"
    /\ Goto(c, "failed")
    /\ UNCHANGED <<now, config, redis, win, attempts>>

\* A command rejects, whether or not Redis has executed it: so does the call.  A
\* process that dies does to the bucket what its callers do by failing here.
ConnectionError(c) ==
    /\ pc[c] \in InRedis
    /\ Goto(c, "failed")
    /\ UNCHANGED <<now, config, redis, win, attempts>>

\* Time passes, and Redis drops what has expired.
Tick ==
    LET gone == {w \in Windows : bucket[w] # Absent /\ expiry[w] <= now + 1}
    IN  /\ now < MaxNow
        /\ now' = now + 1
        /\ bucket' = [w \in Windows |-> IF w \in gone THEN Absent ELSE bucket[w]]
        /\ expiry' = [w \in Windows |-> IF w \in gone THEN Never ELSE expiry[w]]
        /\ lost' = [w \in Windows |-> IF w \in gone THEN lost[w] + bucket[w] ELSE lost[w]]
        /\ within' = [w \in Windows |-> IF w \in gone THEN {} ELSE within[w]]
        /\ expired' = expired \cup gone
        /\ UNCHANGED <<config, pc, win, attempts, ahead, permitted>>

Redis(c) == Exists(c) \/ Reset(c) \/ Expire(c) \/ CountAttempt(c)
Function(c) == Succeed(c) \/ Fail(c) \/ ListenerThrows(c)

Next ==
    \/ \E c \in Callers :
          Try(c) \/ Redis(c) \/ Function(c) \/ ConnectionError(c)
    \/ Tick

Spec == Init /\ [][Next]_vars

\* Calls are made, Redis answers, timers fire, functions settle.
FairSpec ==
    /\ Spec
    /\ \A c \in Callers :
          WF_vars(Try(c)) /\ WF_vars(Redis(c)) /\ WF_vars(Function(c))

-----------------------------------------------------------------------------
\* The type of every variable.
TypeOK ==
    /\ now \in Windows
    /\ config \in Configs
    /\ bucket \in [Windows -> Nat \cup {Absent}]
    /\ expiry \in [Windows -> Nat]
    /\ pc \in [Callers -> PCs]
    /\ win \in [Callers -> Windows]
    /\ attempts \in [Callers -> 0..config.maxAttempts]
    /\ ahead \in [Callers -> SUBSET Callers]
    /\ permitted \in [Windows -> Nat]
    /\ lost \in [Windows -> Nat]
    /\ within \in [Windows -> SUBSET Instances]
    /\ expired \in SUBSET Windows

\* The attempts let through in a window exceed its budget by at most the counts
\* that resets and expiry have taken from the bucket: nothing else is forgotten.
BudgetAccounted == \A w \in Windows : permitted[w] <= WindowBudget + lost[w]

\* A call that resets a bucket never takes counts of its own process from it: all
\* its peers' resets precede their counts.  Two processes have no such luck.
OwnCountsKept ==
    [][\A c \in Callers :
          pc[c] = "reset" /\ pc'[c] = "expire" /\ win[c] \notin expired =>
              Home[c] \notin within[win[c]]]_vars

\* Every call ends, and only an exponential wait is ever refused, after the fourth
\* failure or later: every other call has all its attempts.
CallEnds ==
    \A c \in Callers :
        pc[c] \in PCs \ ({"idle"} \cup Done)
            ~> \/ pc[c] \in Done \ {"refused"}
               \/ pc[c] = "refused" /\ config.mode = "exponential" /\ attempts[c] >= 4
=============================================================================
