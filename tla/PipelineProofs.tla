--------------------------- MODULE PipelineProofs ---------------------------
(***************************************************************************)
(* Proofs about the loop of Retry and its budget, for any callers,         *)
(* processes, configurations and window, and about the calls of a pipeline *)
(* of a timeout, a retry and a fallback, in any order and for any number   *)
(* of attempts.                                                            *)
(***************************************************************************)
EXTENDS Retry, Pipe, TLAPS

-----------------------------------------------------------------------------
(* Retry.                                                                  *)

\* The window of every moment of the run is one of Windows.
LEMMA WindowType == \A t \in Windows : Window(t) \in Windows
<1>1. SUFFICES ASSUME NEW t \in Windows, WindowSize # 0
               PROVE  t \div WindowSize \in Windows
  BY DEF Window
<1>2. t \in Nat /\ t <= MaxNow /\ WindowSize \in Nat \ {0} /\ MaxNow \in Nat
  BY <1>1, ConfigAssumption DEF Windows
<1>3. t \div WindowSize \in Int /\ 0 <= t \div WindowSize /\ t \div WindowSize <= t
  BY <1>2
<1> QED
  BY <1>2, <1>3 DEF Windows

LEMMA TimeType == Never \in Nat /\ \A t \in Windows : t + WindowSize * Second \in Nat
<1>1. WindowSize * Second \in Nat /\ (WindowSize + 1) * Second \in Nat
  BY ConfigAssumption
<1> QED
  BY <1>1, ConfigAssumption DEF Never, Windows

-----------------------------------------------------------------------------
(* Type correctness: a call in the loop has failures left.                 *)

AttemptsLeft ==
    \A c \in Callers :
        pc[c] \in InRedis \cup {"running", "sleeping"} => attempts[c] < config.maxAttempts

TInv == TypeOK /\ AttemptsLeft

LEMMA TInvInit == Init => TInv
<1> SUFFICES ASSUME Init
             PROVE  TInv
  OBVIOUS
<1> QED
  BY ConfigAssumption, TimeType
     DEF Init, TInv, TypeOK, AttemptsLeft, PCs, Done, InRedis, Windows, Absent

LEMMA TInvStep == TInv /\ [Next]_vars => TInv'
<1> SUFFICES ASSUME TInv, [Next]_vars
             PROVE  TInv'
  OBVIOUS
<1> USE ConfigAssumption, HomeAssumption
<1> USE DEF TInv, TypeOK, AttemptsLeft, PCs, Done, InRedis, Goto, Send, Executes, redis, Peers
<1>0. config.maxAttempts \in Nat \ {0}
  OBVIOUS
<1>1. CASE UNCHANGED vars
  BY <1>1 DEF vars
<1>2. ASSUME NEW c \in Callers, Try(c)
      PROVE  TInv'
  <2>1. Window(now) \in Windows
    BY WindowType
  <2> QED
    BY <1>2, <1>0, <2>1 DEF Try
<1>3. ASSUME NEW c \in Callers, Exists(c) \/ Succeed(c) \/ ListenerThrows(c) \/ ConnectionError(c)
      PROVE  TInv'
  BY <1>3 DEF Exists, Succeed, ListenerThrows, ConnectionError
<1>4. ASSUME NEW c \in Callers, Reset(c)
      PROVE  TInv'
  BY <1>4 DEF Reset, Count, Absent
<1>5. ASSUME NEW c \in Callers, Expire(c)
      PROVE  TInv'
  <2>1. expiry' \in [Windows -> Nat]
    BY <1>5, TimeType DEF Expire
  <2> QED
    BY <1>5, <2>1 DEF Expire, Count, Absent
<1>6. ASSUME NEW c \in Callers, CountAttempt(c)
      PROVE  TInv'
  <2>1. Count(win[c]) + 1 \in Nat
    BY DEF Count, Absent
  <2>2. bucket' \in [Windows -> Nat \cup {Absent}] /\ permitted' \in [Windows -> Nat]
    BY <1>6, <2>1 DEF CountAttempt
  <2>3. within' \in [Windows -> SUBSET Instances]
    BY <1>6 DEF CountAttempt
  <2>4. UNCHANGED <<now, config, expiry, win, attempts, lost, expired>>
    BY <1>6 DEF CountAttempt
  <2>5. /\ pc[c] = "count"
        /\ pc' \in [Callers -> PCs] /\ \A d \in Callers \ {c} : pc'[d] = pc[d]
        /\ ahead' \in [Callers -> SUBSET Callers]
    BY <1>6 DEF CountAttempt
  <2> QED
    BY <2>2, <2>3, <2>4, <2>5
<1>7. ASSUME NEW c \in Callers, Fail(c)
      PROVE  TInv'
  <2>1. CASE attempts[c] + 1 >= config.maxAttempts
    BY <1>7, <1>0, <2>1 DEF Fail
  <2>2. CASE attempts[c] + 1 < config.maxAttempts
    <3>1. Goto(c, "sleeping") \/ Goto(c, "refused")
      BY <1>7, <1>0, <2>2 DEF Fail
    <3> QED
      BY <1>7, <1>0, <2>2, <3>1 DEF Fail
  <2> QED
    BY <2>1, <2>2, <1>0
<1>8. CASE Tick
  <2>1. now' \in Windows /\ UNCHANGED <<config, pc, win, attempts, ahead, permitted>>
    BY <1>8 DEF Tick, Windows
  <2>2. bucket' \in [Windows -> Nat \cup {Absent}] /\ lost' \in [Windows -> Nat]
    BY <1>8 DEF Tick, Absent
  <2>3. expiry' \in [Windows -> Nat]
    BY <1>8, TimeType DEF Tick
  <2>4. within' \in [Windows -> SUBSET Instances] /\ expired' \in SUBSET Windows
    BY <1>8 DEF Tick
  <2> QED
    BY <2>1, <2>2, <2>3, <2>4
<1> QED
  BY <1>1, <1>2, <1>3, <1>4, <1>5, <1>6, <1>7, <1>8 DEF Next, Redis, Function

\* Every variable of the loop keeps its type; no call fails more than maxAttempts times.
THEOREM RetryTypeCorrect == Spec => []TypeOK
<1>1. TInv => TypeOK
  BY DEF TInv
<1> QED
  BY <1>1, TInvInit, TInvStep, PTL DEF Spec

-----------------------------------------------------------------------------
(* The budget.                                                             *)

\* Every attempt let through is counted, or its count is lost.
Counted == \A w \in Windows : permitted[w] <= Count(w) + lost[w]

LEMMA BudgetInit == Init => Counted /\ BudgetAccounted
BY ConfigAssumption DEF Init, Counted, BudgetAccounted, Count, Absent

LEMMA BudgetStep ==
    TInv /\ Counted /\ BudgetAccounted /\ [Next]_vars => Counted' /\ BudgetAccounted'
<1> SUFFICES ASSUME TypeOK, Counted, BudgetAccounted, [Next]_vars
             PROVE  Counted' /\ BudgetAccounted'
  BY DEF TInv
<1> USE ConfigAssumption DEF TypeOK, Counted, BudgetAccounted, Count, Absent
<1>1. CASE UNCHANGED redis
  BY <1>1 DEF redis
<1>2. ASSUME NEW c \in Callers, Reset(c)
      PROVE  Counted' /\ BudgetAccounted'
  BY <1>2 DEF Reset
<1>3. ASSUME NEW c \in Callers, Expire(c)
      PROVE  Counted' /\ BudgetAccounted'
  BY <1>3 DEF Expire
<1>4. ASSUME NEW c \in Callers, CountAttempt(c)
      PROVE  Counted' /\ BudgetAccounted'
  BY <1>4 DEF CountAttempt
<1>5. CASE Tick
  BY <1>5 DEF Tick
<1> QED
  BY <1>1, <1>2, <1>3, <1>4, <1>5 DEF Next, Redis, Function, vars, Try, Exists, Succeed, Fail,
     ListenerThrows, ConnectionError

\* The attempts of a window exceed its budget by no more than the lost counts.
THEOREM BudgetSafety == Spec => []BudgetAccounted
<1> QED
  BY TInvInit, TInvStep, BudgetInit, BudgetStep, PTL DEF Spec

-----------------------------------------------------------------------------
(* A process never takes its own counts from a bucket.                     *)

\* Nobody has counted in a bucket that does not exist.
AbsentEmpty == \A w \in Windows : bucket[w] = Absent => within[w] = {}

\* A bucket that is about to be used exists, unless it has expired.
Present ==
    \A c \in Callers :
        pc[c] \in {"expire", "count"} /\ win[c] \notin expired => bucket[win[c]] # Absent

\* The peers of a call about to reset a bucket count after it.
ResetFirst ==
    \A c \in Callers :
        pc[c] = "reset" /\ win[c] \notin expired =>
            /\ Home[c] \notin within[win[c]]
            /\ \A d \in Peers(c) : pc[d] = "count" /\ win[d] = win[c] => c \in ahead[d]

KInv == AbsentEmpty /\ Present /\ ResetFirst

LEMMA KInvInit == Init => KInv
BY DEF Init, KInv, AbsentEmpty, Present, ResetFirst

LEMMA KInvStep == TInv /\ KInv /\ [Next]_vars => KInv'
<1> SUFFICES ASSUME TypeOK, KInv, [Next]_vars
             PROVE  KInv'
  BY DEF TInv
<1> USE HomeAssumption DEF TypeOK, KInv, AbsentEmpty, Present, ResetFirst, Absent, Peers
<1>1. CASE UNCHANGED vars
  BY <1>1 DEF vars, redis
<1>2. ASSUME NEW c \in Callers, Try(c)
      PROVE  KInv'
  <2>1. \A d \in Callers \ {c} : pc'[d] = pc[d] /\ win'[d] = win[d]
                                 /\ ahead'[d] = ahead[d] \ {c}
    BY <1>2 DEF Try, Send, Goto
  <2>2. pc'[c] \in {"exists", "running"} /\ UNCHANGED redis
    BY <1>2 DEF Try, Send, Goto
  <2> QED
    BY <2>1, <2>2, <1>2 DEF redis, Try
<1>3. ASSUME NEW c \in Callers, Exists(c)
      PROVE  KInv'
  <2>1. UNCHANGED <<redis, win>> /\ ahead[c] = {} /\ pc[c] = "exists"
    BY <1>3 DEF Exists, Executes
  <2>2. \A d \in Callers \ {c} : pc'[d] = pc[d] /\ ahead'[d] = ahead[d] \ {c}
    BY <1>3 DEF Exists, Send
  <2>3. ahead'[c] = {e \in Peers(c) : pc[e] \in InRedis}
    BY <1>3 DEF Exists, Send
  <2>4. pc'[c] = IF bucket[win[c]] = Absent THEN "reset" ELSE "count"
    BY <1>3 DEF Exists, Send
  <2>5. CASE bucket[win[c]] = Absent
    BY <2>1, <2>2, <2>4, <2>5 DEF redis
  <2>6. CASE bucket[win[c]] # Absent
    BY <2>1, <2>2, <2>3, <2>4, <2>6 DEF redis, InRedis
  <2> QED
    BY <2>5, <2>6
<1>4. ASSUME NEW c \in Callers, Reset(c)
      PROVE  KInv'
  <2>1. \A d \in Callers \ {c} : pc'[d] = pc[d] /\ ahead'[d] = ahead[d] \ {c}
    BY <1>4 DEF Reset, Send
  <2>2. pc'[c] = "expire"
    BY <1>4 DEF Reset, Send
  <2> QED
    BY <1>4, <2>1, <2>2 DEF Reset
<1>5. ASSUME NEW c \in Callers, Expire(c)
      PROVE  KInv'
  <2>1. \A d \in Callers \ {c} : pc'[d] = pc[d] /\ ahead'[d] = ahead[d] \ {c}
    BY <1>5 DEF Expire, Send
  <2>2. pc'[c] = "count" /\ ahead'[c] = {e \in Peers(c) : pc[e] \in InRedis}
    BY <1>5 DEF Expire, Send
  <2>3. win' = win /\ pc[c] = "expire" /\ expired \subseteq expired'
    BY <1>5 DEF Expire, Executes
  <2>4. \A w \in Windows \ expired' : bucket'[w] = bucket[w] /\ within'[w] = within[w]
    BY <1>5 DEF Expire
  <2>5. AbsentEmpty'
    BY <1>5 DEF Expire
  <2> QED
    BY <2>1, <2>2, <2>3, <2>4, <2>5 DEF InRedis
<1>6. ASSUME NEW c \in Callers, CountAttempt(c)
      PROVE  KInv'
  <2>1. \A d \in Callers \ {c} : pc'[d] = pc[d] /\ ahead'[d] = ahead[d] \ {c}
    BY <1>6 DEF CountAttempt, Goto
  <2>2. pc'[c] \in {"exhausted", "running"}
    BY <1>6 DEF CountAttempt, Goto
  <2>3. pc[c] = "count" /\ ahead[c] = {} /\ UNCHANGED <<win, expired>>
    BY <1>6 DEF CountAttempt, Executes
  <2>4. /\ bucket' = [bucket EXCEPT ![win[c]] = Count(win[c]) + 1]
        /\ within' = [within EXCEPT ![win[c]] = @ \cup {Home[c]}]
        /\ Count(win[c]) \in Nat
    BY <1>6 DEF CountAttempt, Count
  <2>5. AbsentEmpty' /\ Present'
    BY <2>1, <2>2, <2>3, <2>4
  <2>6. ASSUME NEW e \in Callers, pc'[e] = "reset", win'[e] \notin expired'
        PROVE  /\ Home[e] \notin within'[win'[e]]
               /\ \A d \in Peers(e) : pc'[d] = "count" /\ win'[d] = win'[e] => e \in ahead'[d]
    <3>1. e # c /\ pc[e] = "reset" /\ win[e] \notin expired
      BY <2>1, <2>2, <2>3, <2>6
    <3>2. win[e] = win[c] => Home[e] # Home[c]
      BY <3>1, <2>3
    <3> QED
      BY <3>1, <3>2, <2>1, <2>2, <2>3, <2>4
  <2> QED
    BY <2>5, <2>6
<1>7. ASSUME NEW c \in Callers, Function(c) \/ ConnectionError(c)
      PROVE  KInv'
  <2>1. \A d \in Callers \ {c} : pc'[d] = pc[d] /\ ahead'[d] = ahead[d] \ {c}
    BY <1>7 DEF Function, Succeed, Fail, ListenerThrows, ConnectionError, Goto
  <2>2. pc'[c] \in Done \cup {"sleeping"}
    BY <1>7 DEF Function, Succeed, Fail, ListenerThrows, ConnectionError, Goto, Done
  <2>3. UNCHANGED <<redis, win>>
    BY <1>7 DEF Function, Succeed, Fail, ListenerThrows, ConnectionError
  <2> QED
    BY <2>1, <2>2, <2>3 DEF redis, Done
<1>8. CASE Tick
  <2>1. \A w \in Windows \ expired' : bucket'[w] = bucket[w] /\ within'[w] = within[w]
    BY <1>8 DEF Tick
  <2>2. UNCHANGED <<pc, win, ahead>> /\ expired \subseteq expired'
    BY <1>8 DEF Tick
  <2>3. AbsentEmpty'
    BY <1>8 DEF Tick
  <2> QED
    BY <2>1, <2>2, <2>3
<1> QED
  BY <1>1, <1>2, <1>3, <1>4, <1>5, <1>6, <1>7, <1>8 DEF Next, Redis

\* A call that resets a bucket never takes the counts of its own process from it.
THEOREM OwnCountsSafety == Spec => OwnCountsKept
<1> DEFINE Keeps == \A c \in Callers :
                       pc[c] = "reset" /\ pc'[c] = "expire" /\ win[c] \notin expired =>
                           Home[c] \notin within[win[c]]
<1>1. KInv => Keeps
  BY DEF KInv, ResetFirst
<1> QED
  BY <1>1, TInvInit, TInvStep, KInvInit, KInvStep, PTL DEF Spec, OwnCountsKept

-----------------------------------------------------------------------------
(* The waits: what Backoff.validate makes of what Backoff.wait computes.   *)

\* Waits are positive (withWait guards it), and no decorator allows so many attempts
\* that MAX_DURATION limits its waits.
WaitsFit == Delay # 0 /\ \A k \in Configs : 2 * (Delay * k.maxAttempts) <= MaxDuration

LEMMA TimesMonotonic ==
    ASSUME NEW d \in Nat, NEW x \in Nat, NEW y \in Nat, x <= y
    PROVE  d * x \in Nat /\ d * y \in Nat /\ d * x <= d * y
OBVIOUS

\* After the a-th failure another attempt is due, so a < maxAttempts, and any wait but
\* an exponential one after the fourth failure is accepted.
LEMMA WaitsAccepted ==
    ASSUME WaitsFit, config \in Configs, NEW a \in Nat \ {0}, a < config.maxAttempts,
           config.mode = "exponential" => a <= 3,
           NEW w \in Waits(a)
    PROVE  Valid(w)
<1> DEFINE m == config.maxAttempts
<1>1. /\ m \in Nat /\ config.mode \in Modes /\ Delay \in Nat \ {0} /\ MaxDuration \in Nat
      /\ a + 1 <= m
  BY ConfigAssumption DEF WaitsFit
<1>2. 2 * (Delay * m) <= MaxDuration
  BY DEF WaitsFit
<1>3. 2 * (Delay * m) <= Delay * m * (m + 1)
  <2>1. Delay * m \in Nat /\ 2 <= m + 1
    BY <1>1
  <2>2. (Delay * m) * 2 <= (Delay * m) * (m + 1)
    BY <1>1, <2>1, TimesMonotonic
  <2> QED
    BY <2>1, <2>2
<1>4. Delay + a * Delay = Delay * (a + 1) /\ Delay * (a + 1) <= Delay * m /\ Delay <= Delay * m
  BY <1>1, TimesMonotonic
<1>5. ASSUME w \in Nat, w <= Delay * m, w > 0 \/ config.mode = "immediate"
      PROVE  Valid(w)
  <2>1. Delay * m \in Nat /\ Delay * m * (m + 1) \in Nat
    BY <1>1
  <2> QED
    BY <1>1, <1>2, <1>3, <1>5, <2>1 DEF Valid
<1>6. CASE config.mode = "linear"
  BY <1>1, <1>4, <1>5, <1>6 DEF Waits
<1>7. CASE config.mode = "jitter"
  BY <1>1, <1>4, <1>5, <1>7 DEF Waits
<1>8. CASE config.mode = "constant"
  BY <1>1, <1>4, <1>5, <1>8 DEF Waits
<1>9. CASE config.mode = "immediate"
  BY <1>1, <1>5, <1>9 DEF Waits
<1>10. CASE config.mode = "exponential"
  <2>1. w = Delay * 2 ^ a
    BY <1>10 DEF Waits
  <2>2. 2 ^ 1 = 2 /\ 2 ^ 2 = 4 /\ 2 ^ 3 = 8
    OBVIOUS
  <2>3. a \in {1, 2, 3}
    BY <1>1, <1>10
  <2>4. /\ a = 1 => w = Delay * 2
        /\ a = 2 => w = Delay * 4
        /\ a = 3 => w = Delay * 8
        /\ w \in Nat /\ 0 < w
    <3>1. (a = 1 => w = Delay * 2) /\ (a = 2 => w = Delay * 4) /\ (a = 3 => w = Delay * 8)
      BY <2>1, <2>2
    <3> QED
      BY <1>1, <2>3, <3>1
  <2>5. CASE a = 1
    <3>1. w = Delay * 2 /\ Delay * 2 <= Delay * m
      BY <1>1, <2>4, <2>5, TimesMonotonic
    <3> QED
      BY <1>5, <2>4, <3>1
  <2>6. CASE a \in {2, 3}
    <3>1. w <= (Delay * 2) * (a + 1) /\ (Delay * 2) * (a + 1) <= 2 * (Delay * m)
      <4>1. w <= (Delay * 2) * (a + 1)
        BY <1>1, <2>4, <2>6
      <4>2. Delay * (a + 1) <= Delay * m
        BY <1>1, TimesMonotonic
      <4> QED
        BY <1>1, <2>6, <4>1, <4>2
    <3>2. 2 * w <= Delay * m * (m + 1)
      <4>1. /\ Delay * m \in Nat /\ Delay * (a + 1) \in Nat
            /\ Delay * (a + 1) <= Delay * m /\ a + 2 <= m + 1
        BY <1>1, TimesMonotonic
      <4>2. (Delay * m) * (a + 2) <= (Delay * m) * (m + 1)
        BY <1>1, <4>1, TimesMonotonic
      <4>3. 2 * w <= (Delay * (a + 1)) * (a + 2)
        BY <1>1, <2>4, <2>6
      <4>4. (Delay * (a + 1)) * (a + 2) <= (Delay * m) * (a + 2)
        BY <2>6, <4>1
      <4> QED
        BY <1>1, <2>4, <2>6, <4>1, <4>2, <4>3, <4>4
    <3>3. w <= MaxDuration
      BY <1>1, <1>2, <2>4, <2>6, <3>1
    <3> QED
      BY <2>4, <3>2, <3>3 DEF Valid
  <2> QED
    BY <2>3, <2>5, <2>6
<1> QED
  BY <1>1, <1>6, <1>7, <1>8, <1>9, <1>10 DEF Modes

\* A wait is refused only if it is an exponential one after the fourth failure or later.
RefusedExplained ==
    \A c \in Callers :
        pc[c] = "refused" => config.mode = "exponential" /\ attempts[c] >= 4

LEMMA RefusedStep ==
    ASSUME WaitsFit, TInv, RefusedExplained, [Next]_vars
    PROVE  RefusedExplained'
<1>1. ASSUME NEW c \in Callers, pc'[c] = "refused"
      PROVE  config'.mode = "exponential" /\ attempts'[c] >= 4
  <2>1. config' = config /\ config \in Configs
    BY DEF TInv, TypeOK, Next, vars, Try, Exists, Reset, Expire, CountAttempt, Succeed, Fail,
           ListenerThrows, ConnectionError, Tick, Redis, Function
  <2>2. CASE pc[c] = "refused" /\ attempts'[c] = attempts[c]
    BY <2>1, <2>2 DEF RefusedExplained
  <2>3. CASE Fail(c)
    <3>1. pc \in [Callers -> PCs] /\ attempts \in [Callers -> Nat]
      BY <2>1, ConfigAssumption DEF TInv, TypeOK
    <3>2. /\ attempts[c] + 1 < config.maxAttempts /\ attempts'[c] = attempts[c] + 1
          /\ \E w \in Waits(attempts[c] + 1) : ~ Valid(w)
      BY <1>1, <2>1, <2>3, <3>1, ConfigAssumption DEF Fail, Goto
    <3>3. ~ (config.mode = "exponential" => attempts[c] + 1 <= 3)
      BY <2>1, <3>1, <3>2, WaitsAccepted
    <3> QED
      BY <2>1, <3>1, <3>2, <3>3
  <2>4. (pc[c] = "refused" /\ attempts'[c] = attempts[c]) \/ Fail(c)
    <3>1. pc \in [Callers -> PCs] /\ attempts \in [Callers -> 0..config.maxAttempts]
      BY DEF TInv, TypeOK
    <3>2. CASE UNCHANGED <<pc, attempts>>
      BY <1>1, <3>2
    <3>3. ASSUME NEW d \in Callers,
                 \/ Try(d) \/ Redis(d) \/ Succeed(d)
                 \/ ListenerThrows(d) \/ ConnectionError(d)
          PROVE  pc[c] = "refused" /\ attempts' = attempts
      BY <1>1, <3>1, <3>3 DEF Try, Redis, Exists, Reset, Expire, CountAttempt, Succeed,
         ListenerThrows, ConnectionError, Goto, Send
    <3>4. ASSUME NEW d \in Callers, Fail(d), d # c
          PROVE  pc[c] = "refused" /\ attempts'[c] = attempts[c]
      BY <1>1, <3>1, <3>4 DEF Fail, Goto
    <3> QED
      BY <3>2, <3>3, <3>4 DEF Next, Function, Tick, vars
  <2> QED
    BY <2>2, <2>3, <2>4
<1> QED
  BY <1>1 DEF RefusedExplained

\* Whatever the delay and the number of attempts, no wait but an exponential one is
\* refused, and that only after the fourth failure: the exception CallEnds makes.
THEOREM WaitsRefused == WaitsFit => (Spec => []RefusedExplained)
<1> SUFFICES ASSUME WaitsFit
             PROVE  Spec => []RefusedExplained
  OBVIOUS
<1>1. Init => RefusedExplained
  BY DEF Init, RefusedExplained
<1>2. TInv /\ RefusedExplained /\ [Next]_vars => RefusedExplained'
  BY RefusedStep
<1> QED
  BY <1>1, <1>2, TInvInit, TInvStep, PTL DEF Spec

-----------------------------------------------------------------------------
(* Every call ends: the steps that are left to it become fewer.            *)

\* The steps to the end of the present turn of the loop, and to the end of the call.
TurnLeft(c) ==
    CASE pc[c] \in {"idle", "sleeping"} -> 6
      [] pc[c] = "exists" -> 5
      [] pc[c] = "reset" -> 4
      [] pc[c] = "expire" -> 3
      [] pc[c] = "count" -> 2
      [] pc[c] = "running" -> 1
      [] pc[c] \in Done -> 0
StepsLeft(c) == 6 * (config.maxAttempts - attempts[c]) + TurnLeft(c)

\* A call comes closer to its end with each of its steps, and nobody takes it further.
CallsShrink ==
    \A c \in Callers :
        \/ UNCHANGED <<pc[c], attempts[c]>> /\ StepsLeft(c)' = StepsLeft(c)
        \/ StepsLeft(c)' \in Nat /\ StepsLeft(c)' < StepsLeft(c)

LEMMA StepsShrink ==
    ASSUME TInv, TInv', [Next]_vars
    PROVE  CallsShrink
<1>1. config' = config /\ config.maxAttempts \in Nat
  BY ConfigAssumption
     DEF TInv, TypeOK, Next, vars, Try, Exists, Reset, Expire, CountAttempt, Succeed, Fail,
         ListenerThrows, ConnectionError, Tick, Redis, Function
<1>2. /\ pc \in [Callers -> PCs] /\ attempts \in [Callers -> 0..config.maxAttempts]
      /\ pc' \in [Callers -> PCs] /\ attempts' \in [Callers -> 0..config.maxAttempts]
  BY <1>1 DEF TInv, TypeOK
<1>3. ASSUME NEW c \in Callers, ~ UNCHANGED <<pc[c], attempts[c]>>
      PROVE  StepsLeft(c)' \in Nat /\ StepsLeft(c)' < StepsLeft(c)
  <2>1. CASE Try(c) \/ Redis(c) \/ Succeed(c) \/ ListenerThrows(c) \/ ConnectionError(c)
    <3>1. attempts'[c] = attempts[c] /\ TurnLeft(c)' < TurnLeft(c)
      BY <1>2, <2>1 DEF Try, Redis, Exists, Reset, Expire, CountAttempt, Succeed, ListenerThrows,
         ConnectionError, Executes, Send, Goto, TurnLeft, Done, InRedis
    <3>2. TurnLeft(c) \in 0..6 /\ TurnLeft(c)' \in 0..6
      BY <1>2 DEF TurnLeft, PCs, InRedis, Done
    <3> QED
      BY <1>1, <1>2, <3>1, <3>2 DEF StepsLeft
  <2>2. CASE Fail(c)
    <3>1. attempts'[c] = attempts[c] + 1 /\ TurnLeft(c) = 1 /\ TurnLeft(c)' \in {0, 6}
      BY <1>2, <2>2 DEF Fail, Goto, TurnLeft, Done
    <3> QED
      BY <1>1, <1>2, <3>1 DEF StepsLeft
  <2>3. ASSUME NEW d \in Callers \ {c},
               \/ Try(d) \/ Redis(d) \/ Function(d) \/ ConnectionError(d)
        PROVE  UNCHANGED <<pc[c], attempts[c]>>
    BY <1>2, <2>3 DEF Try, Redis, Exists, Reset, Expire, CountAttempt, Function, Succeed, Fail,
       ListenerThrows, ConnectionError, Send, Goto
  <2> QED
    BY <1>3, <2>1, <2>2, <2>3 DEF Next, Function, Tick, vars
<1> QED
  BY <1>1, <1>3 DEF CallsShrink, StepsLeft, TurnLeft

\* For any callers and configuration, whatever fails: a call takes at most
\* 6 * (maxAttempts + 1) steps.  With fairness, this is why CallEnds holds.
THEOREM RetriesTakeFiniteSteps == Spec => [][CallsShrink]_vars
<1>1. TInv /\ TInv' /\ [Next]_vars => [CallsShrink]_vars
  BY StepsShrink
<1> QED
  BY <1>1, TInvInit, TInvStep, PTL DEF Spec

-----------------------------------------------------------------------------
(* A call of a pipeline: the inductive invariant.                          *)

States == Settled \cup {"none", "called", "running", "sleeping", "acting"}

\* Nothing is under way.
AtRest == Settled \cup {"none"}

\* Level k may be invoked as attempt a; level k, as a, calls the one below as b.
Live(k, a) == a = 1 \/ \E j \in 1..Top : j > k /\ order[j] = "retry"
Kid(k, a, b) == b = a \/ order[k] = "retry"

\* A level calls the one below once it has been called and waited, and unless it is a
\* timeout it waits for it: nothing is under way below a level that does not run.
Nested ==
    \A k \in 1..Top : \A a, b \in Attempts : Live(k, a) /\ Kid(k, a, b) =>
        /\ st[k][a] \in {"none", "called"} => st[k - 1][b] = "none"
        /\ st[k][a] # "running" /\ order[k] # "timeout" => st[k - 1][b] \in AtRest

Shape ==
    /\ order \in Orders
    /\ st \in [Levels -> [Attempts -> States]]
    /\ \A k \in Levels, a \in Attempts : st[k][a] # "none" => k <= Top /\ Live(k, a)
    /\ \A k \in Levels, a \in Attempts : st[k][a] = "sleeping" => k # 0 /\ order[k] = "retry"
    /\ Nested

\* The attempts that have failed are over; the one after them is the only one under
\* way, and it is not while the retry sleeps.
Loop(k) ==
    /\ \A b \in Attempts : /\ b > failures + 1 => st[k - 1][b] = "none"
                           /\ b <= failures => st[k - 1][b] \in Settled
    /\ st[k][1] \in {"none", "called", "broken"} => failures = 0
    /\ st[k][1] \in {"running", "sleeping"} => failures < MaxAttempts
    /\ st[k][1] = "sleeping" => st[k - 1][failures + 1] = "none"

Loops == failures \in 0..MaxAttempts /\ \A k \in 1..Top : order[k] = "retry" => Loop(k)

\* An innermost timeout does not give up a function that is yet to be called.
Timers ==
    /\ timer \in [Attempts -> {"none", "armed", "fired"}]
    /\ Is(1, "timeout") => \A a \in Attempts :
          /\ st[1][a] \in {"none", "called"} => timer[a] = "none"
          /\ timer[a] = "fired" \/ st[1][a] \in Settled => st[0][a] # "called"

\* The provider: what is connected, and what is closed or has failed for good.
Providing ==
    /\ made \in 0..MaxProviders /\ instance \in 0..made /\ core \in 0..made
    /\ client \in {"none", "connecting", "connected", "closed", "failed"}
    /\ initialized \in [1..MaxProviders -> {"pending", "ok", "rejected"}]
    /\ client = "none" <=> made = 0
    /\ client = "connecting" => instance # 0
    /\ \A p \in 1..MaxProviders :
          /\ initialized[p] # "pending" => client \in {"connected", "closed", "failed"}
          /\ initialized[p] = "rejected" => client = "failed"
    /\ ready \in {"pending", "ok", "rejected"}
    /\ core = 0 => ready = "pending" /\ \A k \in Levels, a \in Attempts : st[k][a] = "none"

\* d was added among the first k decorators, and no fallback after it among them.
Within(d, k) == \E i \in 1..k : order[i] = d
Exposed(d, k) ==
    \E i \in 1..k : order[i] = d /\ \A j \in 1..k : j > i => order[j] # "fallback"

\* What level k ends with has a cause among the first k decorators.
Caused(k, a) ==
    /\ st[k][a] = "substitute" => Within("fallback", k)
    /\ st[k][a] = "timeout" => Exposed("timeout", k)
    /\ st[k][a] = "exceeded" => Exposed("retry", k)
    /\ st[k][a] = "ok" => \E b \in Attempts : st[0][b] = "ok"
    /\ st[k][a] = "broken" =>
          /\ Within("retry", k) \/ Within("fallback", k)
          /\ client = "failed" \/ (Within("retry", k) /\ ready = "rejected")
          /\ (\E i, j \in 1..k : j < i /\ order[j] = "retry" /\ order[i] = "fallback")
                => initialized[core] = "rejected"

Causes == \A k \in 0..Top, a \in Attempts : Caused(k, a)

Late == answered \subseteq Attempts
        /\ (answered # {} => Outside("timeout", "retry") \/ Outside("timeout", "fallback"))

PipeInv == Shape /\ Loops /\ Timers /\ Providing /\ Causes /\ Late

LEMMA OrderFacts ==
    ASSUME order \in Orders
    PROVE  /\ Top \in 0..3 /\ \A k \in 1..Top : order[k] \in Decorators
           /\ \A j, k \in 1..Top : order[j] = order[k] => j = k
<1>1. order \in Seq(Decorators) /\ \A j, k \in DOMAIN order : order[j] = order[k] => j = k
  BY PipeAssumption
<1>2. Top \in Nat /\ DOMAIN order = 1..Top /\ \A k \in 1..Top : order[k] \in Decorators
  BY <1>1 DEF Top
<1>3. ASSUME Top > 3
      PROVE  FALSE
  <2>1. 1 \in 1..Top /\ 2 \in 1..Top /\ 3 \in 1..Top /\ 4 \in 1..Top
    BY <1>2, <1>3
  <2>2. order[1] # order[2] /\ order[1] # order[3] /\ order[1] # order[4]
        /\ order[2] # order[3] /\ order[2] # order[4] /\ order[3] # order[4]
    BY <1>1, <1>2, <2>1
  <2> QED
    BY <1>2, <2>1, <2>2 DEF Decorators
<1> QED
  BY <1>1, <1>2, <1>3

\* What the two ways of changing st do to every level and attempt.
LEMMA BecomesFacts ==
    ASSUME st \in [Levels -> [Attempts -> States]], NEW k \in Levels, NEW a \in Attempts,
           NEW s \in States, Becomes(k, a, s)
    PROVE  /\ st' \in [Levels -> [Attempts -> States]]
           /\ st'[k][a] = s
           /\ \A j \in Levels, b \in Attempts : j # k \/ b # a => st'[j][b] = st[j][b]
BY DEF Becomes

LEMMA InvokesFacts ==
    ASSUME st \in [Levels -> [Attempts -> States]], NEW k \in 1..3,
           NEW a \in Attempts, NEW b \in Attempts, Invokes(k, a, b)
    PROVE  /\ st' \in [Levels -> [Attempts -> States]]
           /\ st'[k][a] = "running" /\ st'[k - 1][b] = "called"
           /\ \A j \in Levels, c \in Attempts :
                 (j # k \/ c # a) /\ (j # k - 1 \/ c # b) => st'[j][c] = st[j][c]
<1>1. k \in Levels /\ k - 1 \in Levels /\ k # k - 1
  BY DEF Levels
<1>2. "running" \in States /\ "called" \in States
  BY DEF States
<1>3. st' = [st EXCEPT ![k][a] = "running", ![k - 1][b] = "called"]
  BY DEF Invokes
<1> QED
  BY <1>1, <1>2, <1>3

-----------------------------------------------------------------------------
(* What the changes of st keep.                                            *)

\* The numbers and the sets that levels and attempts range over.
LEMMA LevelFacts ==
    ASSUME Shape
    PROVE  /\ Top \in 0..3 /\ \A k \in 1..Top : k \in Levels /\ k - 1 \in Levels /\ k \in Nat
           /\ \A k \in 1..Top : order[k] \in Decorators
           /\ \A j, k \in 1..Top : order[j] = order[k] => j = k
           /\ 0 \in Levels /\ Top \in Levels /\ 1 \in Attempts
           /\ MaxAttempts \in Nat \ {0} /\ Attempts \subseteq Nat
<1>1. /\ Top \in 0..3 /\ \A k \in 1..Top : order[k] \in Decorators
      /\ \A j, k \in 1..Top : order[j] = order[k] => j = k
  BY OrderFacts DEF Shape
<1> QED
  BY <1>1, PipeAssumption DEF Levels, Attempts

\* A level that runs goes on to rest, to sleep or to act, or the function to run.
LEMMA MoveShape ==
    ASSUME Shape, NEW k \in 0..Top, NEW a \in Attempts, NEW s \in States \ {"none", "called"},
           st[k][a] \notin AtRest, Becomes(k, a, s), UNCHANGED order,
           s = "sleeping" => k # 0 /\ order[k] = "retry",
           k # 0 /\ order[k] # "timeout" /\ s # "running" =>
              \A b \in Attempts : Kid(k, a, b) => st[k - 1][b] \in AtRest
    PROVE  Shape'
<1>1. /\ Top \in 0..3 /\ \A j \in 1..Top : j \in Levels /\ j - 1 \in Levels /\ j \in Nat
      /\ 0 \in Levels
  BY LevelFacts
<1>2. k \in Levels /\ k <= Top
  BY <1>1 DEF Levels
<1>3. /\ st' \in [Levels -> [Attempts -> States]]
      /\ st'[k][a] = s
      /\ \A j \in Levels, b \in Attempts : j # k \/ b # a => st'[j][b] = st[j][b]
  BY <1>2, BecomesFacts DEF Shape
<1>4. /\ Top' = Top /\ \A j, b : Live(j, b)' <=> Live(j, b)
      /\ \A j, b, c : Kid(j, b, c)' <=> Kid(j, b, c)
  BY DEF Top, Live, Kid
<1>5. \A j \in Levels, b \in Attempts : st'[j][b] # "none" => j <= Top' /\ Live(j, b)'
  BY <1>2, <1>3, <1>4 DEF Shape, AtRest
<1>6. \A j \in Levels, b \in Attempts :
         st'[j][b] = "sleeping" => j # 0 /\ order'[j] = "retry"
  BY <1>2, <1>3 DEF Shape
<1>7. ASSUME NEW j \in 1..Top, NEW b \in Attempts, NEW c \in Attempts, Live(j, b), Kid(j, b, c)
      PROVE  /\ st'[j][b] \in {"none", "called"} => st'[j - 1][c] = "none"
             /\ st'[j][b] # "running" /\ order[j] # "timeout" => st'[j - 1][c] \in AtRest
  <2>1. /\ st[j][b] \in {"none", "called"} => st[j - 1][c] = "none"
        /\ st[j][b] # "running" /\ order[j] # "timeout" => st[j - 1][c] \in AtRest
    BY <1>7 DEF Shape, Nested
  <2>2. j \in Levels /\ j - 1 \in Levels /\ j \in Nat
    BY <1>1
  <2>3. CASE j = k /\ b = a
    <3>1. st'[j - 1][c] = st[j - 1][c]
      BY <1>3, <2>2, <2>3
    <3> QED
      BY <1>3, <1>7, <2>3, <3>1
  <2>4. CASE j - 1 = k /\ c = a
    <3>1. st'[j][b] = st[j][b]
      BY <1>3, <2>2, <2>4
    <3>2. st[j - 1][c] \notin AtRest
      BY <2>4
    <3> QED
      BY <2>1, <3>1, <3>2 DEF AtRest
  <2>5. CASE ~ (j = k /\ b = a) /\ ~ (j - 1 = k /\ c = a)
    <3>1. st'[j][b] = st[j][b] /\ st'[j - 1][c] = st[j - 1][c]
      BY <1>3, <2>2, <2>5
    <3> QED
      BY <2>1, <3>1
  <2> QED
    BY <2>3, <2>4, <2>5
<1>8. Nested'
  BY <1>4, <1>7 DEF Nested
<1> QED
  BY <1>3, <1>5, <1>6, <1>8 DEF Shape

\* A level that was called or slept calls the one below.
LEMMA InvokeShape ==
    ASSUME Shape, NEW k \in 1..Top, NEW a \in Attempts, NEW b \in Attempts,
           st[k][a] \in {"called", "sleeping"}, Kid(k, a, b), st[k - 1][b] = "none",
           Invokes(k, a, b), UNCHANGED order
    PROVE  Shape'
<1>1. /\ Top \in 0..3 /\ \A j \in 1..Top : j \in Levels /\ j - 1 \in Levels /\ j \in Nat
      /\ \A i, j \in 1..Top : order[i] = order[j] => i = j
  BY LevelFacts
<1>2. k \in 1..3 /\ k \in Levels /\ k - 1 \in Levels /\ Live(k, a)
  BY <1>1 DEF Shape
<1>3. /\ st' \in [Levels -> [Attempts -> States]]
      /\ st'[k][a] = "running" /\ st'[k - 1][b] = "called"
      /\ \A j \in Levels, c \in Attempts :
            (j # k \/ c # a) /\ (j # k - 1 \/ c # b) => st'[j][c] = st[j][c]
  BY <1>2, InvokesFacts DEF Shape
<1>4. /\ Top' = Top /\ \A j, c : Live(j, c)' <=> Live(j, c)
      /\ \A j, c, d : Kid(j, c, d)' <=> Kid(j, c, d)
  BY DEF Top, Live, Kid
<1>5. Live(k - 1, b)
  BY <1>1, <1>2 DEF Live, Kid
<1>6. \A j \in Levels, c \in Attempts : st'[j][c] # "none" => j <= Top' /\ Live(j, c)'
  <2>1. k - 1 <= Top
    BY <1>1
  <2> QED
    BY <1>2, <1>3, <1>4, <1>5, <2>1 DEF Shape
<1>7. \A j \in Levels, c \in Attempts :
         st'[j][c] = "sleeping" => j # 0 /\ order'[j] = "retry"
  BY <1>2, <1>3 DEF Shape
<1>8. ASSUME NEW j \in 1..Top, NEW c \in Attempts, NEW d \in Attempts, Live(j, c), Kid(j, c, d)
      PROVE  /\ st'[j][c] \in {"none", "called"} => st'[j - 1][d] = "none"
             /\ st'[j][c] # "running" /\ order[j] # "timeout" => st'[j - 1][d] \in AtRest
  <2>1. /\ st[j][c] \in {"none", "called"} => st[j - 1][d] = "none"
        /\ st[j][c] # "running" /\ order[j] # "timeout" => st[j - 1][d] \in AtRest
    BY <1>8 DEF Shape, Nested
  <2>2. j \in Levels /\ j - 1 \in Levels /\ j \in Nat /\ k \in Nat
    BY <1>1
  <2>3. CASE j = k /\ c = a
    BY <1>3, <2>3
  <2>4. CASE j = k /\ c # a
    \* No other attempt of this level calls the same attempt of the one below.
    <3>1. d # b
      <4>1. CASE order[k] = "retry"
        <5>1. \A e : Live(k, e) => e = 1
          BY <1>1, <4>1 DEF Live
        <5> QED
          BY <1>2, <1>8, <2>4, <5>1
      <4>2. CASE order[k] # "retry"
        BY <1>8, <2>4, <4>2 DEF Kid
      <4> QED
        BY <4>1, <4>2
    <3>2. st'[j][c] = st[j][c] /\ st'[j - 1][d] = st[j - 1][d]
      BY <1>3, <2>2, <2>4, <3>1
    <3> QED
      BY <2>1, <3>2
  <2>5. CASE j = k - 1 /\ c = b
    <3>1. st'[j][c] = "called" /\ st'[j - 1][d] = st[j - 1][d] /\ st[j][c] = "none"
      BY <1>3, <2>2, <2>5
    <3> QED
      BY <2>1, <3>1 DEF AtRest
  <2>6. CASE j = k - 1 /\ c # b
    <3>1. st'[j][c] = st[j][c] /\ st'[j - 1][d] = st[j - 1][d]
      BY <1>3, <2>2, <2>6
    <3> QED
      BY <2>1, <3>1
  <2>7. CASE j # k /\ j # k - 1
    <3>1. st'[j][c] = st[j][c]
      BY <1>3, <2>2, <2>7
    <3>2. CASE j - 1 = k /\ d = a
      <4>1. st[j - 1][d] \in {"called", "sleeping"}
        BY <3>2
      <4>2. st[j - 1][d] \notin AtRest
        BY <4>1 DEF AtRest, Settled, Fulfilled, Rejected
      <4> QED
        BY <2>1, <3>1, <4>1, <4>2
    <3>3. CASE ~ (j - 1 = k /\ d = a)
      <4>1. st'[j - 1][d] = st[j - 1][d]
        BY <1>3, <2>2, <2>7, <3>3
      <4> QED
        BY <2>1, <3>1, <4>1
    <3> QED
      BY <3>2, <3>3
  <2> QED
    BY <2>3, <2>4, <2>5, <2>6, <2>7
<1>9. Nested'
  BY <1>4, <1>8 DEF Nested
<1> QED
  BY <1>3, <1>6, <1>7, <1>9 DEF Shape

\* What has been under way changes nothing of the loop, but that of a retry which ends.
LEMMA MoveLoops ==
    ASSUME Shape, Loops, NEW k \in 0..Top, NEW a \in Attempts,
           NEW s \in States \ {"none", "called"}, st[k][a] \notin AtRest, Becomes(k, a, s),
           UNCHANGED <<order, failures>>,
           k # 0 /\ order[k] = "retry" => s \in Fulfilled \/ (s = "broken" /\ failures = 0)
    PROVE  Loops'
<1>1. /\ Top \in 0..3 /\ \A j \in 1..Top : j \in Levels /\ j - 1 \in Levels /\ j \in Nat
      /\ 0 \in Levels /\ 1 \in Attempts /\ Attempts \subseteq Nat
  BY LevelFacts
<1>2. k \in Levels /\ k \in Nat
  BY <1>1 DEF Levels
<1>3. /\ st'[k][a] = s
      /\ \A j \in Levels, b \in Attempts : j # k \/ b # a => st'[j][b] = st[j][b]
  BY <1>2, BecomesFacts DEF Shape
<1>4. failures \in Nat /\ failures \in 0..MaxAttempts /\ MaxAttempts \in Nat
  BY LevelFacts DEF Loops
<1>5. ASSUME NEW j \in 1..Top, order[j] = "retry"
      PROVE  Loop(j)'
  <2>1. /\ \A b \in Attempts : /\ b > failures + 1 => st[j - 1][b] = "none"
                               /\ b <= failures => st[j - 1][b] \in Settled
        /\ st[j][1] \in {"none", "called", "broken"} => failures = 0
        /\ st[j][1] \in {"running", "sleeping"} => failures < MaxAttempts
        /\ st[j][1] = "sleeping" => st[j - 1][failures + 1] = "none"
    BY <1>5 DEF Loops, Loop
  <2>2. j \in Levels /\ j - 1 \in Levels /\ j # j - 1 /\ j \in Nat
    BY <1>1
  <2>3. \A b \in Attempts : /\ b > failures + 1 => st'[j - 1][b] = "none"
                            /\ b <= failures => st'[j - 1][b] \in Settled
    BY <1>3, <2>1, <2>2 DEF AtRest
  <2>4. st'[j][1] \in {"none", "called", "broken"} => failures = 0
    BY <1>1, <1>3, <1>5, <2>1, <2>2 DEF Fulfilled
  <2>5. st'[j][1] \in {"running", "sleeping"} => st'[j][1] = st[j][1]
    BY <1>1, <1>3, <1>5, <2>2 DEF Fulfilled
  <2>6. st'[j][1] = "sleeping" => st'[j - 1][failures + 1] = "none"
    <3>1. SUFFICES ASSUME st'[j][1] = "sleeping"
                   PROVE  st'[j - 1][failures + 1] = "none"
      OBVIOUS
    <3>2. failures + 1 \in Attempts /\ st[j - 1][failures + 1] = "none"
      BY <1>4, <2>1, <2>5, <3>1 DEF Attempts
    <3> QED
      BY <1>3, <2>2, <3>2 DEF AtRest
  <2> QED
    BY <2>1, <2>3, <2>4, <2>5, <2>6 DEF Loop
<1> QED
  BY <1>4, <1>5 DEF Loops, Top

LEMMA InvokeLoops ==
    ASSUME Shape, Loops, NEW k \in 1..Top, NEW a \in Attempts, NEW b \in Attempts,
           st[k][a] \in {"called", "sleeping"}, st[k - 1][b] = "none",
           order[k] = "retry" => b = failures + 1,
           Invokes(k, a, b), UNCHANGED <<order, failures>>
    PROVE  Loops'
<1>1. /\ Top \in 0..3 /\ \A j \in 1..Top : j \in Levels /\ j - 1 \in Levels /\ j \in Nat
      /\ \A i, j \in 1..Top : order[i] = order[j] => i = j
      /\ 1 \in Attempts /\ Attempts \subseteq Nat
  BY LevelFacts
<1>2. k \in 1..3 /\ k \in Levels /\ k - 1 \in Levels
  BY <1>1
<1>3. /\ st'[k][a] = "running" /\ st'[k - 1][b] = "called"
      /\ \A j \in Levels, c \in Attempts :
            (j # k \/ c # a) /\ (j # k - 1 \/ c # b) => st'[j][c] = st[j][c]
  BY <1>2, InvokesFacts DEF Shape
<1>4. failures \in Nat /\ failures \in 0..MaxAttempts /\ MaxAttempts \in Nat
  BY LevelFacts DEF Loops
<1>5. st[k][a] \notin AtRest
  BY DEF AtRest, Settled, Fulfilled, Rejected
<1>6. ASSUME NEW j \in 1..Top, order[j] = "retry"
      PROVE  Loop(j)'
  <2>1. /\ \A c \in Attempts : /\ c > failures + 1 => st[j - 1][c] = "none"
                               /\ c <= failures => st[j - 1][c] \in Settled
        /\ st[j][1] \in {"none", "called", "broken"} => failures = 0
        /\ st[j][1] \in {"running", "sleeping"} => failures < MaxAttempts
        /\ st[j][1] = "sleeping" => st[j - 1][failures + 1] = "none"
    BY <1>6 DEF Loops, Loop
  <2>2. j \in Levels /\ j - 1 \in Levels /\ j # j - 1 /\ j \in Nat
    BY <1>1
  <2>3. CASE j = k
    <3>1. a = 1
      BY <1>1, <1>2, <1>6, <2>3 DEF Shape, Live
    <3>2. b = failures + 1 /\ failures < MaxAttempts
      BY <1>4, <1>6, <2>3 DEF Attempts
    <3>3. \A c \in Attempts : /\ c > failures + 1 => st'[j - 1][c] = "none"
                              /\ c <= failures => st'[j - 1][c] \in Settled
      BY <1>1, <1>2, <1>3, <1>4, <2>1, <2>2, <2>3, <3>2
    <3>4. st'[j][1] = "running"
      BY <1>3, <2>3, <3>1
    <3> QED
      BY <3>2, <3>3, <3>4 DEF Loop
  <2>4. CASE j = k - 1
    <3>1. \A c \in Attempts : st'[j - 1][c] = st[j - 1][c]
      BY <1>2, <1>3, <2>2, <2>4
    <3>2. b = 1 => failures = 0 /\ st'[j][1] = "called"
      BY <1>3, <2>1, <2>4
    <3>3. b # 1 => st'[j][1] = st[j][1]
      BY <1>1, <1>2, <1>3, <2>2, <2>4
    <3>4. failures < MaxAttempts => failures + 1 \in Attempts
      BY <1>4 DEF Attempts
    <3> QED
      BY <2>1, <3>1, <3>2, <3>3, <3>4 DEF Loop
  <2>5. CASE j # k /\ j # k - 1
    <3>1. st'[j][1] = st[j][1]
      BY <1>1, <1>3, <2>2, <2>5
    <3>2. \A c \in Attempts : st[j - 1][c] \in AtRest => st'[j - 1][c] = st[j - 1][c]
      BY <1>2, <1>3, <1>5, <2>2, <2>5
    <3>3. failures < MaxAttempts => failures + 1 \in Attempts
      BY <1>4 DEF Attempts
    <3> QED
      BY <2>1, <3>1, <3>2, <3>3 DEF Loop, AtRest
  <2> QED
    BY <2>3, <2>4, <2>5
<1> QED
  BY <1>4, <1>6 DEF Loops, Top

\* The timer of an innermost timeout.
LEMMA MoveTimers ==
    ASSUME Shape, Timers, NEW k \in 0..Top, NEW a \in Attempts,
           NEW s \in States \ {"none", "called"}, Becomes(k, a, s), UNCHANGED <<order, timer>>,
           k = 1 /\ order[1] = "timeout" /\ s \in Settled => st[0][a] # "called"
    PROVE  Timers'
<1>1. /\ Top \in 0..3 /\ \A j \in 1..Top : j \in Levels /\ j - 1 \in Levels /\ j \in Nat
      /\ 0 \in Levels
  BY LevelFacts
<1>2. k \in Levels
  BY <1>1 DEF Levels
<1>3. /\ st'[k][a] = s
      /\ \A j \in Levels, b \in Attempts : j # k \/ b # a => st'[j][b] = st[j][b]
  BY <1>2, BecomesFacts DEF Shape
<1>4. \A j, d : Is(j, d)' <=> Is(j, d)
  BY DEF Is, Top
<1>5. ASSUME Is(1, "timeout"), NEW b \in Attempts
      PROVE  /\ st'[1][b] \in {"none", "called"} => timer'[b] = "none"
             /\ timer'[b] = "fired" \/ st'[1][b] \in Settled => st'[0][b] # "called"
  <2>1. /\ st[1][b] \in {"none", "called"} => timer[b] = "none"
        /\ timer[b] = "fired" \/ st[1][b] \in Settled => st[0][b] # "called"
    BY <1>5 DEF Timers
  <2>2. 1 \in Levels /\ 0 \in Levels /\ 1 # 0 /\ order[1] = "timeout"
    BY <1>1, <1>5 DEF Is
  <2> QED
    BY <1>3, <2>1, <2>2
<1> QED
  BY <1>4, <1>5 DEF Timers

LEMMA InvokeTimers ==
    ASSUME Shape, Timers, NEW k \in 1..Top, NEW a \in Attempts, NEW b \in Attempts,
           order[k] # "timeout", st[k - 1][b] = "none",
           Invokes(k, a, b), UNCHANGED <<order, timer>>
    PROVE  Timers'
<1>1. /\ Top \in 0..3 /\ \A j \in 1..Top : j \in Levels /\ j - 1 \in Levels /\ j \in Nat
      /\ 0 \in Levels
  BY LevelFacts
<1>2. k \in 1..3 /\ k \in Levels /\ k - 1 \in Levels
  BY <1>1
<1>3. /\ st'[k][a] = "running" /\ st'[k - 1][b] = "called"
      /\ \A j \in Levels, c \in Attempts :
            (j # k \/ c # a) /\ (j # k - 1 \/ c # b) => st'[j][c] = st[j][c]
  BY <1>2, InvokesFacts DEF Shape
<1>4. \A j, d : Is(j, d)' <=> Is(j, d)
  BY DEF Is, Top
<1>5. ASSUME Is(1, "timeout"), NEW c \in Attempts
      PROVE  /\ st'[1][c] \in {"none", "called"} => timer'[c] = "none"
             /\ timer'[c] = "fired" \/ st'[1][c] \in Settled => st'[0][c] # "called"
  <2>1. /\ st[1][c] \in {"none", "called"} => timer[c] = "none"
        /\ timer[c] = "fired" \/ st[1][c] \in Settled => st[0][c] # "called"
    BY <1>5 DEF Timers
  <2>2. 1 \in Levels /\ 0 \in Levels /\ k # 1
    BY <1>1, <1>5 DEF Is
  <2>3. st'[0][c] = st[0][c]
    BY <1>2, <1>3, <2>2
  <2>4. CASE k = 2 /\ c = b
    <3>1. st'[1][c] = "called" /\ st[1][c] = "none"
      BY <1>3, <2>4
    <3> QED
      BY <2>1, <3>1 DEF Settled, Fulfilled, Rejected
  <2>5. CASE ~ (k = 2 /\ c = b)
    <3>1. st'[1][c] = st[1][c]
      BY <1>2, <1>3, <2>2, <2>5
    <3> QED
      BY <2>1, <2>3, <3>1
  <2> QED
    BY <2>4, <2>5
<1> QED
  BY <1>4, <1>5 DEF Timers

\* What gave a level its outcome stays.
LEMMA CauseKept ==
    ASSUME NEW j, NEW b, Caused(j, b), st'[j][b] = st[j][b], UNCHANGED order,
           \A c \in Attempts : st[0][c] = "ok" => st'[0][c] = "ok",
           st[j][b] = "broken" =>
              /\ client = "failed" => client' = "failed"
              /\ ready = "rejected" => ready' = "rejected"
              /\ initialized[core] = "rejected" => initialized'[core'] = "rejected"
    PROVE  Caused(j, b)'
<1>1. \A d : (Within(d, j)' <=> Within(d, j)) /\ (Exposed(d, j)' <=> Exposed(d, j))
  BY DEF Within, Exposed
<1> QED
  BY <1>1 DEF Caused

\* The outcome of a level goes up through a timeout, and unless it is handled through
\* the others.
LEMMA CauseUp ==
    ASSUME Shape, NEW k \in 1..Top, NEW a \in Attempts, NEW b \in Attempts,
           Caused(k - 1, b), st'[k][a] = st[k - 1][b],
           order[k] = "timeout" \/ st[k - 1][b] \in Fulfilled \cup {"other"},
           UNCHANGED <<order, client, initialized, core, ready>>,
           \A c \in Attempts : st[0][c] = "ok" => st'[0][c] = "ok"
    PROVE  Caused(k, a)'
<1>1. Top \in 0..3
  BY LevelFacts
<1>2. k - 1 \in Nat /\ k \in Nat /\ 1..(k - 1) \subseteq 1..k
      /\ \A i \in 1..k : i = k \/ i \in 1..(k - 1)
  BY <1>1
<1>3. \A d : Within(d, k - 1) => Within(d, k)'
  BY <1>2 DEF Within
<1>4. \A d : Exposed(d, k - 1) /\ order[k] = "timeout" => Exposed(d, k)'
  BY <1>2 DEF Exposed
<1>5. order[k] = "timeout" /\ (\E i, j \in 1..k : j < i /\ order[j] = "retry"
                                                 /\ order[i] = "fallback")
         => \E i, j \in 1..(k - 1) : j < i /\ order[j] = "retry" /\ order[i] = "fallback"
  BY <1>2
<1>6. st[k - 1][b] \notin Fulfilled \cup {"other"} => order[k] = "timeout"
  OBVIOUS
<1> QED
  BY <1>3, <1>4, <1>5, <1>6 DEF Caused, Fulfilled

\* Of the other levels and attempts.
LEMMA MoveCauses ==
    ASSUME Shape, Causes, NEW k \in 0..Top, NEW a \in Attempts, NEW s \in States,
           st[k][a] \notin AtRest, Becomes(k, a, s),
           UNCHANGED <<order, client, initialized, core, ready>>, Caused(k, a)'
    PROVE  Causes'
<1>1. Top \in 0..3 /\ 0 \in Levels /\ \A j \in 0..Top : j \in Levels
  BY LevelFacts DEF Levels
<1>2. \A j \in Levels, b \in Attempts : j # k \/ b # a => st'[j][b] = st[j][b]
  BY <1>1, BecomesFacts DEF Shape
<1>3. \A c \in Attempts : st[0][c] = "ok" => st'[0][c] = "ok"
  BY <1>1, <1>2 DEF AtRest, Settled, Fulfilled
<1>4. ASSUME NEW j \in 0..Top, NEW b \in Attempts
      PROVE  Caused(j, b)'
  <2>1. CASE j = k /\ b = a
    BY <2>1
  <2>2. CASE j # k \/ b # a
    <3>1. Caused(j, b) /\ st'[j][b] = st[j][b]
      BY <1>1, <1>2, <2>2 DEF Causes
    <3> QED
      BY <1>3, <3>1, CauseKept
  <2> QED
    BY <2>1, <2>2
<1> QED
  BY <1>4 DEF Causes, Top

\* A level that runs or is called has no outcome to explain.
LEMMA InvokeCauses ==
    ASSUME Shape, Causes, NEW k \in 1..Top, NEW a \in Attempts, NEW b \in Attempts,
           st[k - 1][b] = "none", Invokes(k, a, b),
           UNCHANGED <<order, client, initialized, core, ready>>
    PROVE  Causes'
<1>1. Top \in 0..3 /\ 0 \in Levels /\ \A j \in 0..Top : j \in Levels
  BY LevelFacts DEF Levels
<1>2. k \in 1..3 /\ k # 0
  BY <1>1
<1>3. /\ st'[k][a] = "running" /\ st'[k - 1][b] = "called"
      /\ \A j \in Levels, c \in Attempts :
            (j # k \/ c # a) /\ (j # k - 1 \/ c # b) => st'[j][c] = st[j][c]
  BY <1>2, InvokesFacts DEF Shape
<1>4. \A c \in Attempts : st[0][c] = "ok" => st'[0][c] = "ok"
  BY <1>1, <1>2, <1>3
<1>5. ASSUME NEW j \in 0..Top, NEW c \in Attempts
      PROVE  Caused(j, c)'
  <2>1. CASE st'[j][c] \in {"running", "called"}
    BY <2>1 DEF Caused
  <2>2. CASE st'[j][c] \notin {"running", "called"}
    <3>1. st'[j][c] = st[j][c]
      BY <1>1, <1>3, <2>2
    <3>2. Caused(j, c)
      BY DEF Causes
    <3> QED
      BY <1>4, <3>1, <3>2, CauseKept
  <2> QED
    BY <2>1, <2>2
<1> QED
  BY <1>5 DEF Causes, Top

\* Once the decorators are made, calls do not change what they know of the provider.
LEMMA CallsKeepProviding ==
    ASSUME Providing, core # 0, UNCHANGED <<made, instance, core, client, initialized, ready>>
    PROVE  Providing'
BY DEF Providing

-----------------------------------------------------------------------------
(* What is at rest.                                                        *)

\* At level k no attempt but those of X is under way.
Resting(k, X) == \A b \in Attempts \ X : st[k][b] \in AtRest

\* Whoever waits for a level is not at rest before that level is.
LEMMA RestBelow ==
    ASSUME Shape, NEW k \in 1..Top, order[k] # "timeout", NEW X, Resting(k, X),
           order[k] = "retry" => X = {}
    PROVE  Resting(k - 1, X)
<1>1. /\ Top \in 0..3 /\ k \in Levels /\ k - 1 \in Levels /\ k \in Nat /\ 1 \in Attempts
  BY LevelFacts
<1>2. SUFFICES ASSUME NEW b \in Attempts \ X, st[k - 1][b] # "none"
               PROVE  st[k - 1][b] \in AtRest
  BY DEF Resting, AtRest
<1>3. Live(k - 1, b)
  BY <1>1, <1>2 DEF Shape
<1>4. CASE order[k] = "retry"
  <2>1. st[k][1] \in AtRest
    BY <1>1, <1>4 DEF Resting
  <2>2. Live(k, 1) /\ Kid(k, 1, b)
    BY <1>4 DEF Live, Kid
  <2>3. st[k][1] # "running"
    BY <2>1 DEF AtRest, Settled, Fulfilled, Rejected
  <2> QED
    BY <1>1, <2>2, <2>3 DEF Shape, Nested
<1>5. CASE order[k] # "retry"
  <2>1. Live(k, b) /\ Kid(k, b, b)
    <3>1. \A j \in 1..Top : j > k - 1 => j = k \/ j > k
      BY <1>1
    <3> QED
      BY <1>3, <1>5, <3>1 DEF Live, Kid
  <2>2. st[k][b] # "running"
    BY DEF Resting, AtRest, Settled, Fulfilled, Rejected
  <2> QED
    BY <2>1, <2>2 DEF Shape, Nested
<1> QED
  BY <1>4, <1>5

\* When the call has settled, at most a timeout has left something under way.
LEMMA TopRests ==
    ASSUME Shape, st[Top][1] \in Settled
    PROVE  Resting(Top, {})
<1>1. Top \in 0..3 /\ Top \in Levels
  BY LevelFacts
<1>2. \A b \in Attempts : Live(Top, b) => b = 1
  BY <1>1 DEF Live
<1> QED
  BY <1>1, <1>2 DEF Resting, Shape, AtRest

\* The function is called after the answer only under a timeout that gave up a retry
\* or a fallback.
LEMMA AnsweredLate ==
    ASSUME Shape, Timers, st[Top][1] \in Settled, NEW a \in Attempts, st[0][a] = "called"
    PROVE  Outside("timeout", "retry") \/ Outside("timeout", "fallback")
<1>1. /\ Top \in 0..3 /\ \A j \in 1..Top : order[j] \in Decorators
      /\ \A i, j \in 1..Top : order[i] = order[j] => i = j
  BY LevelFacts
<1>2. SUFFICES ASSUME ~ Outside("timeout", "retry"), ~ Outside("timeout", "fallback")
               PROVE  FALSE
  OBVIOUS
<1>3. \A j \in 1..Top : j # 1 => order[j] # "timeout"
  <2>1. SUFFICES ASSUME NEW j \in 1..Top, j # 1, order[j] = "timeout"
                 PROVE  FALSE
    OBVIOUS
  <2>2. 1 \in 1..Top /\ 1 < j
    BY <1>1, <2>1
  <2>3. order[1] # "timeout"
    BY <1>1, <2>1, <2>2
  <2>4. order[1] \in {"retry", "fallback"}
    BY <1>1, <2>2, <2>3 DEF Decorators
  <2> QED
    BY <1>2, <2>1, <2>2, <2>4 DEF Outside
<1>4. Resting(Top, {})
  BY TopRests
<1>5. st[0][a] \notin AtRest
  BY DEF AtRest, Settled, Fulfilled, Rejected
<1>6. Top # 0
  BY <1>4, <1>5 DEF Resting
<1>7. Top = 3 => Resting(2, {})
  BY <1>1, <1>3, <1>4, RestBelow
<1>8. Top >= 2 => Resting(1, {})
  BY <1>1, <1>3, <1>4, <1>7, RestBelow
<1>9. Resting(1, {}) /\ 1 \in 1..Top
  BY <1>1, <1>4, <1>6, <1>8
<1>10. CASE order[1] = "timeout"
  <2>1. st[1][a] \in AtRest /\ Is(1, "timeout")
    BY <1>9, <1>10 DEF Resting, Is
  <2>2. st[1][a] \notin Settled
    BY <2>1 DEF Timers
  <2>3. st[1][a] = "none"
    BY <2>1, <2>2 DEF AtRest
  <2>4. Live(0, a)
    BY <1>1 DEF Shape, Levels
  <2>5. Live(1, a) /\ Kid(1, a, a)
    <3>1. \A j \in 1..Top : j > 0 /\ order[j] = "retry" => j > 1
      BY <1>1, <1>10
    <3> QED
      BY <2>4, <3>1 DEF Live, Kid
  <2>6. st[0][a] = "none"
    BY <1>9, <2>3, <2>5 DEF Shape, Nested
  <2> QED
    BY <2>6
<1>11. CASE order[1] # "timeout"
  <2>1. Resting(0, {})
    BY <1>9, <1>11, RestBelow
  <2> QED
    BY <1>5, <2>1 DEF Resting
<1> QED
  BY <1>10, <1>11

\* Two attempts are under way only if a timeout inside the retry has given up one.
LEMMA TwoAttempts ==
    ASSUME Shape, Loops, NEW a \in Attempts, NEW b \in Attempts, a # b,
           st[0][a] \notin AtRest, st[0][b] \notin AtRest
    PROVE  Outside("retry", "timeout")
<1>1. /\ Top \in 0..3 /\ \A j \in 1..Top : order[j] \in Decorators
      /\ \A i, j \in 1..Top : order[i] = order[j] => i = j
      /\ 0 \in Levels /\ Attempts \subseteq Nat
  BY LevelFacts
<1>2. Live(0, a) /\ Live(0, b)
  BY <1>1 DEF Shape, AtRest
<1>3. PICK k \in 1..Top : order[k] = "retry"
  BY <1>2 DEF Live
<1>4. SUFFICES ASSUME \A j \in 1..Top : j < k => order[j] # "timeout"
               PROVE  FALSE
  BY <1>3 DEF Outside
<1>5. \A j \in 1..Top : j < k => order[j] # "retry"
  BY <1>1, <1>3
<1>6. failures \in Nat
  BY LevelFacts DEF Loops
<1>7. Resting(k - 1, {failures + 1})
  <2>1. SUFFICES ASSUME NEW c \in Attempts, c # failures + 1
                 PROVE  st[k - 1][c] \in AtRest
    BY DEF Resting
  <2>2. c > failures + 1 \/ c <= failures
    BY <1>1, <1>6, <2>1
  <2> QED
    BY <1>3, <2>2 DEF Loops, Loop, AtRest
<1>8. k = 3 => Resting(1, {failures + 1})
  BY <1>1, <1>4, <1>5, <1>7, RestBelow
<1>9. k >= 2 => Resting(0, {failures + 1})
  BY <1>1, <1>4, <1>5, <1>7, <1>8, RestBelow
<1>10. Resting(0, {failures + 1})
  BY <1>1, <1>7, <1>9
<1> QED
  BY <1>10 DEF Resting

-----------------------------------------------------------------------------
(* A call of a pipeline: every step keeps the invariant.                   *)

LEMMA StateFacts ==
    /\ Settled \subseteq States /\ AtRest \subseteq States
    /\ \A s \in Settled : s \notin {"none", "called", "running", "sleeping", "acting"}
    /\ Fulfilled \subseteq Settled /\ Rejected \subseteq Settled
    /\ {"none", "called", "running", "sleeping", "acting"} \cap Settled = {}
    /\ {"called", "running", "sleeping", "acting"} \cap AtRest = {}
    /\ {"called", "running", "sleeping", "acting", "none"} \subseteq States
BY DEF States, AtRest, Settled, Fulfilled, Rejected

\* The decorators are made before anything is called.
LEMMA CalledMade ==
    ASSUME Providing, NEW k \in Levels, NEW a \in Attempts, st[k][a] # "none"
    PROVE  core # 0
BY DEF Providing

\* An invocation of a level that was called moves on.
LEMMA MoveStep ==
    ASSUME PipeInv, NEW k \in 0..Top, NEW a \in Attempts,
           NEW s \in States \ {"none", "called"}, st[k][a] \notin AtRest, Becomes(k, a, s),
           UNCHANGED <<order, provider, core, ready, timer, failures>>,
           s # "sleeping",
           k # 0 /\ order[k] # "timeout" /\ s # "running" =>
              \A b \in Attempts : Kid(k, a, b) => st[k - 1][b] \in AtRest,
           k # 0 /\ order[k] = "retry" => s \in Fulfilled \/ (s = "broken" /\ failures = 0),
           k = 1 /\ order[1] = "timeout" /\ s \in Settled => st[0][a] # "called",
           Caused(k, a)'
    PROVE  Shape' /\ Loops' /\ Timers' /\ Providing' /\ Causes'
<1>1. Shape'
  BY MoveShape DEF PipeInv
<1>2. Loops'
  BY MoveLoops DEF PipeInv
<1>3. Timers'
  BY MoveTimers DEF PipeInv
<1>4. Providing'
  <2>1. k \in Levels
    BY LevelFacts DEF PipeInv, Levels
  <2>2. core # 0
    BY <2>1, CalledMade DEF PipeInv, AtRest
  <2> QED
    BY <2>2, CallsKeepProviding DEF PipeInv, provider
<1>5. Causes'
  BY MoveCauses DEF PipeInv, provider
<1> QED
  BY <1>1, <1>2, <1>3, <1>4, <1>5

\* Nobody is called: what was answered late was so before.
LEMMA LateKept ==
    ASSUME PipeInv, UNCHANGED <<order, answered>>
    PROVE  Late'
BY DEF PipeInv, Late, Outside, Top

LEMMA CallFunctionStep ==
    ASSUME PipeInv, NEW a \in Attempts, CallFunction(a)
    PROVE  PipeInv'
<1>1. /\ st[0][a] = "called" /\ Becomes(0, a, "running")
      /\ answered' = IF st[Top][1] \in Settled THEN answered \cup {a} ELSE answered
      /\ UNCHANGED <<order, provider, core, ready, timer, failures>>
  BY DEF CallFunction
<1>2. st'[0][a] = "running"
  BY <1>1, BecomesFacts, LevelFacts, StateFacts DEF PipeInv, Shape
<1>3. Caused(0, a)'
  BY <1>2 DEF Caused
<1>4. 0 \in 0..Top
  BY LevelFacts DEF PipeInv
<1>5. Shape' /\ Loops' /\ Timers' /\ Providing' /\ Causes'
  BY <1>1, <1>3, <1>4, MoveStep, StateFacts
<1>6. Late'
  <2>1. CASE st[Top][1] \in Settled
    <3>1. Outside("timeout", "retry") \/ Outside("timeout", "fallback")
      BY <1>1, <2>1, AnsweredLate DEF PipeInv
    <3> QED
      BY <1>1, <3>1 DEF PipeInv, Late, Outside, Top
  <2>2. CASE st[Top][1] \notin Settled
    BY <1>1, <2>2, LateKept
  <2> QED
    BY <2>1, <2>2
<1> QED
  BY <1>5, <1>6 DEF PipeInv

LEMMA FunctionSettlesStep ==
    ASSUME PipeInv, NEW a \in Attempts, FunctionSettles(a)
    PROVE  PipeInv'
<1>1. PICK s \in {"ok", "error", "other"} : Becomes(0, a, s)
  BY DEF FunctionSettles
<1>2. /\ st[0][a] = "running"
      /\ UNCHANGED <<order, provider, core, ready, timer, failures, answered>>
  BY DEF FunctionSettles
<1>3. s \in Settled
  BY DEF Settled, Fulfilled, Rejected
<1>4. st'[0][a] = s
  BY <1>1, <1>3, BecomesFacts, LevelFacts, StateFacts DEF PipeInv, Shape
<1>5. Caused(0, a)'
  BY <1>4 DEF Caused
<1>6. 0 \in 0..Top
  BY LevelFacts DEF PipeInv
<1>7. Shape' /\ Loops' /\ Timers' /\ Providing' /\ Causes'
  BY <1>1, <1>2, <1>3, <1>5, <1>6, MoveStep, StateFacts
<1> QED
  BY <1>2, <1>7, LateKept DEF PipeInv

\* What the levels of a retry and of another decorator wait for.
LEMMA ChildFacts ==
    ASSUME Shape, Loops, NEW k \in 1..Top, NEW a \in Attempts, st[k][a] = "running"
    PROVE  /\ order[k] = "retry" =>
                 /\ a = 1 /\ failures < MaxAttempts /\ failures + 1 \in Attempts
                 /\ Child(k, a) = st[k - 1][failures + 1]
           /\ order[k] # "retry" => Child(k, a) = st[k - 1][a]
<1>1. /\ k \in Levels /\ Top \in 0..3 /\ MaxAttempts \in Nat
      /\ \A i, j \in 1..Top : order[i] = order[j] => i = j
  BY LevelFacts
<1>2. ASSUME order[k] = "retry"
      PROVE  a = 1
  BY <1>1, <1>2 DEF Shape, Live
<1>3. order[k] = "retry" => failures < MaxAttempts /\ failures \in Nat
  BY <1>1, <1>2 DEF Loops, Loop
<1> QED
  BY <1>1, <1>2, <1>3 DEF Child, Is, Attempts

LEMMA TimesOutStep ==
    ASSUME PipeInv, NEW k \in 1..Top, NEW a \in Attempts, TimesOut(k, a)
    PROVE  PipeInv'
<1>1. /\ order[k] = "timeout" /\ st[k][a] = "running" /\ timer[a] = "fired"
      /\ Becomes(k, a, "timeout")
      /\ UNCHANGED <<order, provider, core, ready, timer, failures, answered>>
  BY DEF TimesOut, Is
<1>2. k \in 0..Top /\ k \in Levels /\ k \in Nat
  BY LevelFacts DEF PipeInv
<1>3. "timeout" \in Settled /\ "timeout" \in States
  BY DEF Settled, Rejected, States
<1>4. st'[k][a] = "timeout"
  BY <1>1, <1>2, <1>3, BecomesFacts DEF PipeInv, Shape
<1>5. Caused(k, a)'
  <2>1. Exposed("timeout", k)'
    BY <1>1, <1>2 DEF Exposed
  <2> QED
    BY <1>4, <2>1 DEF Caused
<1>6. k = 1 => st[0][a] # "called"
  BY <1>1 DEF PipeInv, Timers, Is
<1>7. Shape' /\ Loops' /\ Timers' /\ Providing' /\ Causes'
  BY <1>1, <1>2, <1>3, <1>5, <1>6, MoveStep, StateFacts
<1> QED
  BY <1>1, <1>7, LateKept DEF PipeInv

LEMMA InTimeStep ==
    ASSUME PipeInv, NEW k \in 1..Top, NEW a \in Attempts, InTime(k, a)
    PROVE  PipeInv'
<1>1. /\ order[k] = "timeout" /\ st[k][a] = "running" /\ Child(k, a) \in Settled
      /\ Becomes(k, a, Child(k, a))
      /\ UNCHANGED <<order, provider, core, ready, timer, failures, answered>>
  BY DEF InTime, Is
<1>2. k \in 0..Top /\ k \in Levels /\ k - 1 \in 0..Top /\ k - 1 \in Levels
  BY LevelFacts DEF PipeInv
<1>3. Child(k, a) = st[k - 1][a]
  BY <1>1, ChildFacts DEF PipeInv
<1>4. /\ st'[k][a] = st[k - 1][a]
      /\ \A j \in Levels, b \in Attempts : j # k \/ b # a => st'[j][b] = st[j][b]
  BY <1>1, <1>2, <1>3, BecomesFacts, StateFacts DEF PipeInv, Shape
<1>5. Caused(k, a)'
  <2>1. Caused(k - 1, a)
    BY <1>2 DEF PipeInv, Causes
  <2>2. \A c \in Attempts : st[0][c] = "ok" => st'[0][c] = "ok"
    BY <1>2, <1>4, LevelFacts DEF PipeInv
  <2> QED
    BY <1>1, <1>4, <2>1, <2>2, CauseUp DEF PipeInv, provider
<1>6. k = 1 => st[0][a] # "called"
  BY <1>1, <1>3, StateFacts
<1>7. Shape' /\ Loops' /\ Timers' /\ Providing' /\ Causes'
  BY <1>1, <1>2, <1>5, <1>6, MoveStep, StateFacts
<1> QED
  BY <1>1, <1>7, LateKept DEF PipeInv

LEMMA FallbackReturnsStep ==
    ASSUME PipeInv, NEW k \in 1..Top, NEW a \in Attempts, FallbackReturns(k, a)
    PROVE  PipeInv'
<1> DEFINE s == IF Handles(Child(k, a)) THEN "acting" ELSE Child(k, a)
<1>1. /\ order[k] = "fallback" /\ st[k][a] = "running" /\ Child(k, a) \in Settled
      /\ Becomes(k, a, s)
      /\ UNCHANGED <<order, provider, core, ready, timer, failures, answered>>
  BY DEF FallbackReturns, Is
<1>2. k \in 0..Top /\ k \in Levels /\ k - 1 \in 0..Top /\ k - 1 \in Levels
  BY LevelFacts DEF PipeInv
<1>3. Child(k, a) = st[k - 1][a]
  BY <1>1, ChildFacts DEF PipeInv
<1>4. s \in States \ {"none", "called", "sleeping", "running"}
  BY <1>1, StateFacts
<1>5. /\ st'[k][a] = s
      /\ \A j \in Levels, b \in Attempts : j # k \/ b # a => st'[j][b] = st[j][b]
  BY <1>1, <1>2, <1>4, BecomesFacts DEF PipeInv, Shape
<1>6. Caused(k, a)'
  <2>1. CASE Handles(Child(k, a))
    BY <1>5, <2>1 DEF Caused
  <2>2. CASE ~ Handles(Child(k, a))
    <3>1. Caused(k - 1, a)
      BY <1>2 DEF PipeInv, Causes
    <3>2. \A c \in Attempts : st[0][c] = "ok" => st'[0][c] = "ok"
      BY <1>2, <1>5, LevelFacts DEF PipeInv
    <3>3. st[k - 1][a] \in Fulfilled \cup {"other"} /\ st'[k][a] = st[k - 1][a]
      BY <1>1, <1>3, <1>5, <2>2 DEF Handles, Settled
    <3> QED
      BY <1>1, <3>1, <3>2, <3>3, CauseUp DEF PipeInv, provider
  <2> QED
    BY <2>1, <2>2
<1>7. \A b \in Attempts : Kid(k, a, b) => st[k - 1][b] \in AtRest
  BY <1>1, <1>3 DEF Kid, AtRest
<1>8. st[k][a] \notin AtRest
  BY <1>1, StateFacts
<1> HIDE DEF s
<1>9. Shape' /\ Loops' /\ Timers' /\ Providing' /\ Causes'
  BY <1>1, <1>2, <1>4, <1>6, <1>7, <1>8, MoveStep
<1> QED
  BY <1>1, <1>9, LateKept DEF PipeInv

LEMMA FallbackActsStep ==
    ASSUME PipeInv, NEW k \in 1..Top, NEW a \in Attempts, FallbackActs(k, a)
    PROVE  PipeInv'
<1>1. PICK s \in {"substitute", "error"} : Becomes(k, a, s)
  BY DEF FallbackActs
<1>2. /\ order[k] = "fallback" /\ st[k][a] = "acting"
      /\ UNCHANGED <<order, provider, core, ready, timer, failures, answered>>
  BY DEF FallbackActs, Is
<1>3. k \in 0..Top /\ k \in Levels /\ k \in Nat
  BY LevelFacts DEF PipeInv
<1>4. s \in Settled /\ s \in States \ {"none", "called", "sleeping", "running"}
  BY DEF Settled, Fulfilled, Rejected, States
<1>5. st'[k][a] = s
  BY <1>1, <1>3, <1>4, BecomesFacts DEF PipeInv, Shape
<1>6. Caused(k, a)'
  <2>1. Within("fallback", k)'
    BY <1>2, <1>3 DEF Within
  <2> QED
    BY <1>5, <2>1 DEF Caused
<1>7. \A b \in Attempts : Kid(k, a, b) => st[k - 1][b] \in AtRest
  <2>1. Live(k, a) /\ st[k][a] # "running"
    BY <1>2, <1>3 DEF PipeInv, Shape
  <2> QED
    BY <1>2, <2>1 DEF PipeInv, Shape, Nested
<1>8. st[k][a] \notin AtRest
  BY <1>2, StateFacts
<1>9. Shape' /\ Loops' /\ Timers' /\ Providing' /\ Causes'
  BY <1>1, <1>2, <1>3, <1>4, <1>6, <1>7, <1>8, MoveStep
<1> QED
  BY <1>2, <1>9, LateKept DEF PipeInv

\* An invocation of a level other than a timeout calls the level below.
LEMMA InvokeStep ==
    ASSUME PipeInv, NEW k \in 1..Top, NEW a \in Attempts, NEW b \in Attempts,
           st[k][a] \in {"called", "sleeping"}, Kid(k, a, b), st[k - 1][b] = "none",
           order[k] = "retry" => b = failures + 1, order[k] # "timeout",
           Invokes(k, a, b), UNCHANGED <<order, provider, core, ready, timer, failures, answered>>
    PROVE  PipeInv'
<1>1. Shape'
  BY InvokeShape DEF PipeInv
<1>2. Loops'
  BY InvokeLoops DEF PipeInv
<1>3. Timers'
  BY InvokeTimers DEF PipeInv
<1>4. Providing'
  <2>1. k \in Levels
    BY LevelFacts DEF PipeInv
  <2>2. core # 0
    BY <2>1, CalledMade DEF PipeInv
  <2> QED
    BY <2>2, CallsKeepProviding DEF PipeInv, provider
<1>5. Causes'
  BY InvokeCauses DEF PipeInv, provider
<1> QED
  BY <1>1, <1>2, <1>3, <1>4, <1>5, LateKept DEF PipeInv

\* A level that was called has called nobody.
LEMMA CalledFacts ==
    ASSUME Shape, Loops, NEW k \in 1..Top, NEW a \in Attempts, st[k][a] = "called"
    PROVE  /\ \A b \in Attempts : Kid(k, a, b) => st[k - 1][b] = "none"
           /\ order[k] = "retry" => a = 1 /\ failures = 0
<1>1. /\ k \in Levels /\ Top \in 0..3
      /\ \A i, j \in 1..Top : order[i] = order[j] => i = j
  BY LevelFacts
<1>2. Live(k, a)
  BY <1>1 DEF Shape
<1>3. \A b \in Attempts : Kid(k, a, b) => st[k - 1][b] = "none"
  BY <1>2 DEF Shape, Nested
<1>4. ASSUME order[k] = "retry"
      PROVE  a = 1 /\ failures = 0
  <2>1. a = 1
    BY <1>1, <1>2, <1>4 DEF Live
  <2> QED
    BY <1>4, <2>1 DEF Loops, Loop
<1> QED
  BY <1>3, <1>4

LEMMA InitializedStep ==
    ASSUME PipeInv, NEW k \in 1..Top, NEW a \in Attempts, Initialized(k, a)
    PROVE  PipeInv'
<1>1. /\ order[k] \in {"retry", "fallback"} /\ st[k][a] = "called" /\ Awaits(k) # "pending"
      /\ IF Awaits(k) = "ok" THEN Invokes(k, a, a) ELSE Becomes(k, a, "broken")
      /\ UNCHANGED <<order, provider, core, ready, timer, failures, answered>>
  BY DEF Initialized, Is
<1>2. /\ \A b \in Attempts : Kid(k, a, b) => st[k - 1][b] = "none"
      /\ order[k] = "retry" => a = 1 /\ failures = 0
  BY <1>1, CalledFacts DEF PipeInv
<1>3. /\ k \in 0..Top /\ k \in Levels /\ k \in Nat /\ Top \in 0..3
      /\ \A i, j \in 1..Top : order[i] = order[j] => i = j
  BY LevelFacts DEF PipeInv
<1>4. CASE Awaits(k) = "ok"
  <2>1. Kid(k, a, a) /\ (order[k] = "retry" => a = failures + 1)
    BY <1>2 DEF Kid
  <2> QED
    BY <1>1, <1>2, <1>4, <2>1, InvokeStep
<1>5. CASE Awaits(k) # "ok"
  <2>1. Becomes(k, a, "broken") /\ "broken" \in Settled /\ "broken" \in States
    BY <1>1, <1>5 DEF Settled, Rejected, States
  <2>2. st'[k][a] = "broken"
    BY <1>3, <2>1, BecomesFacts DEF PipeInv, Shape
  <2>3. core \in 1..MaxProviders
    BY <1>1, <1>3, CalledMade, PipeAssumption DEF PipeInv, Providing
  <2>4. /\ order[k] = "retry" => ready = "rejected"
        /\ order[k] = "fallback" => initialized[core] = "rejected"
    BY <1>1, <1>5, <2>3 DEF Awaits, Is, PipeInv, Providing
  <2>5. Caused(k, a)'
    <3>1. Within("retry", k)' \/ Within("fallback", k)'
      BY <1>1, <1>3 DEF Within
    <3>2. client = "failed" \/ (Within("retry", k) /\ ready = "rejected")
      BY <1>1, <1>3, <2>3, <2>4 DEF PipeInv, Providing, Within
    <3>3. (\E i, j \in 1..k : j < i /\ order[j] = "retry" /\ order[i] = "fallback")
             => initialized[core] = "rejected"
      <4>1. SUFFICES ASSUME NEW i \in 1..k, NEW j \in 1..k, j < i, order[j] = "retry",
                            order[k] = "retry"
                     PROVE  FALSE
        BY <1>1, <2>4
      <4>2. j \in 1..Top /\ j # k
        BY <1>3, <4>1
      <4> QED
        BY <1>3, <4>1, <4>2
    <3> QED
      BY <1>1, <2>2, <3>1, <3>2, <3>3 DEF Caused, Within, provider
  <2>6. \A b \in Attempts : Kid(k, a, b) => st[k - 1][b] \in AtRest
    BY <1>2 DEF AtRest
  <2>7. Shape' /\ Loops' /\ Timers' /\ Providing' /\ Causes'
    BY <1>1, <1>2, <1>3, <2>1, <2>5, <2>6, MoveStep, StateFacts
  <2> QED
    BY <1>1, <2>7, LateKept DEF PipeInv
<1> QED
  BY <1>4, <1>5

LEMMA TimeoutStep ==
    ASSUME PipeInv, NEW k \in 1..Top, NEW a \in Attempts, Timeout(k, a)
    PROVE  PipeInv'
<1>1. /\ order[k] = "timeout" /\ st[k][a] = "called" /\ Invokes(k, a, a)
      /\ timer' = [timer EXCEPT ![a] = "armed"]
      /\ UNCHANGED <<order, provider, core, ready, failures, answered>>
  BY DEF Timeout, Is
<1>2. Kid(k, a, a) /\ st[k - 1][a] = "none"
  BY <1>1, CalledFacts DEF PipeInv, Kid
<1>3. /\ k \in 1..3 /\ k \in Levels /\ k - 1 \in Levels /\ Top \in 0..3
      /\ \A i, j \in 1..Top : order[i] = order[j] => i = j
  BY LevelFacts DEF PipeInv
<1>4. Shape'
  BY <1>1, <1>2, InvokeShape DEF PipeInv
<1>5. Loops'
  BY <1>1, <1>2, InvokeLoops DEF PipeInv
<1>6. Providing'
  <2>1. core # 0
    BY <1>1, <1>3, CalledMade DEF PipeInv
  <2> QED
    BY <1>1, <2>1, CallsKeepProviding DEF PipeInv, provider
<1>7. Causes'
  BY <1>1, <1>2, InvokeCauses DEF PipeInv, provider
<1>8. Timers'
  <2>1. /\ st'[k][a] = "running" /\ st'[k - 1][a] = "called"
        /\ \A j \in Levels, c \in Attempts :
              (j # k \/ c # a) /\ (j # k - 1 \/ c # a) => st'[j][c] = st[j][c]
    BY <1>1, <1>3, InvokesFacts DEF PipeInv, Shape
  <2>2. /\ timer' \in [Attempts -> {"none", "armed", "fired"}] /\ timer'[a] = "armed"
        /\ \A b \in Attempts \ {a} : timer'[b] = timer[b]
    BY <1>1 DEF PipeInv, Timers
  <2>3. ASSUME Is(1, "timeout"), NEW b \in Attempts
        PROVE  /\ st'[1][b] \in {"none", "called"} => timer'[b] = "none"
               /\ timer'[b] = "fired" \/ st'[1][b] \in Settled => st'[0][b] # "called"
    <3>1. k = 1
      BY <1>1, <1>3, <2>3 DEF Is
    <3>2. CASE b = a
      BY <2>1, <2>2, <3>1, <3>2, StateFacts
    <3>3. CASE b # a
      <4>1. st'[1][b] = st[1][b] /\ st'[0][b] = st[0][b] /\ timer'[b] = timer[b]
        BY <1>3, <2>1, <2>2, <3>1, <3>3
      <4> QED
        BY <2>3, <4>1 DEF PipeInv, Timers
    <3> QED
      BY <3>2, <3>3
  <2>4. Is(1, "timeout")' <=> Is(1, "timeout")
    BY <1>1 DEF Is, Top
  <2> QED
    BY <2>2, <2>3, <2>4 DEF Timers
<1> QED
  BY <1>1, <1>4, <1>5, <1>6, <1>7, <1>8, LateKept DEF PipeInv

LEMMA RetryWakesStep ==
    ASSUME PipeInv, NEW k \in 1..Top, NEW a \in Attempts, RetryWakes(k, a)
    PROVE  PipeInv'
<1>1. /\ order[k] = "retry" /\ st[k][a] = "sleeping" /\ Invokes(k, a, failures + 1)
      /\ UNCHANGED <<order, provider, core, ready, timer, failures, answered>>
  BY DEF RetryWakes, Is
<1>2. /\ k \in Levels /\ Top \in 0..3 /\ MaxAttempts \in Nat
      /\ \A i, j \in 1..Top : order[i] = order[j] => i = j
  BY LevelFacts DEF PipeInv
<1>3. a = 1
  BY <1>1, <1>2 DEF PipeInv, Shape, Live
<1>4. failures < MaxAttempts /\ st[k - 1][failures + 1] = "none" /\ failures \in Nat
  BY <1>1, <1>2, <1>3 DEF PipeInv, Loops, Loop
<1>5. failures + 1 \in Attempts /\ Kid(k, a, failures + 1)
  BY <1>1, <1>2, <1>4 DEF Attempts, Kid
<1> QED
  BY <1>1, <1>4, <1>5, InvokeStep

LEMMA RetryReturnsStep ==
    ASSUME PipeInv, NEW k \in 1..Top, NEW a \in Attempts, RetryReturns(k, a)
    PROVE  PipeInv'
<1>1. /\ order[k] = "retry" /\ st[k][a] = "running" /\ Child(k, a) \in Settled
      /\ IF Child(k, a) \in Fulfilled
         THEN Becomes(k, a, Child(k, a)) /\ UNCHANGED failures
         ELSE /\ failures' = failures + 1
              /\ Becomes(k, a, IF failures' = MaxAttempts THEN "exceeded" ELSE "sleeping")
      /\ UNCHANGED <<order, provider, core, ready, timer, answered>>
  BY DEF RetryReturns, Is
<1>2. /\ a = 1 /\ failures < MaxAttempts /\ failures + 1 \in Attempts
      /\ Child(k, a) = st[k - 1][failures + 1]
  BY <1>1, ChildFacts DEF PipeInv
<1>3. /\ k \in 0..Top /\ k \in Levels /\ k - 1 \in Levels /\ k - 1 \in 0..Top /\ k \in Nat
      /\ Top \in 0..3 /\ 0 \in Levels /\ MaxAttempts \in Nat /\ Attempts \subseteq Nat
      /\ \A i, j \in 1..Top : order[i] = order[j] => i = j
  BY LevelFacts DEF PipeInv
<1>4. /\ failures \in Nat
      /\ \A b \in Attempts : /\ b > failures + 1 => st[k - 1][b] = "none"
                             /\ b <= failures => st[k - 1][b] \in Settled
  BY <1>1, <1>3 DEF PipeInv, Loops, Loop
<1>5. \A b \in Attempts : st[k - 1][b] \in AtRest
  <2>1. \A b \in Attempts : b > failures + 1 \/ b = failures + 1 \/ b <= failures
    BY <1>3, <1>4
  <2> QED
    BY <1>1, <1>2, <1>4, <2>1 DEF AtRest
<1>6. st[k][a] \notin AtRest
  BY <1>1, StateFacts
<1>7. CASE Child(k, a) \in Fulfilled
  <2> DEFINE s == Child(k, a)
  <2>1. s \in States \ {"none", "called", "sleeping", "running"} /\ Becomes(k, a, s)
    BY <1>1, <1>7, StateFacts
  <2>2. /\ st'[k][a] = s
        /\ \A j \in Levels, b \in Attempts : j # k \/ b # a => st'[j][b] = st[j][b]
    BY <1>3, <2>1, BecomesFacts DEF PipeInv, Shape
  <2>3. Caused(k, a)'
    <3>1. Caused(k - 1, failures + 1)
      BY <1>2, <1>3 DEF PipeInv, Causes
    <3>2. \A c \in Attempts : st[0][c] = "ok" => st'[0][c] = "ok"
      BY <1>3, <2>2
    <3> QED
      BY <1>1, <1>2, <1>7, <2>2, <3>1, <3>2, CauseUp DEF PipeInv, provider
  <2>4. s \in Fulfilled /\ UNCHANGED failures
    BY <1>1, <1>7
  <2> HIDE DEF s
  <2>5. Shape' /\ Loops' /\ Timers' /\ Providing' /\ Causes'
    BY <1>1, <1>3, <1>5, <1>6, <2>1, <2>3, <2>4, MoveStep
  <2> QED
    BY <1>1, <2>5, LateKept DEF PipeInv
<1>8. CASE Child(k, a) \notin Fulfilled
  <2> DEFINE s == IF failures' = MaxAttempts THEN "exceeded" ELSE "sleeping"
  <2>1. /\ s \in States \ {"none", "called", "running"} /\ Becomes(k, a, s)
        /\ failures' = failures + 1 /\ s \in {"exceeded", "sleeping"}
        /\ s = "sleeping" => failures' < MaxAttempts
    BY <1>1, <1>2, <1>3, <1>4, <1>8 DEF States, Settled, Rejected
  <2>2. /\ st'[k][a] = s
        /\ \A j \in Levels, b \in Attempts : j # k \/ b # a => st'[j][b] = st[j][b]
    BY <1>3, <2>1, BecomesFacts DEF PipeInv, Shape
  <2>3. Caused(k, a)'
    <3>1. Exposed("retry", k)'
      BY <1>1, <1>3 DEF Exposed
    <3> QED
      BY <2>1, <2>2, <3>1 DEF Caused
  <2> HIDE DEF s
  <2>4. Shape'
    BY <1>1, <1>3, <1>5, <1>6, <2>1, MoveShape DEF PipeInv
  <2>5. Loops'
    <3>1. \A b \in Attempts : st'[k - 1][b] = st[k - 1][b]
      BY <1>3, <2>2
    <3>2. \A b \in Attempts : /\ b > failures' + 1 => st'[k - 1][b] = "none"
                              /\ b <= failures' => st'[k - 1][b] \in Settled
      <4>1. SUFFICES ASSUME NEW b \in Attempts
                     PROVE  /\ b > failures' + 1 => st[k - 1][b] = "none"
                            /\ b <= failures' => st[k - 1][b] \in Settled
        BY <3>1
      <4>2. b > failures' + 1 => b > failures + 1
        BY <1>3, <1>4, <2>1
      <4>3. b <= failures' => b = failures + 1 \/ b <= failures
        BY <1>3, <1>4, <2>1
      <4> QED
        BY <1>1, <1>2, <1>4, <4>2, <4>3
    <3>3. s = "sleeping" => st'[k - 1][failures' + 1] = "none"
      <4>1. SUFFICES ASSUME failures' < MaxAttempts
                     PROVE  st'[k - 1][failures' + 1] = "none"
        BY <2>1
      <4>2. failures' + 1 \in Attempts /\ failures' + 1 > failures + 1
        BY <1>3, <1>4, <2>1, <4>1 DEF Attempts
      <4> QED
        BY <1>4, <3>1, <4>2
    <3>4. Loop(k)'
      BY <1>2, <2>1, <2>2, <3>2, <3>3 DEF Loop
    <3>5. failures' \in 0..MaxAttempts
      BY <1>2, <1>3, <1>4, <2>1
    <3>6. \A j \in 1..Top : order[j] = "retry" => j = k
      BY <1>1, <1>3
    <3> QED
      BY <1>1, <3>4, <3>5, <3>6 DEF Loops, Top
  <2>6. Timers'
    BY <1>1, <1>3, <2>1, MoveTimers DEF PipeInv
  <2>7. Providing'
    BY <1>1, <1>3, CalledMade, CallsKeepProviding DEF PipeInv, provider
  <2>8. Causes'
    BY <1>1, <1>3, <1>6, <2>1, <2>3, MoveCauses DEF PipeInv, provider
  <2> QED
    BY <1>1, <2>4, <2>5, <2>6, <2>7, <2>8, LateKept DEF PipeInv
<1> QED
  BY <1>7, <1>8

LEMMA TimerFiresStep ==
    ASSUME PipeInv, NEW a \in Attempts, TimerFires(a)
    PROVE  PipeInv'
<1>1. /\ \A k \in Levels, b \in Attempts : st[k][b] = "called" => Awaits(k) = "pending"
      /\ timer[a] = "armed" /\ timer' = [timer EXCEPT ![a] = "fired"]
      /\ UNCHANGED <<order, provider, core, ready, st, failures, answered>>
  BY DEF TimerFires
<1>2. 0 \in Levels /\ Awaits(0) = "ok"
  BY LevelFacts DEF PipeInv, Awaits, Is
<1>3. /\ timer' \in [Attempts -> {"none", "armed", "fired"}] /\ timer'[a] = "fired"
      /\ \A b \in Attempts \ {a} : timer'[b] = timer[b]
  BY <1>1 DEF PipeInv, Timers
<1>4. st[0][a] # "called"
  BY <1>1, <1>2
<1>5. ASSUME Is(1, "timeout"), NEW b \in Attempts
      PROVE  /\ st[1][b] \in {"none", "called"} => timer'[b] = "none"
             /\ timer'[b] = "fired" \/ st[1][b] \in Settled => st[0][b] # "called"
  BY <1>1, <1>3, <1>4, <1>5 DEF PipeInv, Timers
<1>6. Timers'
  BY <1>1, <1>3, <1>5 DEF Timers, Is, Top
<1>7. Shape'
  BY <1>1 DEF PipeInv, Shape, Nested, Live, Kid, Top
<1>8. Loops' /\ Causes'
  BY <1>1 DEF PipeInv, Loops, Loop, Causes, Caused, Within, Exposed, Top, provider
<1>9. Providing'
  BY <1>1 DEF PipeInv, Providing, provider
<1> QED
  BY <1>1, <1>6, <1>7, <1>8, <1>9, LateKept DEF PipeInv

LEMMA ExecuteStep == ASSUME PipeInv, Execute PROVE PipeInv'
<1>1. /\ core # 0 /\ st[Top][1] = "none" /\ Becomes(Top, 1, "called")
      /\ UNCHANGED <<order, provider, core, ready, timer, failures, answered>>
  BY DEF Execute
<1>2. /\ Top \in 0..3 /\ Top \in Levels /\ 0 \in Levels /\ 1 \in Attempts
      /\ \A j \in 1..Top : j \in Levels /\ j - 1 \in Levels /\ j \in Nat /\ j - 1 # Top
      /\ \A j \in 0..Top : j \in Levels
  BY LevelFacts DEF PipeInv, Levels
<1>3. /\ st' \in [Levels -> [Attempts -> States]]
      /\ st'[Top][1] = "called"
      /\ \A j \in Levels, b \in Attempts : j # Top \/ b # 1 => st'[j][b] = st[j][b]
  BY <1>1, <1>2, BecomesFacts, StateFacts DEF PipeInv, Shape
<1>4. /\ Top' = Top /\ \A j, b : Live(j, b)' <=> Live(j, b)
      /\ \A j, b, c : Kid(j, b, c)' <=> Kid(j, b, c)
      /\ \A j, d : Is(j, d)' <=> Is(j, d)
  BY <1>1 DEF Top, Live, Kid, Is
<1>5. Shape'
  <2>1. ASSUME NEW j \in Levels, NEW b \in Attempts, st'[j][b] # "none"
        PROVE  j <= Top' /\ Live(j, b)'
    <3>1. CASE j = Top /\ b = 1
      <4>1. Live(j, b) /\ j <= Top
        BY <1>2, <3>1 DEF Live
      <4> QED
        BY <1>4, <4>1
    <3>2. CASE ~ (j = Top /\ b = 1)
      <4>1. st[j][b] # "none"
        BY <1>3, <2>1, <3>2
      <4>2. j <= Top /\ Live(j, b)
        BY <4>1 DEF PipeInv, Shape
      <4> QED
        BY <1>4, <4>2
    <3> QED
      BY <3>1, <3>2
  <2>2. \A j \in Levels, b \in Attempts :
           st'[j][b] = "sleeping" => j # 0 /\ order'[j] = "retry"
    BY <1>1, <1>2, <1>3 DEF PipeInv, Shape
  <2>3. ASSUME NEW j \in 1..Top, NEW b \in Attempts, NEW c \in Attempts, Live(j, b), Kid(j, b, c)
        PROVE  /\ st'[j][b] \in {"none", "called"} => st'[j - 1][c] = "none"
               /\ st'[j][b] # "running" /\ order[j] # "timeout" => st'[j - 1][c] \in AtRest
    <3>1. /\ st[j][b] \in {"none", "called"} => st[j - 1][c] = "none"
          /\ st[j][b] # "running" /\ order[j] # "timeout" => st[j - 1][c] \in AtRest
      BY <2>3 DEF PipeInv, Shape, Nested
    <3>2. st'[j - 1][c] = st[j - 1][c]
      BY <1>2, <1>3
    <3>3. CASE j = Top /\ b = 1
      BY <1>1, <1>3, <3>1, <3>2, <3>3 DEF AtRest
    <3>4. CASE ~ (j = Top /\ b = 1)
      <4>1. st'[j][b] = st[j][b]
        BY <1>2, <1>3, <3>4
      <4> QED
        BY <3>1, <3>2, <4>1
    <3> QED
      BY <3>3, <3>4
  <2>4. Nested'
    BY <1>1, <1>4, <2>3 DEF Nested
  <2> QED
    BY <1>1, <1>3, <2>1, <2>2, <2>4 DEF PipeInv, Shape
<1>6. Loops'
  <2>1. failures \in Nat /\ MaxAttempts \in Nat
    BY LevelFacts DEF PipeInv, Loops
  <2>2. ASSUME NEW j \in 1..Top, order[j] = "retry"
        PROVE  Loop(j)'
    <3>1. Loop(j)
      BY <2>2 DEF PipeInv, Loops
    <3>2. \A b \in Attempts : st'[j - 1][b] = st[j - 1][b]
      BY <1>2, <1>3
    <3>3. st'[j][1] = st[j][1] \/ (st'[j][1] = "called" /\ st[j][1] = "none")
      BY <1>1, <1>2, <1>3
    <3>4. failures < MaxAttempts => failures + 1 \in Attempts
      BY <2>1 DEF Attempts
    <3> QED
      BY <1>1, <3>1, <3>2, <3>3, <3>4 DEF Loop
  <2> QED
    BY <1>1, <1>4, <2>2 DEF PipeInv, Loops
<1>7. Timers'
  <2>1. ASSUME Is(1, "timeout"), NEW b \in Attempts
        PROVE  /\ st'[1][b] \in {"none", "called"} => timer[b] = "none"
               /\ timer[b] = "fired" \/ st'[1][b] \in Settled => st'[0][b] # "called"
    <3>1. /\ st[1][b] \in {"none", "called"} => timer[b] = "none"
          /\ timer[b] = "fired" \/ st[1][b] \in Settled => st[0][b] # "called"
      BY <2>1 DEF PipeInv, Timers
    <3>2. 1 \in Levels /\ Top # 0
      BY <1>2, <2>1 DEF Is
    <3>3. st'[0][b] = st[0][b]
      BY <1>2, <1>3, <3>2
    <3>4. st'[1][b] = st[1][b] \/ (st'[1][b] = "called" /\ st[1][b] = "none")
      BY <1>1, <1>2, <1>3, <3>2
    <3> QED
      BY <3>1, <3>3, <3>4, StateFacts
  <2> QED
    BY <1>1, <1>4, <2>1 DEF PipeInv, Timers
<1>8. Providing'
  BY <1>1, CallsKeepProviding DEF PipeInv, provider
<1>9. Causes'
  <2>1. \A c \in Attempts : st[0][c] = "ok" => st'[0][c] = "ok"
    BY <1>1, <1>2, <1>3
  <2>2. ASSUME NEW j \in 0..Top, NEW b \in Attempts
        PROVE  Caused(j, b)'
    <3>1. CASE st'[j][b] = "called"
      BY <3>1 DEF Caused
    <3>2. CASE st'[j][b] # "called"
      <4>1. st'[j][b] = st[j][b] /\ Caused(j, b)
        BY <1>2, <1>3, <3>2 DEF PipeInv, Causes
      <4> QED
        BY <1>1, <2>1, <4>1, CauseKept DEF provider
    <3> QED
      BY <3>1, <3>2
  <2> QED
    BY <1>4, <2>2 DEF Causes
<1> QED
  BY <1>1, <1>5, <1>6, <1>7, <1>8, <1>9, LateKept DEF PipeInv

\* A call has nothing to do with the provider but what it keeps of it.
LEMMA ProviderKeeps ==
    ASSUME PipeInv, UNCHANGED <<order, st, timer, failures, answered>>, Providing',
           \/ core = 0
           \/ /\ client = "failed" => client' = "failed"
              /\ ready = "rejected" => ready' = "rejected"
              /\ initialized[core] = "rejected" => initialized'[core'] = "rejected"
    PROVE  PipeInv'
<1>1. Shape'
  BY DEF PipeInv, Shape, Nested, Live, Kid, Top
<1>2. Loops' /\ Timers'
  BY DEF PipeInv, Loops, Loop, Timers, Is, Top
<1>3. Causes'
  <2>1. ASSUME NEW j \in 0..Top, NEW b \in Attempts
        PROVE  Caused(j, b)'
    <3>1. Caused(j, b)
      BY <2>1 DEF PipeInv, Causes
    <3>2. core = 0 => st[j][b] = "none"
      <4>1. j \in Levels
        BY LevelFacts DEF PipeInv, Levels
      <4> QED
        BY <4>1 DEF PipeInv, Providing
    <3> QED
      BY <3>1, <3>2, CauseKept
  <2> QED
    BY <2>1 DEF Causes, Top
<1> QED
  BY <1>1, <1>2, <1>3, LateKept DEF PipeInv

LEMMA ProviderStepKeeps == ASSUME PipeInv, ProviderStep PROVE PipeInv'
<1>1. Core!Next /\ UNCHANGED <<order, core, ready, st, timer, failures, answered>>
  BY DEF ProviderStep
<1>2. /\ made \in 0..MaxProviders /\ instance \in 0..made /\ core \in 0..made
      /\ client \in {"none", "connecting", "connected", "closed", "failed"}
      /\ initialized \in [1..MaxProviders -> {"pending", "ok", "rejected"}]
      /\ (client = "none" <=> made = 0)
      /\ client = "connecting" => instance # 0
      /\ \A p \in 1..MaxProviders :
            /\ initialized[p] # "pending" => client \in {"connected", "closed", "failed"}
            /\ initialized[p] = "rejected" => client = "failed"
      /\ MaxProviders \in Nat
  BY PipeAssumption DEF PipeInv, Providing
<1>3. CASE Core!ForRoot
  <2>1. /\ instance = 0 /\ made < MaxProviders /\ made' = made + 1 /\ instance' = made + 1
        /\ IF client = "none"
           THEN client' = "connecting" /\ UNCHANGED initialized
           ELSE initialized' = [initialized EXCEPT ![made + 1] = "ok"] /\ UNCHANGED client
    BY <1>3 DEF Core!ForRoot
  <2>2. made + 1 \in 1..MaxProviders /\ client # "connecting"
    BY <1>2, <2>1
  <2>3. Providing'
    <3>1. CASE client = "none"
      BY <1>1, <1>2, <2>1, <2>2, <3>1 DEF PipeInv, Providing
    <3>2. CASE client # "none"
      BY <1>1, <1>2, <2>1, <2>2, <3>2 DEF PipeInv, Providing
    <3> QED
      BY <3>1, <3>2
  <2>4. core # 0 => /\ client = "failed" => client' = "failed"
                    /\ initialized[core] = "rejected" => initialized'[core] = "rejected"
    BY <1>2, <2>1
  <2> QED
    BY <1>1, <2>3, <2>4, ProviderKeeps
<1>4. CASE Core!Connects
  <2>1. /\ client = "connecting" /\ UNCHANGED <<instance, made>>
        /\ \/ client' = "connected" /\ initialized' = [initialized EXCEPT ![instance] = "ok"]
           \/ client' = "failed" /\ initialized' = [initialized EXCEPT ![instance] = "rejected"]
    BY <1>4 DEF Core!Connects
  <2>2. instance \in 1..MaxProviders /\ \A p \in 1..MaxProviders : initialized[p] = "pending"
    BY <1>2, <2>1
  <2>3. Providing'
    BY <1>1, <1>2, <2>1, <2>2 DEF PipeInv, Providing
  <2>4. core # 0 => initialized[core] # "rejected" /\ client # "failed"
    BY <1>2, <2>1, <2>2
  <2> QED
    BY <1>1, <2>3, <2>4, ProviderKeeps
<1>5. CASE Core!Stop
  <2>1. /\ client = "connected" /\ client' = "closed" /\ instance' = 0
        /\ UNCHANGED <<made, initialized>>
    BY <1>5 DEF Core!Stop
  <2>2. Providing'
    BY <1>1, <1>2, <2>1 DEF PipeInv, Providing
  <2> QED
    BY <1>1, <2>1, <2>2, ProviderKeeps
<1> QED
  BY <1>1, <1>3, <1>4, <1>5 DEF Core!Next

LEMMA MakeStep == ASSUME PipeInv, Make PROVE PipeInv'
<1>1. /\ core = 0 /\ instance # 0 /\ core' = instance
      /\ UNCHANGED <<order, provider, ready, st, timer, failures, answered>>
  BY DEF Make
<1>2. Providing'
  BY <1>1 DEF PipeInv, Providing, provider
<1> QED
  BY <1>1, <1>2, ProviderKeeps

LEMMA RetryInitStep == ASSUME PipeInv, RetryInit PROVE PipeInv'
<1>1. /\ core # 0 /\ ready = "pending" /\ initialized[core] # "pending"
      /\ ready' \in {"ok", "rejected"}
      /\ UNCHANGED <<order, provider, core, st, timer, failures, answered>>
  BY DEF RetryInit
<1>2. Providing'
  BY <1>1 DEF PipeInv, Providing, provider
<1> QED
  BY <1>1, <1>2, ProviderKeeps DEF provider

LEMMA PipeInitInv == PipeInit => PipeInv
<1> SUFFICES ASSUME PipeInit
             PROVE  PipeInv
  OBVIOUS
<1>1. /\ order \in Orders /\ instance = 0 /\ made = 0 /\ client = "none"
      /\ initialized = [p \in 1..MaxProviders |-> "pending"]
      /\ core = 0 /\ ready = "pending"
      /\ st = [k \in Levels |-> [a \in Attempts |-> "none"]]
      /\ timer = [a \in Attempts |-> "none"] /\ failures = 0 /\ answered = {}
  BY DEF PipeInit, Core!Init, Core!Providers
<1>2. /\ Top \in 0..3 /\ \A k \in 1..Top : k \in Levels /\ k - 1 \in Levels
      /\ \A k \in 0..Top : k \in Levels /\ \A a \in Attempts : st[k][a] = "none"
  BY <1>1, OrderFacts DEF Levels
<1>3. Shape
  BY <1>1, <1>2, StateFacts DEF Shape, Nested, AtRest
<1>4. Loops
  <2>1. MaxAttempts \in Nat \ {0} /\ 1 \in Attempts /\ Attempts \subseteq Nat
    BY <1>3, LevelFacts
  <2>2. ASSUME NEW k \in 1..Top
        PROVE  Loop(k)
    <3>1. /\ k \in Levels /\ k - 1 \in Levels
          /\ \A b \in Attempts : st[k][b] = "none" /\ st[k - 1][b] = "none"
      BY <1>1, <1>2
    <3>2. failures = 0 /\ failures < MaxAttempts /\ \A b \in Attempts : ~ (b <= failures)
      BY <1>1, <2>1 DEF Attempts
    <3> QED
      BY <2>1, <3>1, <3>2 DEF Loop
  <2> QED
    BY <1>1, <2>1, <2>2 DEF Loops
<1>5. Timers
  BY <1>1, <1>2, StateFacts DEF Timers, Is
<1>6. Providing
  BY <1>1, PipeAssumption DEF Providing
<1>7. Causes
  BY <1>2 DEF Causes, Caused
<1>8. Late
  BY <1>1 DEF Late
<1> QED
  BY <1>3, <1>4, <1>5, <1>6, <1>7, <1>8 DEF PipeInv

LEMMA PipeInvStep == PipeInv /\ [PipeNext]_pipeVars => PipeInv'
<1> SUFFICES ASSUME PipeInv, [PipeNext]_pipeVars
             PROVE  PipeInv'
  OBVIOUS
<1>1. ASSUME NEW k \in 1..Top, NEW a \in Attempts, Decorator(k, a)
      PROVE  PipeInv'
  BY <1>1, TimeoutStep, TimesOutStep, InTimeStep, InitializedStep, RetryReturnsStep,
     RetryWakesStep, FallbackReturnsStep, FallbackActsStep DEF Decorator
<1>2. ASSUME NEW a \in Attempts, CallFunction(a) \/ FunctionSettles(a) \/ TimerFires(a)
      PROVE  PipeInv'
  BY <1>2, CallFunctionStep, FunctionSettlesStep, TimerFiresStep
<1>3. CASE UNCHANGED pipeVars
  <2>1. Providing'
    BY <1>3 DEF pipeVars, provider, PipeInv, Providing
  <2> QED
    BY <1>3, <2>1, ProviderKeeps DEF pipeVars, provider
<1> QED
  BY <1>1, <1>2, <1>3, ProviderStepKeeps, MakeStep, RetryInitStep, ExecuteStep DEF PipeNext

LEMMA PipeInvariant == PipeSpec => []PipeInv
BY PipeInitInv, PipeInvStep, PTL DEF PipeSpec

-----------------------------------------------------------------------------
(* A call of a pipeline: the theorems.                                     *)

\* Every variable of a call and of the provider keeps its type, in any pipeline; the
\* retry sleeps only if it has attempts left.
THEOREM PipeTypeCorrect == PipeSpec => []PipeTypeOK
<1>1. ASSUME PipeInv, NEW k \in Levels, NEW a \in Attempts, st[k][a] = "sleeping"
      PROVE  failures < MaxAttempts
  <2>1. /\ Top \in 0..3 /\ k \in 1..Top /\ order[k] = "retry" /\ Live(k, a)
        /\ \A i, j \in 1..Top : order[i] = order[j] => i = j
    BY <1>1, LevelFacts DEF PipeInv, Shape, Levels
  <2>2. a = 1
    BY <2>1 DEF Live
  <2> QED
    BY <1>1, <2>1, <2>2 DEF PipeInv, Loops, Loop
<1>2. PipeInv => PipeTypeOK
  <2> SUFFICES ASSUME PipeInv
               PROVE  PipeTypeOK
    OBVIOUS
  <2>1. instance \in 0..MaxProviders /\ core \in 0..MaxProviders /\ made \in 0..MaxProviders
    BY PipeAssumption DEF PipeInv, Providing
  <2> QED
    BY <1>1, <2>1 DEF PipeTypeOK, PipeInv, Shape, Loops, Timers, Providing, Late, States,
       Core!Providers
<1> QED
  BY <1>2, PipeInvariant, PTL

\* Whatever the decorators and their order, what a call ends with has its cause in
\* those outside of the fallback, or in a client that could not be connected or a retry
\* whose init has failed.
THEOREM OutcomesExplained == PipeSpec => []OutcomeExplained
<1>1. ASSUME PipeInv
      PROVE  OutcomeExplained
  <2>1. /\ Top \in 0..3 /\ Top \in 0..Top /\ 1 \in Attempts
        /\ \A i, j \in 1..Top : order[i] = order[j] => i = j
    BY <1>1, LevelFacts DEF PipeInv
  <2>2. Caused(Top, 1)
    BY <1>1, <2>1 DEF PipeInv, Causes
  <2>3. \A d : Within(d, Top) => Added(d)
    BY DEF Within, Added
  <2>4. ASSUME NEW d, Exposed(d, Top)
        PROVE  Added(d) /\ ~ Outside("fallback", d)
    <3>1. PICK i \in 1..Top : order[i] = d /\ \A j \in 1..Top : j > i => order[j] # "fallback"
      BY <2>4 DEF Exposed
    <3> QED
      BY <2>1, <3>1 DEF Added, Outside
  <2>5. (\E k \in Levels, a \in Attempts : st[k][a] = "broken") =>
           client = "failed" \/ (Added("retry") /\ ready = "rejected")
    <3>1. SUFFICES ASSUME NEW k \in Levels, NEW a \in Attempts, st[k][a] = "broken"
                   PROVE  client = "failed" \/ (Added("retry") /\ ready = "rejected")
      OBVIOUS
    <3>2. k \in 0..Top
      BY <1>1, <2>1, <3>1 DEF PipeInv, Shape, Levels
    <3> QED
      BY <1>1, <2>1, <3>1, <3>2 DEF PipeInv, Causes, Caused, Within, Added
  <2>6. Outcome = "broken" /\ Outside("fallback", "retry") => initialized[core] = "rejected"
    BY <2>2 DEF Outcome, Caused, Outside
  <2>7. Outcome = "broken" => Added("retry") \/ Added("fallback")
    BY <2>2, <2>3 DEF Outcome, Caused
  <2> QED
    BY <2>2, <2>3, <2>4, <2>5, <2>6, <2>7 DEF OutcomeExplained, Outcome, Caused
<1> QED
  BY <1>1, PipeInvariant, PTL

\* Two attempts of a call are under way at a time, and the function is called after the
\* answer, only in the orders of decorators that leave something behind.
THEOREM StrayAttemptsSafety == PipeSpec => []StrayAttempts
<1>1. ASSUME PipeInv
      PROVE  StrayAttempts
  <2>1. ASSUME NEW a \in Attempts, NEW b \in Attempts, a # b,
               st[0][a] = "running", st[0][b] = "running"
        PROVE  Outside("retry", "timeout")
    <3>1. st[0][a] \notin AtRest /\ st[0][b] \notin AtRest
      BY <2>1, StateFacts
    <3> QED
      BY <1>1, <2>1, <3>1, TwoAttempts DEF PipeInv
  <2> QED
    BY <1>1, <2>1 DEF StrayAttempts, PipeInv, Late
<1> QED
  BY <1>1, PipeInvariant, PTL
=============================================================================
