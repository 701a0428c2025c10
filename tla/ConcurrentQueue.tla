--------------------------- MODULE ConcurrentQueue ---------------------------
(***************************************************************************)
(* The Redis lock queue behind the concurrent-queue decorator and the      *)
(* decorated calls that wait in it (packages/concurrent-queue/lib/         *)
(* concurrent-queue.ts).                                                   *)
(*                                                                         *)
(* A caller is one invocation of a decorated function, and stands for its  *)
(* random uuid, so that callers are ordered as their uuids are.  Callers   *)
(* run in instances (processes with one Redis connection each).  Redis     *)
(* executes a command any time after it was sent; the commands of one      *)
(* connection in the order in which they were sent (InOrder).              *)
(* Left out: the events, and the registration of the queue's name.         *)
(***************************************************************************)
EXTENDS Integers, FiniteSets

CONSTANTS
    Callers,          \* invocations with the same key, as the uuids they draw
    Instances, Home,  \* Home[c]: the instance a caller runs in
    MaxAttempts,      \* config.maxAttempts
    Backoff,          \* config.backoff
    Limit,            \* how many entries acquireLock reads (20)
    MaxNow            \* bound: the clock stops there

ASSUME CallersAssumption == Callers \subseteq Nat /\ IsFiniteSet(Callers)
ASSUME HomeAssumption == Home \in [Callers -> Instances]
ASSUME ConfigAssumption ==
    /\ MaxAttempts \in Nat /\ Backoff \in Nat
    /\ Limit \in Nat /\ MaxNow \in Nat

VARIABLES
    now,       \* Date.now(); the processes' clocks agree
    queue,     \* the members of the sorted set
    score,     \* the score of each caller's entry
    pc,        \* where each caller is
    attempts,  \* `attempts`
    wake,      \* when the caller's setTimeout is over
    view       \* `queuedLocks`: what acquireLock has read

vars == <<now, queue, score, pc, attempts, wake, view>>

\* The last three are locals: they are reset when the code leaves their scope.

-----------------------------------------------------------------------------
\* `maxDuration`: the backoffs of all attempts, which grow by one each time.
MaxDuration == Backoff * ((MaxAttempts * (MaxAttempts + 1)) \div 2)

Done == {"returned", "rejected", "failed", "crashed"}
PCs == Done \cup {"idle", "adding", "waiting", "reading", "deciding", "cleaning",
                  "running", "removing"}

\* The order of the sorted set: by score, then by uuid.
Before(d, c) == score[d] < score[c] \/ (score[d] = score[c] /\ d < c)

\* The entry of c has not expired.
Live(c) == score[c] > now

Peers(c) == {d \in Callers \ {c} : Home[d] = Home[c]}

\* A command of c is executed after the zAdd of a peer that was called before c
\* (in an earlier millisecond; within one the order is left open).
InOrder(c) == \A d \in Peers(c) : pc[d] = "adding" => score[d] >= score[c]

Goto(c, to) == pc' = [pc EXCEPT ![c] = to]

-----------------------------------------------------------------------------
Init ==
    /\ now = 0
    /\ queue = {}
    /\ score = [c \in Callers |-> 0]
    /\ pc = [c \in Callers |-> "idle"]
    /\ attempts = [c \in Callers |-> 0]
    /\ wake = [c \in Callers |-> 0]
    /\ view = [c \in Callers |-> {}]

\* The decorated function is called: its entry gets its score and is sent.
Call(c) ==
    /\ pc[c] = "idle"
    /\ now + MaxDuration <= MaxNow
    /\ score' = [score EXCEPT ![c] = now + MaxDuration]
    /\ Goto(c, "adding")
    /\ UNCHANGED <<now, queue, attempts, wake, view>>

\* zAdd
Add(c) ==
    /\ pc[c] = "adding"
    /\ InOrder(c)
    /\ queue' = queue \cup {c}
    /\ wake' = [wake EXCEPT ![c] = now]
    /\ Goto(c, "waiting")
    /\ UNCHANGED <<now, score, attempts, view>>

\* Variant of Attempt: an attempt too many.
AttemptMutant(c) ==
    /\ pc[c] = "waiting"
    /\ now >= wake[c]
    /\ attempts[c] <= MaxAttempts
    /\ wake' = [wake EXCEPT ![c] = 0]
    /\ Goto(c, "reading")
    /\ UNCHANGED <<now, queue, score, attempts, view>>

\* The timer is over (never too early, perhaps late): another attempt is sent.
Attempt(c) ==
    /\ pc[c] = "waiting"
    /\ now >= wake[c]
    /\ attempts[c] < MaxAttempts
    /\ wake' = [wake EXCEPT ![c] = 0]
    /\ Goto(c, "reading")
    /\ UNCHANGED <<now, queue, score, attempts, view>>

\* The attempts are used up: QueueWaitExceeded, and the finally block.
GiveUp(c) ==
    /\ pc[c] = "waiting"
    /\ now >= wake[c]
    /\ attempts[c] >= MaxAttempts
    /\ wake' = [wake EXCEPT ![c] = 0]
    /\ attempts' = [attempts EXCEPT ![c] = 0]
    /\ Goto(c, "removing")
    /\ UNCHANGED <<now, queue, score, view>>

\* The first Limit entries up to one's own place (zRangeWithScores by score;
\* of the entries with one's own score also those behind it).
Front(c) ==
    LET upTo == {d \in queue : score[d] <= score[c]}
    IN  {d \in upTo : Cardinality({e \in upTo : Before(e, d)}) < Limit}

Read(c) ==
    /\ pc[c] = "reading"
    /\ InOrder(c)
    /\ view' = [view EXCEPT ![c] = Front(c)]
    /\ Goto(c, "deciding")
    /\ UNCHANGED <<now, queue, score, attempts, wake>>

Expired(c) == {d \in view[c] : score[d] <= now}

\* Variant of First: an entry that is in the view at all is enough.
FirstMutant(c) == c \in view[c] \ Expired(c)

\* The first entry that has not expired is one's own.
First(c) ==
    /\ c \in view[c] \ Expired(c)
    /\ \A d \in view[c] \ (Expired(c) \cup {c}) : Before(c, d)

\* Not first: the caller waits for its next attempt.
Retry(c) ==
    /\ pc[c] = "deciding"
    /\ ~First(c)
    /\ attempts' = [attempts EXCEPT ![c] = @ + 1]
    /\ wake' = [wake EXCEPT ![c] = now + (attempts[c] + 1) * Backoff]
    /\ Goto(c, "waiting")
    /\ view' = [view EXCEPT ![c] = {}]
    /\ UNCHANGED <<now, queue, score>>

\* First: what has expired by now is about to be removed.
Admit(c) ==
    /\ pc[c] = "deciding"
    /\ First(c)
    /\ view' = [view EXCEPT ![c] = Expired(c)]
    /\ attempts' = [attempts EXCEPT ![c] = 0]
    /\ Goto(c, "cleaning")
    /\ UNCHANGED <<now, queue, score, wake>>

\* Variant of Stale: the scores of all entries read are taken, one's own too.
StaleMutant(c) == {d \in queue : score[d] <= score[c]}

\* The entries with a score up to the greatest expired one (none: -Infinity).
Stale(c) == {d \in queue : \E e \in view[c] : score[d] <= score[e]}

\* zRemRangeByScore, after which fn starts.
Clean(c) ==
    /\ pc[c] = "cleaning"
    /\ queue' = queue \ Stale(c)
    /\ view' = [view EXCEPT ![c] = {}]
    /\ Goto(c, "running")
    /\ UNCHANGED <<now, score, attempts, wake>>

\* fn settles, and the finally block sends zRem.
Settle(c) ==
    /\ pc[c] = "running"
    /\ Goto(c, "removing")
    /\ UNCHANGED <<now, queue, score, attempts, wake, view>>

\* zRem, after a call that ran and after one that did not.
Remove(c) ==
    /\ pc[c] = "removing"
    /\ queue' = queue \ {c}
    /\ Goto(c, "returned")
    /\ UNCHANGED <<now, score, attempts, wake, view>>

\* The command a caller awaits fails.  zAdd: CreateQueueLockException, executed
\* or not.  Those of acquireLock lead to the finally block, whose own failure
\* leaves the entry behind.
ConnectionError(c) ==
    /\ \/ /\ pc[c] = "adding"
          /\ queue' \in {queue, queue \cup {c}}
          /\ Goto(c, "rejected")
       \/ /\ pc[c] \in {"reading", "deciding"}
          /\ Goto(c, "removing")
          /\ UNCHANGED queue
       \/ /\ pc[c] = "cleaning"
          /\ queue' \in {queue, queue \ Stale(c)}
          /\ Goto(c, "removing")
       \/ /\ pc[c] = "removing"
          /\ queue' \in {queue, queue \ {c}}
          /\ Goto(c, "failed")
    /\ view' = [view EXCEPT ![c] = {}]
    /\ attempts' = [attempts EXCEPT ![c] = 0]
    /\ UNCHANGED <<now, score, wake>>

\* A process dies: the entries of its callers stay.
Crash(i) ==
    /\ \E c \in Callers : Home[c] = i /\ pc[c] \notin Done
    /\ pc' = [c \in Callers |->
                IF Home[c] = i /\ pc[c] \notin Done THEN "crashed" ELSE pc[c]]
    /\ view' = [c \in Callers |-> IF Home[c] = i THEN {} ELSE view[c]]
    /\ attempts' = [c \in Callers |-> IF Home[c] = i THEN 0 ELSE attempts[c]]
    /\ wake' = [c \in Callers |-> IF Home[c] = i THEN 0 ELSE wake[c]]
    /\ UNCHANGED <<now, queue, score>>

Tick ==
    /\ now < MaxNow
    /\ now' = now + 1
    /\ UNCHANGED <<queue, score, pc, attempts, wake, view>>

Next ==
    \/ \E c \in Callers :
          \/ Call(c) \/ Add(c) \/ Attempt(c) \/ GiveUp(c) \/ Read(c) \/ Retry(c)
          \/ Admit(c) \/ Clean(c) \/ Settle(c) \/ Remove(c) \/ ConnectionError(c)
    \/ \E i \in Instances : Crash(i)
    \/ Tick

Spec == Init /\ [][Next]_vars

-----------------------------------------------------------------------------
\* The type of every variable of the queue and of its callers.
TypeOK ==
    /\ now \in Nat
    /\ queue \in SUBSET Callers
    /\ score \in [Callers -> Nat]
    /\ pc \in [Callers -> PCs]
    /\ attempts \in [Callers -> 0 .. MaxAttempts]
    /\ wake \in [Callers -> Nat]
    /\ view \in [Callers -> SUBSET Callers]

Queued(c) == pc[c] \in {"waiting", "reading", "deciding", "cleaning", "running"}

\* An entry that has not expired stays for as long as its caller waits or runs:
\* no cleanup takes it, by however old a view of the queue its expired entries
\* were chosen.
LiveEntryKept == \A c \in Callers : Queued(c) /\ Live(c) => c \in queue

RunsLive(c) == pc[c] = "running" /\ Live(c)

\* Two calls of one instance run together, with neither entry expired, only if
\* they were called in the same millisecond, whatever the other instances, the
\* cleanups, errors and crashes do to the queue.
PeersExclude ==
    \A c \in Callers : \A d \in Peers(c) :
        RunsLive(c) /\ RunsLive(d) => score[c] = score[d]

\* The queue "ensures only one instance of the function is running at a time"
\* (concurrent-queue.md:7): also among the processes that share it, while no
\* entry has expired.  A score is fixed before its entry arrives, so one that
\* comes late takes its place before a call that runs already.
QueueExclusive == \A c, d \in Callers : RunsLive(c) /\ RunsLive(d) => c = d
=============================================================================
