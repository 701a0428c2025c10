--------------------------- MODULE ConcurrentLock ---------------------------
(***************************************************************************)
(* The lock record behind the concurrent-lock decorator and the decorated  *)
(* calls that compete for it (packages/concurrent-lock/lib/                *)
(* concurrent-lock.ts).                                                    *)
(*                                                                         *)
(* A caller is one invocation of a decorated function, in a process of its *)
(* own: calls of one process share nothing here but the Redis connection.  *)
(* Each of the three commands (SET, EXPIRE, DEL) is a step of its own, any *)
(* time after it was sent; the reply of SET is another.                    *)
(* Left out: the events, and the time in the record, which nobody reads.   *)
(***************************************************************************)
EXTENDS Integers, FiniteSets

CONSTANTS
    Callers,          \* invocations that ask for the same lock key
    Extensible,       \* those whose decorator has config.extensible # false
    Duration,         \* config.duration
    RefreshInterval,  \* config.refreshInterval
    Drift,            \* round(driftFactor * duration) + 2
    Epoch,            \* Date.now() when the clock of the model shows 0
    MaxNow            \* bound: the clock stops there

ASSUME ExtensibleAssumption == Extensible \subseteq Callers
ASSUME ConfigAssumption ==
    /\ Duration \in Nat \ {0}   \* Redis refuses PX 0
    /\ RefreshInterval \in Nat /\ Drift \in Nat
    /\ Epoch \in Nat /\ MaxNow \in Nat
    /\ RefreshInterval <= Duration
    /\ Drift + MaxNow < Epoch      \* Date.now() is decades past its zero

VARIABLES
    now,     \* the clock of Redis and of the processes
    lock,    \* the record of the lock key, or Free
    pc,      \* where each caller is
    beat,    \* when the heartbeat of a caller fires next
    since,   \* history: when the SET of a caller was executed
    overrun  \* history: the callers whose record expired before their DEL

vars == <<now, lock, pc, beat, since, overrun>>

-----------------------------------------------------------------------------
Free == [by |-> "nobody", until |-> 0, extended |-> FALSE]

\* Of a record only its expiry is real; `by` (whose SET made it) and `extended`
\* (whether a heartbeat has reached it) are history.
Record(c, t, e) == [by |-> c, until |-> t, extended |-> e]

Period == Duration - RefreshInterval

\* EXPIRE takes seconds, and is given Date.now() + duration - drift.
Expiry == now + 1000 * (Epoch + now + Duration - Drift)

Done == {"returned", "rejected", "failed", "crashed"}
PCs == {"idle", "setting", "granted", "running", "releasing"} \cup Done

\* The calls that believe they hold the lock.
Inside(c) == pc[c] \in {"granted", "running", "releasing"}

Goto(c, to) == pc' = [pc EXCEPT ![c] = to]

-----------------------------------------------------------------------------
Init ==
    /\ now = 0
    /\ lock = Free
    /\ pc = [c \in Callers |-> "idle"]
    /\ beat = [c \in Callers |-> 0]
    /\ since = [c \in Callers |-> 0]
    /\ overrun = {}

\* The decorated function is called, and sends SET key NX PX duration.
Call(c) ==
    /\ pc[c] = "idle"
    /\ Goto(c, "setting")
    /\ UNCHANGED <<now, lock, beat, since, overrun>>

\* Variant of Take: SET without PX.
TakeMutant(c) ==
    /\ pc[c] = "setting"
    /\ now + Duration <= MaxNow
    /\ lock = Free
    /\ lock' = Record(c, Expiry, FALSE)
    /\ since' = [since EXCEPT ![c] = now]
    /\ Goto(c, "granted")
    /\ UNCHANGED <<now, beat, overrun>>

\* Variant of Take: SET without NX.
TakeAnywayMutant(c) ==
    /\ pc[c] = "setting"
    /\ now + Duration <= MaxNow
    /\ lock' = Record(c, now + Duration, FALSE)
    /\ since' = [since EXCEPT ![c] = now]
    /\ Goto(c, "granted")
    /\ UNCHANGED <<now, beat, overrun>>

\* SET finds no record and makes one.
Take(c) ==
    /\ pc[c] = "setting"
    /\ now + Duration <= MaxNow
    /\ lock = Free
    /\ lock' = Record(c, now + Duration, FALSE)
    /\ since' = [since EXCEPT ![c] = now]
    /\ Goto(c, "granted")
    /\ UNCHANGED <<now, beat, overrun>>

\* SET finds a record: AcquireLockException.
Refuse(c) ==
    /\ pc[c] = "setting"
    /\ lock # Free
    /\ Goto(c, "rejected")
    /\ UNCHANGED <<now, lock, beat, since, overrun>>

\* Variant of Begin: the operands of the period are swapped.
BeginMutant(c) ==
    /\ pc[c] = "granted"
    /\ beat' = [beat EXCEPT ![c] = now + (RefreshInterval - Duration)]
    /\ Goto(c, "running")
    /\ UNCHANGED <<now, lock, since, overrun>>

\* The reply arrives: the heartbeat is set up and fn starts.
Begin(c) ==
    /\ pc[c] = "granted"
    /\ beat' = [beat EXCEPT ![c] = now + Period]
    /\ Goto(c, "running")
    /\ UNCHANGED <<now, lock, since, overrun>>

\* Variant of Heartbeat: the interval is not cleared.
HeartbeatMutant(c) ==
    /\ c \in Extensible
    /\ pc[c] \in {"running", "releasing", "returned", "failed"}
    /\ now >= beat[c]
    /\ lock' = IF lock = Free THEN Free ELSE Record(lock.by, Expiry, TRUE)
    /\ beat' = [beat EXCEPT ![c] = now + Period]
    /\ UNCHANGED <<now, pc, since, overrun>>

\* The interval fires, on time or late, and its EXPIRE reaches whatever record
\* is there.  One in flight when the interval is cleared still does, before DEL.
Heartbeat(c) ==
    /\ c \in Extensible
    /\ pc[c] \in {"running", "releasing"}
    /\ now >= beat[c]
    /\ lock' = IF lock = Free THEN Free ELSE Record(lock.by, Expiry, TRUE)
    /\ beat' = [beat EXCEPT ![c] = now + Period]
    /\ UNCHANGED <<now, pc, since, overrun>>

\* fn settles; the finally block clears the interval and sends DEL.
Settle(c) ==
    /\ pc[c] = "running"
    /\ Goto(c, "releasing")
    /\ UNCHANGED <<now, lock, beat, since, overrun>>

\* DEL removes whatever record is there.
Release(c) ==
    /\ pc[c] = "releasing"
    /\ lock' = Free
    /\ Goto(c, "returned")
    /\ UNCHANGED <<now, beat, since, overrun>>

\* A command fails, before or after Redis has executed it.  Of SET that is an
\* AcquireLockException, though the record may be there; of DEL it is thrown.
ConnectionError(c) ==
    /\ \/ pc[c] \in {"setting", "granted"} /\ Goto(c, "rejected")
       \/ pc[c] = "releasing" /\ Goto(c, "failed")
    /\ UNCHANGED <<now, lock, beat, since, overrun>>

\* The process dies (so it does when an EXPIRE fails, which nobody catches).
Crash(c) ==
    /\ pc[c] \notin Done
    /\ Goto(c, "crashed")
    /\ UNCHANGED <<now, lock, beat, since, overrun>>

\* Time passes, and with it the record.
Tick ==
    /\ now < MaxNow
    /\ now' = now + 1
    /\ IF lock # Free /\ lock.until <= now'
       THEN /\ lock' = Free
            /\ overrun' = overrun \cup {c \in {lock.by} : Inside(c)}
       ELSE UNCHANGED <<lock, overrun>>
    /\ UNCHANGED <<pc, beat, since>>

Next ==
    \/ \E c \in Callers :
          \/ Call(c) \/ Take(c) \/ Refuse(c) \/ Begin(c) \/ Heartbeat(c)
          \/ Settle(c) \/ Release(c) \/ ConnectionError(c) \/ Crash(c)
    \/ Tick

\* Only time is owed: not a reply, nor the end of the decorated function.
Fairness == WF_vars(Tick)

Spec == Init /\ [][Next]_vars
FairSpec == Spec /\ Fairness

-----------------------------------------------------------------------------
\* The type of every variable of the lock and of its callers.
TypeOK ==
    /\ now \in Nat
    /\ \/ lock = Free
       \/ lock \in [by : Callers, until : Nat, extended : BOOLEAN]
    /\ pc \in [Callers -> PCs]
    /\ beat \in [Callers -> Nat]
    /\ since \in [Callers -> Nat]
    /\ overrun \in SUBSET Callers

\* Two calls hold the lock together only after some call has outlived its
\* record: while nobody does, neither a crash, a lost reply, a failed DEL nor
\* the heartbeat or DEL of another call lets a second one in.
OnlyOverrunsOverlap ==
    \A c, d \in Callers : Inside(c) /\ Inside(d) /\ c # d => overrun # {}

\* While nobody outlives its record, a record is extended only if it is that of a call
\* that runs, or whose DEL is due: no heartbeat, however late, keeps alive what a crash,
\* a lost reply of SET or a failed DEL has left behind.
KeptAliveByHolder ==
    [][overrun = {} /\ lock # Free /\ lock' \notin {lock, Free} =>
          \E c \in Extensible : lock.by = c /\ pc[c] \in {"running", "releasing"}]_vars

\* Whatever becomes of the call that made it, a record goes away: deleted, or
\* expired.  The exception is a record that a heartbeat has reached.
RecordGoesAway ==
    \A c \in Callers : lock.by = c ~> lock.by # c \/ lock.extended

\* A call that has held the lock for less than config.duration.
Fresh(c) == Inside(c) /\ now < since[c] + Duration

\* "It prevents the decorated method from executing unless the caller is able to
\* create a unique lock record" (concurrent-lock.ts:11): so at most one of the
\* calls whose duration has not passed runs.  The DEL of a call that has outlived
\* its record removes another's, and a third call gets in beside that one.
FreshExclusive ==
    \A c, d \in Callers : Fresh(c) /\ Fresh(d) => c = d
=============================================================================
