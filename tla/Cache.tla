------------------------------- MODULE Cache -------------------------------
(***************************************************************************)
(* One entry of a cache, the calls that read through it, and the calls     *)
(* that change the data behind it and bust it: packages/cache/lib/cache.ts *)
(* and cache-buster.ts, and request-scoped-cache.ts with its two stores,   *)
(* in memory and in Redis.                                                 *)
(*                                                                         *)
(* A value is the version of the data it was computed from.  The entry is  *)
(* a Redis key for kind "cache", a field of the hash of a scope for kind   *)
(* "distributed", and a member of the map of a scope for kind "local".     *)
(***************************************************************************)
EXTENDS Integers

CONSTANTS
    Readers,      \* calls of a function decorated with a cache
    Busters,      \* calls of a function decorated with a cache-buster
    Configs,      \* see config
    Expiration,   \* config.expiration
    MaxNow        \* bound: the clock stops there

Kinds == {"cache", "distributed", "local"}

ASSUME ConfigAssumption ==
    /\ Configs \subseteq [kind : Kinds, clearOnRequestEnd : BOOLEAN]
    /\ Expiration \in Nat \ {0} /\ MaxNow \in Nat

VARIABLES
    config,    \* the class and options of the cache
    now,       \* the clock of Redis
    version,   \* of the data
    entry,     \* the value in the cache, or Absent
    expires,   \* when Redis drops the entry, or Never
    pc,        \* where each call is
    value,     \* value[c]: what c has computed; of a buster, the version it made
    storer,    \* history: the reader whose value the entry is
    floor,     \* history: the least version that no completed bust made obsolete
    overtaken  \* history: the readers a bust overtook with an older value

store == <<entry, expires, storer>>
vars == <<config, now, version, store, pc, value, floor, overtaken>>

-----------------------------------------------------------------------------
Absent == 0
Never == MaxNow + 1
Nobody == {}
Calls == Readers \cup Busters
Done == {"ended", "failed"}

Goto(c, to) == pc' = [pc EXCEPT ![c] = to]

\* The finally block of the request-scoped cache deletes the scope.
Clears == config.kind = "distributed" /\ config.clearOnRequestEnd
Last == IF Clears THEN "clearing" ELSE "ended"

\* Only the cache proper is busted, and only Redis fails.
InRedis == config.kind # "local"

Init ==
    /\ config \in Configs
    /\ now = 0 /\ version = 1
    /\ entry = Absent /\ expires = Never /\ storer = Nobody
    /\ pc = [c \in Calls |-> "idle"]
    /\ value = [c \in Calls |-> Absent]
    /\ floor = 1 /\ overtaken = {}

-----------------------------------------------------------------------------
Call(c) ==
    /\ c \in Readers /\ pc[c] = "idle"
    /\ Goto(c, "getting")
    /\ UNCHANGED <<config, now, version, store, value, floor, overtaken>>

\* get: a hit is returned, a miss calls the function.
Get(c) ==
    /\ pc[c] = "getting"
    /\ Goto(c, IF entry # Absent THEN Last ELSE "computing")
    /\ UNCHANGED <<config, now, version, store, value, floor, overtaken>>

\* The function reads the data; a falsy result is not stored.
Compute(c) ==
    /\ pc[c] = "computing"
    /\ \E truthy \in BOOLEAN : Goto(c, IF truthy THEN "storing" ELSE Last)
    /\ value' = [value EXCEPT ![c] = version]
    /\ UNCHANGED <<config, now, version, store, floor, overtaken>>

\* Variant of Set: SET without PX.
SetMutant(c) ==
    /\ pc[c] = "storing"
    /\ Goto(c, Last)
    /\ entry' = value[c] /\ storer' = {c} /\ expires' = Never
    /\ UNCHANGED <<config, now, version, value, floor, overtaken>>

\* Variant of Set: the end of the request is forgotten on a miss.
SetLastMutant(c) ==
    /\ pc[c] = "storing"
    /\ Goto(c, "ended")
    /\ entry' = value[c] /\ storer' = {c}
    /\ expires' = IF config.kind = "cache" THEN now + Expiration ELSE Never
    /\ UNCHANGED <<config, now, version, value, floor, overtaken>>

\* set with PX, hSet, or Map.set: only the first expires.
Set(c) ==
    /\ pc[c] = "storing" /\ now + Expiration <= MaxNow
    /\ Goto(c, Last)
    /\ entry' = value[c] /\ storer' = {c}
    /\ expires' = IF config.kind = "cache" THEN now + Expiration ELSE Never
    /\ UNCHANGED <<config, now, version, value, floor, overtaken>>

Remove == entry' = Absent /\ expires' = Never /\ storer' = Nobody

\* del of the scope, whoever else is using it.
Clear(c) ==
    /\ pc[c] = "clearing"
    /\ Goto(c, "ended")
    /\ Remove
    /\ UNCHANGED <<config, now, version, value, floor, overtaken>>

\* The function rejects, or a command of Redis does: the finally block follows.
Reject(c) ==
    /\ c \in Readers
    /\ pc[c] = "computing" \/ (InRedis /\ pc[c] \in {"getting", "storing", "clearing"})
    /\ Goto(c, IF Clears /\ pc[c] # "clearing" THEN "clearing" ELSE "failed")
    /\ UNCHANGED <<config, now, version, store, value, floor, overtaken>>

\* The process of c dies.
Crash(c) ==
    /\ InRedis /\ pc[c] \notin Done \cup {"idle"}
    /\ Goto(c, "failed")
    /\ UNCHANGED <<config, now, version, store, value, floor, overtaken>>

-----------------------------------------------------------------------------
\* Variant of Change: the data changes after the keys were deleted.
ChangeMutant(b) ==
    /\ b \in Busters /\ pc[b] = "idle" /\ config.kind = "cache"
    /\ value' = [value EXCEPT ![b] = version + 1]
    /\ Goto(b, "deleting")
    /\ UNCHANGED <<config, now, version, store, floor, overtaken>>

\* The buster's function changes the data and settles; its result, or its error,
\* decides (invalidateOnException, shouldInvalidate) whether keys are deleted.
Change(b) ==
    /\ b \in Busters /\ pc[b] = "idle" /\ config.kind = "cache"
    /\ version' = version + 1
    /\ value' = [value EXCEPT ![b] = version + 1]
    /\ \E invalidates \in BOOLEAN : Goto(b, IF invalidates THEN "deleting" ELSE "ended")
    /\ UNCHANGED <<config, now, store, floor, overtaken>>

\* Variant of Bust: the wrong keys are deleted.
BustMutant(b) ==
    /\ b \in Busters /\ pc[b] = "deleting"
    /\ Goto(b, "ended")
    /\ floor' = IF value[b] > floor THEN value[b] ELSE floor
    /\ UNCHANGED <<config, now, version, store, value, overtaken>>

\* The finally block: del.
Bust(b) ==
    /\ b \in Busters /\ pc[b] = "deleting"
    /\ Goto(b, "ended")
    /\ Remove
    /\ floor' = IF value[b] > floor THEN value[b] ELSE floor
    /\ overtaken' = overtaken \cup {c \in Readers : pc[c] = "storing" /\ value[c] < value[b]}
    /\ UNCHANGED <<config, now, version, value>>

\* del rejects, and so does the call, although its function may have fulfilled.
BustFails(b) ==
    /\ b \in Busters /\ pc[b] = "deleting"
    /\ Goto(b, "failed")
    /\ UNCHANGED <<config, now, version, store, value, floor, overtaken>>

\* Time passes, and Redis drops what has expired.
Tick ==
    /\ now < MaxNow
    /\ now' = now + 1
    /\ IF expires = now + 1 THEN Remove ELSE UNCHANGED store
    /\ UNCHANGED <<config, version, pc, value, floor, overtaken>>

Next ==
    \/ \E c \in Calls :
          \/ Call(c) \/ Get(c) \/ Compute(c) \/ Set(c) \/ Clear(c) \/ Reject(c) \/ Crash(c)
          \/ Change(c) \/ Bust(c) \/ BustFails(c)
    \/ Tick

Spec == Init /\ [][Next]_vars

\* Only the clock is fair.
FairSpec == Spec /\ WF_vars(Tick)

-----------------------------------------------------------------------------
\* The type of every variable; an entry has somebody who stored it, and only the
\* entries of the cache proper expire.
TypeOK ==
    /\ config \in Configs
    /\ now \in 0..MaxNow
    /\ version \in Nat \ {0} /\ floor \in 1..version
    /\ entry \in 0..version
    /\ expires \in 0..Never
    /\ pc \in [Calls -> Done \cup {"idle", "getting", "computing", "storing", "clearing", "deleting"}]
    /\ value \in [Calls -> 0..version]
    /\ storer \in SUBSET Readers /\ overtaken \in SUBSET Readers
    /\ entry = Absent <=> storer = Nobody
    /\ config.kind = "cache" => (entry # Absent <=> expires # Never)

\* The cache serves a value older than a completed bust only if that bust came
\* between the computation of the value and its storing.
StaleOnlyByOvertaking == entry # Absent /\ entry < floor => storer \subseteq overtaken

\* Where the scope is cleared, an entry lasts no longer than the call that stored
\* it, unless that call failed to clear it.
ClearedByItsCall ==
    Clears /\ entry # Absent => \A c \in storer : pc[c] \in {"clearing", "failed"}

\* A value older than the data goes away, with no bust to remove it: one that a bust
\* has overtaken, and one whose deletion failed, or was never asked for.
StaleGoesAway ==
    config.kind = "cache" /\ entry # Absent /\ entry < version
        ~> entry = Absent \/ entry >= version
=============================================================================
