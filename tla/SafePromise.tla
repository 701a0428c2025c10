---------------------------- MODULE SafePromise ----------------------------
(***************************************************************************)
(* SafePromise.race and SafePromise.cancel                                 *)
(* (packages/core/lib/util/safe-promise.ts): races of promises that leave  *)
(* nothing behind on the promises that have not settled.                   *)
(*                                                                         *)
(* Code between two awaits runs to its end; what an await continues with   *)
(* is a job, and jobs run in the order they were queued.  A promise may    *)
(* settle, and a race start, between any two jobs.                         *)
(***************************************************************************)
EXTENDS Integers, Sequences, SequencesExt

CONSTANTS
    Promises,
    Races,      \* calls of race
    Raceables   \* Raceables[r]: the sequence of promises r is given

ASSUME RaceablesAssumption == Raceables \in [Races -> Seq(Promises)]

VARIABLES
    settled,    \* the promises that have settled
    record,     \* record[p]: "none", or whether raceMap says p is settled
    races,      \* races[p]: the races in the record of p
    jobs,       \* the queue of jobs
    pc,         \* where each race is
    at,         \* at[r]: the contender whose check r awaits
    result,     \* result[r]: the promise (or cancellation) raceSettler was given
    winner,     \* winner[r]: what the promise of r settles with
    cancelled,  \* history: the promises on which cancel has rejected a race
    order,      \* history: the promises in the order they settled
    before      \* history: what had settled when r was linked to its contenders

vars == <<settled, record, races, jobs, pc, at, result, winner, cancelled, order, before>>

-----------------------------------------------------------------------------
Contenders == [r \in Races |-> ToSet(Raceables[r])]
Places(r) == DOMAIN Raceables[r]

\* The jobs: addRaceContender goes on once p has settled; race r goes on after
\* `await null`, or after `await result`.
Notice(p) == [job |-> "notice", of |-> p]
Checked(r) == [job |-> "checked", of |-> r]
Resumed(r) == [job |-> "resumed", of |-> r]

Least(S) == CHOOSE i \in S : \A j \in S : i <= j

Init ==
    /\ settled = {}
    /\ record = [p \in Promises |-> "none"]
    /\ races = [p \in Promises |-> {}]
    /\ jobs = <<>>
    /\ pc = [r \in Races |-> "idle"]
    /\ at = [r \in Races |-> 0]
    /\ result = [r \in Races |-> {}]
    /\ winner = [r \in Races |-> {}]
    /\ cancelled = {}
    /\ order = <<>>
    /\ before = [r \in Races |-> {}]

Finish(r, w) ==
    /\ winner' = [winner EXCEPT ![r] = w]
    /\ pc' = [pc EXCEPT ![r] = "done"]

\* Variant of Link: a contender that has settled since it was checked is overlooked.
LinkMutant(r, rest) ==
    /\ races' = [p \in Promises |-> IF p \in Contenders[r] THEN races[p] \cup {r} ELSE races[p]]
    /\ jobs' = rest
    /\ pc' = [pc EXCEPT ![r] = "waiting"]
    /\ before' = [before EXCEPT ![r] = settled]
    /\ UNCHANGED <<record, at, result, winner>>

\* The second pass, every contender being pending when it was checked: link r to
\* the contenders, up to one that turns out to be settled.
Link(r, rest) ==
    LET now == {i \in Places(r) : record[Raceables[r][i]] = "settled"}
        upTo == IF now = {} THEN Len(Raceables[r]) ELSE Least(now) - 1
        linked == {Raceables[r][i] : i \in 1..upTo}
    IN  /\ races' = [p \in Promises |-> IF p \in linked THEN races[p] \cup {r} ELSE races[p]]
        /\ IF now = {}
           THEN jobs' = rest /\ UNCHANGED result
           ELSE /\ result' = [result EXCEPT ![r] = {Raceables[r][Least(now)]}]
                /\ jobs' = Append(rest, Resumed(r))
        /\ pc' = [pc EXCEPT ![r] = "waiting"]
        /\ before' = [before EXCEPT ![r] = settled]
        /\ UNCHANGED <<record, at, winner>>

\* addRaceContender(c), and `await null`.
Register(r, i, rest) ==
    LET c == Raceables[r][i]
    IN  /\ record' = [record EXCEPT ![c] = "pending"]
        /\ jobs' = rest \o (IF c \in settled THEN <<Notice(c)>> ELSE <<>>) \o <<Checked(r)>>
        /\ pc' = [pc EXCEPT ![r] = "checking"]
        /\ at' = [at EXCEPT ![r] = i]
        /\ UNCHANGED <<races, result, winner, before>>

\* The first pass, from the i-th contender, with `rest` in the queue: it stops at a
\* contender that is known to be settled, and wins, or that has no record.
Pass(r, i, rest) ==
    LET stops == {j \in Places(r) : j >= i /\ record[Raceables[r][j]] # "pending"}
        j == Least(stops)
    IN  CASE stops = {} -> Link(r, rest)
          [] stops # {} /\ record[Raceables[r][j]] = "settled" ->
                /\ Finish(r, {Raceables[r][j]})
                /\ jobs' = rest
                /\ UNCHANGED <<record, races, at, result, before>>
          [] OTHER -> Register(r, j, rest)

\* race is called: one contender is awaited, none never settles.
Start(r) ==
    /\ pc[r] = "idle"
    /\ IF Len(Raceables[r]) > 1
       THEN Pass(r, 1, jobs)
       ELSE /\ pc' = [pc EXCEPT ![r] = "alone"]
            /\ UNCHANGED <<record, races, jobs, at, result, winner, before>>
    /\ UNCHANGED <<settled, cancelled, order>>

Alone(r) ==
    /\ pc[r] = "alone" /\ Contenders[r] \cap settled # {}
    /\ Finish(r, Contenders[r])
    /\ UNCHANGED <<settled, record, races, jobs, at, result, cancelled, order, before>>

\* A promise fulfils or rejects: whoever awaits it is queued.
Settle(p) ==
    /\ p \notin settled
    /\ settled' = settled \cup {p}
    /\ order' = Append(order, p)
    /\ jobs' = IF record[p] = "pending" THEN Append(jobs, Notice(p)) ELSE jobs
    /\ UNCHANGED <<record, races, pc, at, result, winner, cancelled, before>>

IsNext(j) == jobs # <<>> /\ Head(jobs) = j

\* After `await null`: newRecord.settled decides, or the pass goes on.
Check(r) ==
    /\ IsNext(Checked(r))
    /\ LET c == Raceables[r][at[r]]
       IN  IF record[c] = "settled"
           THEN /\ Finish(r, {c})
                /\ jobs' = Tail(jobs)
                /\ UNCHANGED <<record, races, at, result, before>>
           ELSE Pass(r, at[r] + 1, Tail(jobs))
    /\ UNCHANGED <<settled, cancelled, order>>

\* Variant of Deliver: every call of raceSettler counts.
DeliverMutant(R, p, rest) ==
    /\ result' = [r \in Races |-> IF r \in R THEN {p} ELSE result[r]]
    /\ jobs' = rest \o SetToSeq({Resumed(r) : r \in R})

\* raceSettler of the races R is called with p; only its first call counts.
Deliver(R, p, rest) ==
    LET fresh == {r \in R : result[r] = {}}
    IN  /\ result' = [r \in Races |-> IF r \in fresh THEN {p} ELSE result[r]]
        /\ jobs' = rest \o SetToSeq({Resumed(r) : r \in fresh})

\* addRaceContender after `await contender`.
Tell(p) ==
    /\ IsNext(Notice(p))
    /\ Deliver(races[p], p, Tail(jobs))
    /\ races' = [races EXCEPT ![p] = {}]
    /\ record' = [record EXCEPT ![p] = "settled"]
    /\ UNCHANGED <<settled, pc, at, winner, cancelled, order, before>>

\* Variant of Resume: no finally block.
ResumeMutant(r) ==
    /\ IsNext(Resumed(r))
    /\ Finish(r, result[r])
    /\ jobs' = Tail(jobs)
    /\ UNCHANGED <<settled, record, races, at, result, cancelled, order, before>>

\* race after `await result`, with its finally block.
Resume(r) ==
    /\ IsNext(Resumed(r))
    /\ Finish(r, result[r])
    /\ jobs' = Tail(jobs)
    /\ races' = [p \in Promises |-> IF p \in Contenders[r] THEN races[p] \ {r} ELSE races[p]]
    /\ UNCHANGED <<settled, record, at, result, cancelled, order, before>>

\* cancel(p): the races of a pending p reject with OperationCancelledException.
Cancel(p) ==
    /\ record[p] = "pending" /\ races[p] # {}
    /\ Deliver(races[p], p, jobs)
    /\ races' = [races EXCEPT ![p] = {}]
    /\ cancelled' = cancelled \cup {p}
    /\ UNCHANGED <<settled, record, pc, at, winner, order, before>>

Job ==
    \/ \E r \in Races : Check(r) \/ Resume(r)
    \/ \E p \in Promises : Tell(p)

Next ==
    \/ Job
    \/ \E r \in Races : Start(r) \/ Alone(r)
    \/ \E p \in Promises : Settle(p) \/ Cancel(p)

Spec == Init /\ [][Next]_vars

\* The queue is run.
FairSpec == Spec /\ WF_vars(Job) /\ \A r \in Races : WF_vars(Alone(r))

-----------------------------------------------------------------------------
\* The type of every variable; nothing is queued twice.
TypeOK ==
    /\ settled \subseteq Promises /\ cancelled \subseteq Promises
    /\ record \in [Promises -> {"none", "pending", "settled"}]
    /\ races \in [Promises -> SUBSET Races]
    /\ \A i \in DOMAIN jobs :
          jobs[i] \in {Notice(p) : p \in Promises} \cup {Checked(r) : r \in Races}
                      \cup {Resumed(r) : r \in Races}
    /\ IsInjective(jobs)
    /\ pc \in [Races -> {"idle", "alone", "checking", "waiting", "done"}]
    /\ \A r \in Races :
          /\ at[r] \in 0..Len(Raceables[r])
          /\ result[r] \in SUBSET Contenders[r] /\ winner[r] \in SUBSET Contenders[r]

\* No leak: a promise that has not settled refers to the races that still wait
\* for it, and to no other, in variables that are of their types.
NothingLeaks ==
    /\ TypeOK
    /\ \A p \in Promises : \A r \in races[p] :
          pc[r] = "waiting" /\ record[p] = "pending" /\ p \in Contenders[r]

\* Every race is decided once, by a contender that settled, or was cancelled, and
\* it is decided if one of its contenders settles.
Promised == INSTANCE Race WITH running <- {r \in Races : pc[r] # "idle"}
ImplementsRace == Promised!FairSpec

Place(p) == Least({i \in DOMAIN order : order[i] = p})

\* Of the contenders that settle after the race was linked to all of them, the first
\* wins, however many settle before the race goes on.
FirstWins ==
    \A r \in Races :
        /\ pc[r] = "done" /\ result[r] # {}
        /\ before[r] \cap Contenders[r] = {} /\ winner[r] \cap cancelled = {}
        => \A p \in winner[r], q \in Contenders[r] \cap settled : Place(p) <= Place(q)
=============================================================================
