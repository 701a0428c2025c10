------------------------------- MODULE Hedge -------------------------------
(***************************************************************************)
(* One Hedge object and its calls (packages/hedge/lib/hedge.ts,            *)
(* packages/hedge/lib/internal/hedge-executor.ts), built on the races that *)
(* SafePromise implements.  A call races the decorated function, its       *)
(* primary, with a future: the first of PoolSize functions started after a *)
(* delay.  All timers of the object listen to one AbortController.         *)
(*                                                                         *)
(* Timers fire when no continuation is left to run (Quiet); a function may *)
(* settle at any time.                                                     *)
(***************************************************************************)
EXTENDS Integers

CONSTANTS
    Calls,      \* invocations of the decorated function
    PoolSize    \* config.maxHedgedAttempts

ASSUME PoolAssumption == PoolSize \in Nat

VARIABLES
    callSettled, running, callWinner,  \* of the races, see Race
    failed,     \* the promises that settled with an error
    timer,      \* timer[c]: "none", "armed", "fired" or "aborted"
    outcome,    \* outcome[c]: "none", "fulfilled" or "rejected"
    aborted     \* HedgeExecutor.ac.signal.aborted

raceVars == <<callSettled, running, callWinner>>
hedgeVars == <<raceVars, failed, timer, outcome, aborted>>

-----------------------------------------------------------------------------
Pool == 1..PoolSize

\* The promises of call c: the primary, the future, and the hedged functions.
Primary(c) == [call |-> c, part |-> 0]
Future(c) == [call |-> c, part |-> PoolSize + 1]
Hedged(c, k) == [call |-> c, part |-> k]
HedgePromises == [call : Calls, part : 0..(PoolSize + 1)]

\* The race of the call itself, and the race of its hedged functions.
CallRace(c) == [call |-> c, of |-> "call"]
PoolRace(c) == [call |-> c, of |-> "pool"]
HedgeRaces == [call : Calls, of : {"call", "pool"}]
HedgeContenders == [r \in HedgeRaces |->
    IF r.of = "call" THEN {Primary(r.call), Future(r.call)}
                     ELSE {Hedged(r.call, k) : k \in Pool}]

R == INSTANCE Race WITH
        Promises <- HedgePromises, Races <- HedgeRaces, Contenders <- HedgeContenders,
        settled <- callSettled, winner <- callWinner, cancelled <- {}

-----------------------------------------------------------------------------
HedgeInit ==
    /\ R!Init
    /\ failed = {}
    /\ timer = [c \in Calls |-> "none"]
    /\ outcome = [c \in Calls |-> "none"]
    /\ aborted = FALSE

\* p settles, with an error if bad.
Settles(p, bad) ==
    /\ R!Settle(p)
    /\ failed' = IF bad THEN failed \cup {p} ELSE failed

\* schedule: an aborted signal makes the timer reject at once; fn is called.
Call(c) ==
    /\ R!Start(CallRace(c))
    /\ timer' = [timer EXCEPT ![c] = IF aborted THEN "aborted" ELSE "armed"]
    /\ UNCHANGED <<failed, outcome, aborted>>

PrimarySettles(c) ==
    /\ CallRace(c) \in running
    /\ \E bad \in BOOLEAN : Settles(Primary(c), bad)
    /\ UNCHANGED <<timer, outcome, aborted>>

\* Everything that has settled has been dealt with.
Quiet ==
    /\ \A r \in running : callWinner[r] = {} => HedgeContenders[r] \cap callSettled = {}
    /\ \A c \in Calls :
          /\ callWinner[CallRace(c)] # {} => outcome[c] # "none"
          /\ callWinner[PoolRace(c)] # {} \/ timer[c] = "aborted" => Future(c) \in callSettled

\* Variant of TimerFires: a timer that goes on.
TimerFiresMutant(c) ==
    /\ Quiet
    /\ timer[c] = "armed"
    /\ R!Start(PoolRace(c))
    /\ UNCHANGED <<failed, timer, outcome, aborted>>

\* The delay is over: the hedged functions are called.
TimerFires(c) ==
    /\ Quiet
    /\ timer[c] = "armed"
    /\ timer' = [timer EXCEPT ![c] = "fired"]
    /\ R!Start(PoolRace(c))
    /\ UNCHANGED <<failed, outcome, aborted>>

TimerRejects(c) ==
    /\ timer[c] = "aborted"
    /\ Settles(Future(c), TRUE)
    /\ UNCHANGED <<timer, outcome, aborted>>

HedgedSettles(c, k) ==
    /\ PoolRace(c) \in running
    /\ \E bad \in BOOLEAN : Settles(Hedged(c, k), bad)
    /\ UNCHANGED <<timer, outcome, aborted>>

\* Variant of FutureSettles: the pool waits for a success.
FutureSettlesMutant(c) ==
    /\ \E p \in callWinner[PoolRace(c)] \ failed : Settles(Future(c), FALSE)
    /\ UNCHANGED <<timer, outcome, aborted>>

\* The first hedged function settles the future; an error is a result that is not ok.
FutureSettles(c) ==
    /\ \E p \in callWinner[PoolRace(c)] : Settles(Future(c), p \in failed)
    /\ UNCHANGED <<timer, outcome, aborted>>

Decide(r) ==
    /\ R!Decide(r)
    /\ UNCHANGED <<failed, timer, outcome, aborted>>

\* Variant of CancelTimers: the timers that are pending do not listen.
CancelTimersMutant ==
    /\ aborted' = TRUE
    /\ UNCHANGED timer

\* HedgeExecutor.cancel: every timer of the object that is pending rejects.
CancelTimers ==
    /\ aborted' = TRUE
    /\ timer' = [d \in Calls |-> IF timer[d] = "armed" THEN "aborted" ELSE timer[d]]

\* Variant of CallGoesOn: every call that ends cancels.
CallGoesOnMutant(c) ==
    /\ outcome[c] = "none"
    /\ \E p \in callWinner[CallRace(c)] :
          outcome' = [outcome EXCEPT ![c] = IF p \in failed THEN "rejected" ELSE "fulfilled"]
    /\ CancelTimers
    /\ UNCHANGED <<raceVars, failed>>

\* The call goes on after its race: a primary that fulfilled cancels.
CallGoesOn(c) ==
    /\ outcome[c] = "none"
    /\ \E p \in callWinner[CallRace(c)] :
          /\ outcome' = [outcome EXCEPT ![c] = IF p \in failed THEN "rejected" ELSE "fulfilled"]
          /\ IF p = Primary(c) /\ p \notin failed THEN CancelTimers ELSE UNCHANGED <<timer, aborted>>
    /\ UNCHANGED <<raceVars, failed>>

Continuation(c) ==
    \/ TimerRejects(c) \/ FutureSettles(c) \/ CallGoesOn(c)
    \/ Decide(CallRace(c)) \/ Decide(PoolRace(c))

HedgeNext ==
    \E c \in Calls :
       \/ Call(c) \/ PrimarySettles(c) \/ TimerFires(c)
       \/ Continuation(c)
       \/ \E k \in Pool : HedgedSettles(c, k)

HedgeSpec == HedgeInit /\ [][HedgeNext]_hedgeVars

\* Continuations run, and timers fire.  A function need not settle.
HedgeFairSpec ==
    /\ HedgeSpec
    /\ \A c \in Calls : WF_hedgeVars(Continuation(c)) /\ WF_hedgeVars(TimerFires(c))

-----------------------------------------------------------------------------
\* The type of every variable; a call has a timer, and a pool once it has fired.
HedgeTypeOK ==
    /\ callSettled \subseteq HedgePromises /\ failed \subseteq callSettled
    /\ running \subseteq HedgeRaces
    /\ callWinner \in [HedgeRaces -> SUBSET HedgePromises]
    /\ timer \in [Calls -> {"none", "armed", "fired", "aborted"}]
    /\ outcome \in [Calls -> {"none", "fulfilled", "rejected"}]
    /\ aborted \in BOOLEAN
    /\ \A c \in Calls :
          /\ timer[c] # "none" <=> CallRace(c) \in running
          /\ timer[c] = "fired" <=> PoolRace(c) \in running

\* The functions of call c that have settled, with an error or without.
Own(c) == {p \in callSettled : p.call = c /\ p # Future(c)}

\* A call fulfils only with what a function of its own has returned, and rejects
\* without an error of its own only if another call's success has aborted it.
OutcomeJustified ==
    \A c \in Calls :
        /\ outcome[c] = "fulfilled" => Own(c) \ failed # {}
        /\ outcome[c] = "rejected" /\ Own(c) \cap failed = {} =>
              \E d \in Calls \ {c} : outcome[d] = "fulfilled" /\ Primary(d) \in callSettled \ failed

\* Once the primary of a call has fulfilled, the call starts no hedged functions any more,
\* although it hears of that, and aborts its timer, some continuations later only.
NoHedgeAfterSuccess ==
    [][\A c \in Calls :
          Primary(c) \in callSettled \ failed /\ PoolRace(c) \notin running =>
              PoolRace(c) \notin running']_hedgeVars

\* A call one of whose functions settles ends, whichever it is, and so does a call
\* whose timer was aborted.
CallEnds ==
    \A c \in Calls :
        (CallRace(c) \in running /\ (Own(c) # {} \/ (aborted /\ timer[c] # "fired")))
            ~> outcome[c] # "none"

\* A call rejects only because a function of its own did.
OwnFailuresOnly ==
    \A c \in Calls : outcome[c] = "rejected" => Own(c) \cap failed # {}
=============================================================================
