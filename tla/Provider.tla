------------------------------ MODULE Provider ------------------------------
(***************************************************************************)
(* The provider singleton and the Redis client that its module keeps:      *)
(* packages/core/lib/resilience-provider.service.ts and                    *)
(* packages/core/lib/cache/cache.service.ts.                               *)
(***************************************************************************)
EXTENDS Integers

CONSTANT MaxProviders   \* bound: how often a provider is made

VARIABLES
    instance,     \* ResilienceProviderService.instance, 0 when undefined
    made,         \* how many providers were made; they are numbered
    client,       \* the module's client: "none", "connecting", "connected",
                  \* "closed" by disconnect, or "failed"
    initialized   \* initialized[p]: the promise of provider p

vars == <<instance, made, client, initialized>>

Providers == 1..MaxProviders

Init ==
    /\ instance = 0 /\ made = 0
    /\ client = "none"
    /\ initialized = [p \in Providers |-> "pending"]

\* forRoot without an instance: PersistenceFactory makes and connects the client if
\* there is none, and answers with the one there is, open or not, otherwise.
ForRoot ==
    /\ instance = 0 /\ made < MaxProviders
    /\ made' = made + 1 /\ instance' = made + 1
    /\ IF client = "none"
       THEN client' = "connecting" /\ UNCHANGED initialized
       ELSE initialized' = [initialized EXCEPT ![made + 1] = "ok"] /\ UNCHANGED client

\* connect() ends, or gives up (retryStrategy returns an error).
Connects ==
    /\ client = "connecting"
    /\ \/ client' = "connected" /\ initialized' = [initialized EXCEPT ![instance] = "ok"]
       \/ client' = "failed" /\ initialized' = [initialized EXCEPT ![instance] = "rejected"]
    /\ UNCHANGED <<instance, made>>

\* stop: the client stays, closed.  In any other state stop throws, before or in
\* disconnect(), and changes nothing.
Stop ==
    /\ instance # 0 /\ initialized[instance] = "ok" /\ client = "connected"
    /\ client' = "closed" /\ instance' = 0
    /\ UNCHANGED <<made, initialized>>

Next == ForRoot \/ Connects \/ Stop

Spec == Init /\ [][Next]_vars
=============================================================================
