------------------------ MODULE ConcurrentQueueProofs ------------------------
(***************************************************************************)
(* Proofs about the lock queue of ConcurrentQueue, for any callers,        *)
(* instances and configuration.                                            *)
(***************************************************************************)
EXTENDS ConcurrentQueue, FiniteSetTheorems, TLAPS

\* MaxDuration is a number of milliseconds: half of n * (n + 1) is whole.
LEMMA DurationNat == MaxDuration \in Nat
<1> DEFINE m == MaxAttempts * (MaxAttempts + 1)
<1>1. m \in Nat
  BY ConfigAssumption
<1>2. m \div 2 \in Nat
  <2> HIDE DEF m
  <2> QED
    BY <1>1
<1> QED
  BY <1>2, ConfigAssumption DEF MaxDuration

-----------------------------------------------------------------------------
(* Types.                                                                  *)

\* An attempt is one of those allowed.
Counted ==
    \A c \in Callers : pc[c] \in {"reading", "deciding"} => attempts[c] < MaxAttempts

LEMMA TypeStep == TypeOK /\ Counted /\ [Next]_vars => TypeOK' /\ Counted'
<1> SUFFICES ASSUME TypeOK, Counted, [Next]_vars
             PROVE  TypeOK' /\ Counted'
  OBVIOUS
<1> USE ConfigAssumption DEF TypeOK, Counted, PCs, Done, Goto
<1>1. CASE UNCHANGED vars
  BY <1>1 DEF vars
<1>2. ASSUME NEW c \in Callers, Call(c)
      PROVE  TypeOK' /\ Counted'
  BY <1>2, DurationNat DEF Call
<1>3. ASSUME NEW c \in Callers, Add(c) \/ Attempt(c) \/ GiveUp(c)
      PROVE  TypeOK' /\ Counted'
  BY <1>3 DEF Add, Attempt, GiveUp
<1>4. ASSUME NEW c \in Callers, Read(c)
      PROVE  TypeOK' /\ Counted'
  BY <1>4 DEF Read, Front
<1>5. ASSUME NEW c \in Callers, Retry(c)
      PROVE  TypeOK' /\ Counted'
  <2>1. attempts[c] + 1 \in 0 .. MaxAttempts
    BY <1>5 DEF Retry
  <2>2. now + (attempts[c] + 1) * Backoff \in Nat
    BY <2>1
  <2>3. /\ attempts' = [attempts EXCEPT ![c] = attempts[c] + 1]
        /\ wake' = [wake EXCEPT ![c] = now + (attempts[c] + 1) * Backoff]
        /\ pc' = [pc EXCEPT ![c] = "waiting"]
        /\ view' = [view EXCEPT ![c] = {}]
        /\ UNCHANGED <<now, queue, score>>
    BY <1>5 DEF Retry
  <2>4. wake' \in [Callers -> Nat]
    BY <2>2, <2>3
  <2>5. attempts' \in [Callers -> 0 .. MaxAttempts]
    BY <2>1, <2>3
  <2> QED
    BY <2>3, <2>4, <2>5
<1>6. ASSUME NEW c \in Callers, Admit(c) \/ Clean(c)
      PROVE  TypeOK' /\ Counted'
  BY <1>6 DEF Admit, Clean, Expired
<1>7. ASSUME NEW c \in Callers, Settle(c) \/ Remove(c)
      PROVE  TypeOK' /\ Counted'
  BY <1>7 DEF Settle, Remove
<1>8. ASSUME NEW c \in Callers, ConnectionError(c)
      PROVE  TypeOK' /\ Counted'
  BY <1>8 DEF ConnectionError
<1>9. ASSUME NEW i \in Instances, Crash(i)
      PROVE  TypeOK' /\ Counted'
  BY <1>9 DEF Crash
<1>10. CASE Tick
  BY <1>10 DEF Tick
<1> QED
  BY <1>1, <1>2, <1>3, <1>4, <1>5, <1>6, <1>7, <1>8, <1>9, <1>10 DEF Next

\* The type of the queue, and the attempts never exceed maxAttempts.
THEOREM QueueTypeCorrect == Spec => []TypeOK
<1>1. Init => TypeOK /\ Counted
  BY ConfigAssumption DEF Init, TypeOK, Counted, PCs
<1> QED
  BY <1>1, TypeStep, PTL DEF Spec

-----------------------------------------------------------------------------
(* No cleanup removes an entry that has not expired.                       *)

\* Whoever is in the queue, or was seen there, has been called; and a score lies
\* at most maxDuration ahead.
Called ==
    /\ \A c \in queue : pc[c] # "idle"
    /\ \A c \in Callers : \A d \in view[c] : pc[d] # "idle"
    /\ \A c \in Callers : score[c] <= now + MaxDuration

\* What a granted call is about to remove has expired.
Chosen == \A c \in Callers : pc[c] = "cleaning" => \A e \in view[c] : score[e] <= now

\* A step leaves the scores of those that have been called alone, and never
\* makes time go back.
LEMMA Steady ==
    ASSUME TypeOK, [Next]_vars
    PROVE  /\ now' >= now
           /\ \A c \in Callers : pc[c] # "idle" => score'[c] = score[c] /\ pc'[c] # "idle"
<1> USE DEF TypeOK, Goto
<1>1. CASE UNCHANGED vars
  BY <1>1 DEF vars
<1>2. ASSUME NEW c \in Callers,
             Call(c) \/ Add(c) \/ Attempt(c) \/ GiveUp(c) \/ Read(c) \/ Retry(c)
      PROVE  /\ now' >= now
             /\ \A d \in Callers : pc[d] # "idle" => score'[d] = score[d] /\ pc'[d] # "idle"
  BY <1>2 DEF Call, Add, Attempt, GiveUp, Read, Retry
<1>3. ASSUME NEW c \in Callers,
             Admit(c) \/ Clean(c) \/ Settle(c) \/ Remove(c) \/ ConnectionError(c)
      PROVE  /\ now' >= now
             /\ \A d \in Callers : pc[d] # "idle" => score'[d] = score[d] /\ pc'[d] # "idle"
  BY <1>3 DEF Admit, Clean, Settle, Remove, ConnectionError
<1>4. ASSUME NEW i \in Instances, Crash(i)
      PROVE  /\ now' >= now
             /\ \A d \in Callers : pc[d] # "idle" => score'[d] = score[d] /\ pc'[d] # "idle"
  BY <1>4 DEF Crash
<1>5. CASE Tick
  BY <1>5 DEF Tick
<1> QED
  BY <1>1, <1>2, <1>3, <1>4, <1>5 DEF Next

LEMMA CalledStep == TypeOK /\ Called /\ [Next]_vars => Called'
<1> SUFFICES ASSUME TypeOK, Called, [Next]_vars
             PROVE  Called'
  OBVIOUS
<1> USE Steady
<1>1. queue' \subseteq queue \cup {c \in Callers : pc[c] = "adding"}
  <2> USE DEF TypeOK
  <2>1. ASSUME NEW c \in Callers,
               \/ Call(c) \/ Add(c) \/ Attempt(c) \/ GiveUp(c) \/ Read(c) \/ Retry(c)
               \/ Admit(c) \/ Clean(c) \/ Settle(c) \/ Remove(c) \/ ConnectionError(c)
        PROVE  queue' \subseteq queue \cup {d \in Callers : pc[d] = "adding"}
    BY <2>1 DEF Call, Add, Attempt, GiveUp, Read, Retry, Admit, Clean, Settle, Remove,
       ConnectionError
  <2> QED
    BY <2>1 DEF Next, Crash, Tick, vars
<1>2. \A c \in Callers : view'[c] \subseteq view[c] \cup queue
  <2> USE DEF TypeOK
  <2>1. ASSUME NEW c \in Callers,
               Call(c) \/ Add(c) \/ Attempt(c) \/ GiveUp(c) \/ Settle(c) \/ Remove(c)
        PROVE  view' = view
    BY <2>1 DEF Call, Add, Attempt, GiveUp, Settle, Remove
  <2>2. ASSUME NEW c \in Callers, Read(c)
        PROVE  \A d \in Callers : view'[d] \subseteq view[d] \cup queue
    BY <2>2 DEF Read, Front
  <2>3. ASSUME NEW c \in Callers, Admit(c)
        PROVE  \A d \in Callers : view'[d] \subseteq view[d] \cup queue
    BY <2>3 DEF Admit, Expired
  <2>4. ASSUME NEW c \in Callers, Retry(c) \/ Clean(c) \/ ConnectionError(c)
        PROVE  \A d \in Callers : view'[d] \subseteq view[d] \cup queue
    <3>1. view' = [view EXCEPT ![c] = {}]
      BY <2>4 DEF Retry, Clean, ConnectionError
    <3> QED
      BY <3>1
  <2>5. ASSUME NEW i \in Instances, Crash(i)
        PROVE  \A d \in Callers : view'[d] \subseteq view[d] \cup queue
    BY <2>5 DEF Crash
  <2> QED
    BY <2>1, <2>2, <2>3, <2>4, <2>5 DEF Next, Tick, vars
<1>3. \A c \in Callers : score'[c] <= now' + MaxDuration
  <2>1. ASSUME NEW c \in Callers
        PROVE  score'[c] = score[c] \/ (score'[c] = now + MaxDuration /\ now' = now)
    <3> USE DEF TypeOK
    <3>1. ASSUME NEW d \in Callers, Call(d)
          PROVE  score'[c] = score[c] \/ (score'[c] = now + MaxDuration /\ now' = now)
      BY <3>1 DEF Call
    <3>2. ASSUME NEW d \in Callers,
                 \/ Add(d) \/ Attempt(d) \/ GiveUp(d) \/ Read(d) \/ Retry(d)
                 \/ Admit(d) \/ Clean(d) \/ Settle(d) \/ Remove(d) \/ ConnectionError(d)
          PROVE  score'[c] = score[c]
      BY <3>2 DEF Add, Attempt, GiveUp, Read, Retry, Admit, Clean, Settle, Remove,
         ConnectionError
    <3> QED
      BY <3>1, <3>2 DEF Next, Crash, Tick, vars
  <2>2. now' \in Nat /\ \A c \in Callers : score[c] \in Nat /\ now \in Nat
    BY TypeStep DEF TypeOK, Next, vars, Call, Add, Attempt, GiveUp, Read, Retry, Admit,
       Clean, Settle, Remove, ConnectionError, Crash, Tick
  <2> QED
    BY <2>1, <2>2, DurationNat DEF Called
<1> QED
  BY <1>1, <1>2, <1>3 DEF Called, TypeOK

LEMMA ChosenStep == TypeOK /\ Called /\ Chosen /\ [Next]_vars => Chosen'
<1> SUFFICES ASSUME TypeOK, Called, Chosen, [Next]_vars, NEW c \in Callers,
                    pc'[c] = "cleaning", NEW e \in view'[c]
             PROVE  score'[e] <= now'
  BY DEF Chosen
<1> USE DEF Goto
<1>1. now \in Nat /\ now' \in Nat /\ now' >= now
  BY Steady, TypeStep DEF TypeOK, Next, vars, Call, Add, Attempt, GiveUp, Read, Retry,
     Admit, Clean, Settle, Remove, ConnectionError, Crash, Tick
<1>2. CASE pc[c] = "cleaning" /\ e \in view[c]
  <2>1. e \in Callers /\ score[e] \in Nat /\ score'[e] = score[e] /\ score[e] <= now
    BY <1>2, Steady DEF TypeOK, Called, Chosen
  <2> QED
    BY <1>1, <2>1
<1>3. CASE Admit(c)
  <2>1. e \in Expired(c) /\ score' = score /\ now' = now
    BY <1>3 DEF Admit, TypeOK
  <2> QED
    BY <2>1 DEF Expired
<1>4. CASE ~Admit(c) /\ ~(pc[c] = "cleaning" /\ e \in view[c])
  <2> USE DEF TypeOK
  <2>1. ASSUME NEW d \in Callers,
               \/ Call(d) \/ Add(d) \/ Attempt(d) \/ GiveUp(d) \/ Settle(d) \/ Remove(d)
        PROVE  FALSE
    BY <1>4, <2>1 DEF Call, Add, Attempt, GiveUp, Settle, Remove
  <2>2. ASSUME NEW d \in Callers, Read(d) \/ Retry(d) \/ Clean(d) \/ ConnectionError(d)
        PROVE  FALSE
    BY <1>4, <2>2 DEF Read, Retry, Clean, ConnectionError
  <2>3. ASSUME NEW d \in Callers, Admit(d)
        PROVE  FALSE
    BY <1>4, <2>3 DEF Admit
  <2>4. ASSUME NEW i \in Instances, Crash(i)
        PROVE  FALSE
    BY <1>4, <2>4 DEF Crash
  <2> QED
    BY <1>4, <2>1, <2>2, <2>3, <2>4 DEF Next, Tick, vars
<1> QED
  BY <1>2, <1>3, <1>4

LEMMA KeptStep == TypeOK /\ Chosen /\ LiveEntryKept /\ [Next]_vars => LiveEntryKept'
<1> SUFFICES ASSUME TypeOK, Chosen, LiveEntryKept, [Next]_vars,
                    NEW c \in Callers, Queued(c)', Live(c)'
             PROVE  c \in queue'
  BY DEF LiveEntryKept
<1> USE DEF Queued, Live, Goto
<1>1. ASSUME Queued(c)
      PROVE  c \in queue /\ Live(c)
  <2>1. pc[c] # "idle" /\ score'[c] = score[c] /\ now' >= now
    BY <1>1, Steady
  <2>2. now \in Nat /\ now' \in Nat /\ score[c] \in Nat
    BY TypeStep DEF TypeOK, Next, vars, Call, Add, Attempt, GiveUp, Read, Retry, Admit,
       Clean, Settle, Remove, ConnectionError, Crash, Tick
  <2> QED
    BY <1>1, <2>1, <2>2 DEF LiveEntryKept
<1>2. CASE ~Queued(c)
  <2> USE DEF TypeOK
  <2>1. ASSUME NEW d \in Callers, Add(d)
        PROVE  c \in queue'
    BY <1>2, <2>1 DEF Add
  <2>2. ASSUME NEW d \in Callers,
               Call(d) \/ Attempt(d) \/ GiveUp(d) \/ Settle(d) \/ Remove(d)
        PROVE  FALSE
    BY <1>2, <2>2 DEF Call, Attempt, GiveUp, Settle, Remove
  <2>3. ASSUME NEW d \in Callers,
               Read(d) \/ Retry(d) \/ Admit(d) \/ Clean(d) \/ ConnectionError(d)
        PROVE  FALSE
    BY <1>2, <2>3 DEF Read, Retry, Admit, Clean, ConnectionError
  <2>4. ASSUME NEW i \in Instances, Crash(i)
        PROVE  FALSE
    BY <1>2, <2>4 DEF Crash
  <2> QED
    BY <1>2, <2>1, <2>2, <2>3, <2>4 DEF Next, Tick, vars
<1>3. ASSUME Queued(c), NEW d \in Callers, pc[d] = "cleaning"
      PROVE  c \notin Stale(d)
  <2>1. c \in queue /\ score[c] > now
    BY <1>1, <1>3
  <2>2. \A e \in view[d] : score[e] <= now /\ e \in Callers
    BY <1>3 DEF Chosen, TypeOK
  <2>3. now \in Nat /\ \A e \in Callers : score[e] \in Nat
    BY DEF TypeOK
  <2> QED
    BY <2>1, <2>2, <2>3 DEF Stale
<1>4. CASE Queued(c)
  <2> USE DEF TypeOK
  <2>1. c \in queue
    BY <1>1, <1>4
  <2>2. ASSUME NEW d \in Callers,
               \/ Call(d) \/ Add(d) \/ Attempt(d) \/ GiveUp(d) \/ Read(d) \/ Retry(d)
               \/ Admit(d) \/ Settle(d)
        PROVE  c \in queue'
    BY <2>1, <2>2 DEF Call, Add, Attempt, GiveUp, Read, Retry, Admit, Settle
  <2>3. ASSUME NEW d \in Callers, Clean(d)
        PROVE  c \in queue'
    BY <1>3, <1>4, <2>1, <2>3 DEF Clean
  <2>4. ASSUME NEW d \in Callers, Remove(d)
        PROVE  c \in queue'
    BY <1>4, <2>1, <2>4 DEF Remove
  <2>5. ASSUME NEW d \in Callers, ConnectionError(d)
        PROVE  c \in queue'
    <3>1. pc[d] = "cleaning" => c \notin Stale(d)
      BY <1>3, <1>4
    <3>2. pc[d] = "removing" => c # d
      BY <1>4
    <3> QED
      BY <2>1, <2>5, <3>1, <3>2 DEF ConnectionError
  <2> QED
    BY <2>1, <2>2, <2>3, <2>4, <2>5 DEF Next, Crash, Tick, vars
<1> QED
  BY <1>2, <1>4

\* An entry that has not expired stays for as long as its caller waits or runs.
THEOREM EntrySafety == Spec => []LiveEntryKept
<1>1. Init => TypeOK /\ Counted /\ Called /\ Chosen /\ LiveEntryKept
  BY ConfigAssumption, DurationNat
     DEF Init, TypeOK, Counted, Called, Chosen, LiveEntryKept, Queued, PCs
<1> QED
  BY <1>1, TypeStep, CalledStep, ChosenStep, KeptStep, PTL DEF Spec

-----------------------------------------------------------------------------
(* The calls of one instance exclude each other.                           *)

\* Whoever is called after a peer's entry has arrived has a place behind it.
Arrived ==
    \A c \in Callers : \A d \in Peers(c) :
        Queued(c) /\ pc[d] = "adding" => score[c] <= score[d]

\* A call that finds its own entry sees all the older ones of its peers.
Seen ==
    \A c \in Callers : \A d \in Peers(c) :
        /\ pc[c] = "deciding" /\ c \in view[c]
        /\ Queued(d) /\ Live(d) /\ score[d] < score[c]
        => d \in view[c]

\* A call that has been granted the lock is the oldest among its peers.
Oldest ==
    \A c \in Callers : \A d \in Peers(c) :
        pc[c] \in {"cleaning", "running"} /\ Queued(d) /\ Live(d) => score[c] <= score[d]

LEMMA PeersOf ==
    \A c \in Callers : \A d \in Peers(c) : d \in Callers /\ c \in Peers(d) /\ c # d
BY DEF Peers

\* A read that holds an entry holds every entry before it.
LEMMA FrontPrefix ==
    ASSUME TypeOK, NEW c \in Callers, NEW d \in Front(c), NEW e \in queue, Before(e, d)
    PROVE  e \in Front(c)
<1> DEFINE upTo == {f \in queue : score[f] <= score[c]}
           Ahead(f) == {g \in upTo : Before(g, f)}
<1>1. upTo \subseteq Callers /\ IsFiniteSet(upTo)
  BY CallersAssumption, FS_Subset DEF TypeOK
<1>2. d \in upTo /\ Cardinality(Ahead(d)) < Limit
  BY DEF Front
<1>3. \A f \in Callers : f \in Nat /\ score[f] \in Nat
  BY CallersAssumption DEF TypeOK
<1>4. e \in upTo
  BY <1>1, <1>2, <1>3 DEF Before, TypeOK
<1>5. Ahead(e) \subseteq Ahead(d)
  <2> SUFFICES ASSUME NEW g \in upTo, Before(g, e)
               PROVE  Before(g, d)
    OBVIOUS
  <2>1. g \in Nat /\ e \in Nat /\ d \in Nat
    BY <1>1, <1>2, <1>3, <1>4
  <2>2. score[g] \in Nat /\ score[e] \in Nat /\ score[d] \in Nat
    BY <1>1, <1>2, <1>3, <1>4
  <2> QED
    BY <2>1, <2>2 DEF Before
<1>6. IsFiniteSet(Ahead(d))
  BY <1>1, FS_Subset
<1>7. Cardinality(Ahead(e)) <= Cardinality(Ahead(d))
  BY <1>5, <1>6, FS_Subset
<1>8. Cardinality(Ahead(e)) \in Nat /\ Cardinality(Ahead(d)) \in Nat
  BY <1>5, <1>6, FS_Subset, FS_CardinalityType
<1> QED
  <2>1. Cardinality(Ahead(e)) < Limit
    BY <1>2, <1>7, <1>8, ConfigAssumption
  <2> QED
    BY <1>4, <2>1 DEF Front

\* What a step does to the entries that two callers compare: those of a caller
\* that has been called keep their scores, and expire but do not come to life.
LEMMA Compared ==
    ASSUME TypeOK, [Next]_vars, NEW c \in Callers, pc[c] # "idle"
    PROVE  score'[c] = score[c] /\ (Live(c)' => Live(c))
<1>1. now \in Nat /\ now' \in Nat /\ score[c] \in Nat
  BY TypeStep DEF TypeOK, Next, vars, Call, Add, Attempt, GiveUp, Read, Retry, Admit,
     Clean, Settle, Remove, ConnectionError, Crash, Tick
<1> QED
  BY <1>1, Steady DEF Live

\* How a caller comes to a place in the queue, to adding, deciding and the lock.
LEMMA Entering ==
    ASSUME TypeOK, [Next]_vars, NEW c \in Callers
    PROVE  /\ Queued(c)' => Queued(c) \/ (pc[c] = "adding" /\ Add(c))
           /\ pc'[c] = "adding" => pc[c] = "adding" \/ Call(c)
           /\ pc'[c] = "deciding" => Read(c) \/ (pc[c] = "deciding" /\ view'[c] = view[c])
           /\ pc'[c] \in {"cleaning", "running"} =>
                  pc[c] \in {"cleaning", "running"} \/ Admit(c)
<1> USE DEF Queued, Goto, TypeOK
<1> DEFINE Enters ==
             /\ Queued(c)' => Queued(c) \/ (pc[c] = "adding" /\ Add(c))
             /\ pc'[c] = "adding" => pc[c] = "adding" \/ Call(c)
             /\ pc'[c] = "deciding" => Read(c) \/ (pc[c] = "deciding" /\ view'[c] = view[c])
             /\ pc'[c] \in {"cleaning", "running"} =>
                    pc[c] \in {"cleaning", "running"} \/ Admit(c)
<1>1. ASSUME NEW d \in Callers, d # c,
             \/ Call(d) \/ Add(d) \/ Attempt(d) \/ GiveUp(d) \/ Read(d) \/ Retry(d)
             \/ Admit(d) \/ Clean(d) \/ Settle(d) \/ Remove(d) \/ ConnectionError(d)
      PROVE  Enters
  <2>1. pc'[c] = pc[c] /\ view'[c] = view[c]
    BY <1>1 DEF Call, Add, Attempt, GiveUp, Read, Retry, Admit, Clean, Settle, Remove,
       ConnectionError
  <2> QED
    BY <2>1
<1>2. CASE Call(c) \/ Add(c) \/ Attempt(c) \/ GiveUp(c) \/ Settle(c) \/ Remove(c)
  BY <1>2 DEF Call, Add, Attempt, GiveUp, Settle, Remove
<1>3. CASE Read(c) \/ Retry(c) \/ Admit(c) \/ Clean(c)
  BY <1>3 DEF Read, Retry, Admit, Clean
<1>4. CASE ConnectionError(c)
  BY <1>4 DEF ConnectionError
<1>5. ASSUME NEW i \in Instances, Crash(i)
      PROVE  Enters
  <2>1. \/ pc'[c] \in Done
        \/ pc'[c] = pc[c] /\ view'[c] = view[c]
    BY <1>5 DEF Crash, Done
  <2> QED
    BY <2>1 DEF Done
<1>6. CASE UNCHANGED vars \/ Tick
  BY <1>6 DEF vars, Tick
<1> QED
  BY <1>1, <1>2, <1>3, <1>4, <1>5, <1>6 DEF Next

LEMMA ArrivedStep == TypeOK /\ Called /\ Arrived /\ [Next]_vars => Arrived'
<1> SUFFICES ASSUME TypeOK, Called, Arrived, [Next]_vars,
                    NEW c \in Callers, NEW d \in Peers(c),
                    Queued(c)', pc'[d] = "adding"
             PROVE  score'[c] <= score'[d]
  BY DEF Arrived, Peers
<1>1. d \in Callers /\ c \in Peers(d) /\ c # d
  BY PeersOf
<1>2. pc[c] # "idle" /\ score'[c] = score[c] /\ score[c] \in Nat
  BY Entering, Steady DEF Queued, TypeOK
<1>3. CASE pc[d] = "adding"
  <2>1. score'[d] = score[d]
    BY <1>1, <1>3, Steady
  <2>2. CASE Queued(c)
    BY <1>2, <1>3, <2>1, <2>2 DEF Arrived
  <2>3. CASE Add(c)
    BY <1>2, <1>3, <2>1, <2>3 DEF Add, InOrder
  <2> QED
    BY <2>2, <2>3, Entering
<1>4. CASE Call(d)
  <2>1. score'[d] = now + MaxDuration
    BY <1>1, <1>4 DEF Call, TypeOK
  <2> QED
    BY <1>2, <2>1 DEF Called
<1> QED
  BY <1>1, <1>3, <1>4, Entering

LEMMA SeenStep ==
    TypeOK /\ Arrived /\ LiveEntryKept /\ Seen /\ [Next]_vars => Seen'
<1> SUFFICES ASSUME TypeOK, Arrived, LiveEntryKept, Seen, [Next]_vars,
                    NEW c \in Callers, NEW d \in Peers(c),
                    pc'[c] = "deciding", c \in view'[c],
                    Queued(d)', Live(d)', score'[d] < score'[c]
             PROVE  d \in view'[c]
  BY DEF Seen, Peers
<1>1. d \in Callers /\ c \in Peers(d) /\ c # d
  BY PeersOf
<1>2. Read(c) \/ (pc[c] = "deciding" /\ view'[c] = view[c])
  BY Entering
<1>3. pc[c] # "idle" /\ pc[d] # "idle"
  BY <1>1, <1>2, Entering DEF Read, Queued
<1>4. score[d] < score[c] /\ Live(d)
  BY <1>1, <1>3, Compared
<1>5. score[d] \in Nat /\ score[c] \in Nat
  BY <1>1 DEF TypeOK
<1>6. CASE Read(c)
  <2>1. pc[d] # "adding"
    BY <1>1, <1>4, <1>5, <1>6 DEF Read, InOrder
  <2>2. Queued(d)
    BY <1>1, <2>1, Entering
  <2>3. d \in queue
    BY <1>1, <1>4, <2>2 DEF LiveEntryKept
  <2>4. view'[c] = Front(c)
    BY <1>6 DEF Read, TypeOK
  <2> QED
    BY <1>4, <2>3, <2>4, FrontPrefix DEF Before
<1>7. CASE pc[c] = "deciding" /\ view'[c] = view[c]
  <2>1. pc[d] # "adding"
    <3>1. Queued(c)
      BY <1>7 DEF Queued
    <3> QED
      BY <1>4, <1>5, <3>1 DEF Arrived
  <2>2. Queued(d)
    BY <1>1, <2>1, Entering
  <2> QED
    BY <1>4, <1>7, <2>2 DEF Seen
<1> QED
  BY <1>2, <1>6, <1>7

LEMMA OldestStep ==
    TypeOK /\ Arrived /\ Seen /\ Oldest /\ [Next]_vars => Oldest'
<1> SUFFICES ASSUME TypeOK, Arrived, Seen, Oldest, [Next]_vars,
                    NEW c \in Callers, NEW d \in Peers(c),
                    pc'[c] \in {"cleaning", "running"}, Queued(d)', Live(d)'
             PROVE  score'[c] <= score'[d]
  BY DEF Oldest, Peers
<1>1. d \in Callers /\ c \in Peers(d) /\ c # d
  BY PeersOf
<1>2. Admit(c) \/ pc[c] \in {"cleaning", "running"}
  BY Entering
<1>3. pc[c] # "idle" /\ pc[d] # "idle" /\ Queued(c)
  BY <1>1, <1>2, Entering DEF Admit, Queued
<1>4. score'[c] = score[c] /\ score'[d] = score[d] /\ Live(d)
  BY <1>1, <1>3, Compared
<1>5. score[d] \in Nat /\ score[c] \in Nat /\ now \in Nat
  BY <1>1 DEF TypeOK
<1>6. CASE pc[d] = "adding"
  BY <1>3, <1>4, <1>6 DEF Arrived
<1>7. CASE Queued(d) /\ pc[c] \in {"cleaning", "running"}
  BY <1>4, <1>7 DEF Oldest
<1>8. CASE Queued(d) /\ Admit(c)
  <2>1. pc[c] = "deciding" /\ First(c)
    BY <1>8 DEF Admit
  <2>2. CASE score[d] < score[c]
    <3>1. d \in view[c]
      BY <1>4, <1>8, <2>1, <2>2 DEF Seen, First
    <3>2. d \notin Expired(c)
      BY <1>4, <1>5 DEF Expired, Live
    <3>3. Before(c, d)
      BY <1>1, <2>1, <3>1, <3>2 DEF First
    <3> QED
      BY <1>5, <2>2, <3>3 DEF Before
  <2>3. CASE ~(score[d] < score[c])
    BY <1>4, <1>5, <2>3
  <2> QED
    BY <2>2, <2>3
<1> QED
  BY <1>1, <1>2, <1>6, <1>7, <1>8, Entering

\* Two calls of one instance run together, with neither entry expired, only if
\* they were called in the same millisecond.
THEOREM PeersSafety == Spec => []PeersExclude
<1> DEFINE IInv == /\ TypeOK /\ Counted /\ Called /\ Chosen /\ LiveEntryKept
                   /\ Arrived /\ Seen /\ Oldest
<1>1. Init => IInv
  BY ConfigAssumption, DurationNat, PeersOf
     DEF Init, TypeOK, Counted, Called, Chosen, LiveEntryKept, Queued, PCs, Arrived,
         Seen, Oldest
<1>2. IInv /\ [Next]_vars => IInv'
  BY TypeStep, CalledStep, ChosenStep, KeptStep, ArrivedStep, SeenStep, OldestStep
<1>3. IInv => PeersExclude
  <2> SUFFICES ASSUME IInv, NEW c \in Callers, NEW d \in Peers(c),
                      RunsLive(c), RunsLive(d)
               PROVE  score[c] = score[d]
    BY DEF PeersExclude
  <2>1. d \in Callers /\ c \in Peers(d)
    BY PeersOf
  <2>2. score[c] <= score[d]
    BY <2>1 DEF Oldest, RunsLive, Queued
  <2>3. score[d] <= score[c]
    BY <2>1 DEF Oldest, RunsLive, Queued
  <2> QED
    BY <2>1, <2>2, <2>3 DEF TypeOK
<1> HIDE DEF IInv
<1> QED
  BY <1>1, <1>2, <1>3, PTL DEF Spec
=============================================================================
