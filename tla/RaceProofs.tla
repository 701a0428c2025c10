----------------------------- MODULE RaceProofs -----------------------------
(***************************************************************************)
(* Proofs about races of promises: about SafePromise, for any promises,    *)
(* races and contenders, which implements the races of Race, and about the *)
(* calls of a Hedge object, which are built on the races of Race, for any  *)
(* number of calls and any size of the pool.                               *)
(***************************************************************************)
EXTENDS SafePromise, Hedge, FiniteSetTheorems, SequenceTheorems,
        WellFoundedInduction, TLAPS

-----------------------------------------------------------------------------
(* The operators that the model is built from.                             *)

\* A nonempty set of numbers has a least member.
LEMMA LeastMember ==
    ASSUME NEW S, S \subseteq Nat, S # {}
    PROVE  Least(S) \in S /\ \A j \in S : Least(S) <= j
<1> DEFINE below == OpToRel(<, Nat)
<1>1. PICK i \in S : \A j \in S : ~ (<<j, i>> \in below)
  <2>1. IsWellFoundedOn(below, Nat)
    BY NatLessThanWellFounded
  <2> QED
    BY <2>1, WFMin
<1>2. \A j \in S : i <= j
  <2>1. ASSUME NEW j \in S, j < i
        PROVE  FALSE
    <3>1. <<j, i>> \in below
      BY <2>1 DEF OpToRel
    <3> QED
      BY <1>1, <3>1
  <2> QED
    BY <2>1
<1> QED
  BY <1>1, <1>2 DEF Least

\* SetToSeq lists the members of a finite set, each once.
LEMMA SetToSeqFacts ==
    ASSUME NEW S, IsFiniteSet(S)
    PROVE  /\ SetToSeq(S) \in Seq(S) /\ IsInjective(SetToSeq(S))
           /\ ToSet(SetToSeq(S)) = S
<1> DEFINE n == Cardinality(S)
<1>1. n \in Nat /\ ExistsBijection(1..n, S)
  BY FS_CardinalityType
<1>2. PICK f : f \in Bijection(1..n, S)
  BY <1>1 DEF ExistsBijection
<1>3. f \in [1..n -> S] /\ IsInjective(f)
  BY <1>2 DEF Bijection, Injection
<1>4. SetToSeq(S) \in [1..n -> S] /\ IsInjective(SetToSeq(S))
  BY <1>3 DEF SetToSeq
<1>5. SetToSeq(S) \in Seq(S)
  BY <1>1, <1>4, SeqDef
<1>6. SetToSeq(S) \in Surjection(1..n, S)
  <2>1. Cardinality(1..n) = n
    BY <1>1, FS_Interval
  <2>2. SetToSeq(S) \in Injection(1..n, S)
    BY <1>4 DEF Injection
  <2> QED
    BY <2>1, <2>2, FS_Injection
<1>7. ToSet(SetToSeq(S)) = S
  <2>1. /\ DOMAIN SetToSeq(S) = 1..n
        /\ \A i \in 1..n : SetToSeq(S)[i] \in S
    BY <1>4
  <2>2. \A x \in S : \E i \in 1..n : SetToSeq(S)[i] = x
    BY <1>6 DEF Surjection
  <2>3. ToSet(SetToSeq(S)) = {SetToSeq(S)[i] : i \in 1..n}
    BY <2>1 DEF ToSet
  <2> QED
    BY <2>1, <2>2, <2>3
<1> QED
  BY <1>4, <1>5, <1>7

\* Whatever is x precedes whatever is y in the sequence s.
Before(s, x, y) == \A i, k \in DOMAIN s : s[i] = x /\ s[k] = y => i < k

\* What taking the head away does to a sequence without duplicates.
LEMMA TailFacts ==
    ASSUME NEW S, NEW s \in Seq(S), s # <<>>, IsInjective(s)
    PROVE  /\ Tail(s) \in Seq(S) /\ IsInjective(Tail(s))
           /\ ToSet(Tail(s)) = ToSet(s) \ {Head(s)} /\ Head(s) \in ToSet(s)
           /\ \A x, y : Before(s, x, y) => Before(Tail(s), x, y)
<1> DEFINE n == Len(s)
<1>1. n \in Nat \ {0} /\ DOMAIN s = 1..n /\ Head(s) = s[1]
  BY EmptySeq, LenProperties
<1>2. /\ Tail(s) \in Seq(S) /\ Len(Tail(s)) = n - 1
      /\ \A i \in 1..(n - 1) : Tail(s)[i] = s[i + 1]
  BY HeadTailProperties
<1>3. DOMAIN Tail(s) = 1..(n - 1)
  BY <1>2, LenProperties
<1> HIDE DEF n
<1>4. \A i \in 1..(n - 1) : i + 1 \in 1..n /\ i + 1 # 1
  BY <1>1
<1>5. IsInjective(Tail(s))
  BY <1>1, <1>2, <1>3, <1>4 DEF IsInjective
<1>6. ToSet(Tail(s)) = ToSet(s) \ {Head(s)}
  <2>1. \A i \in 1..n : i # 1 => i - 1 \in 1..(n - 1) /\ s[i] = Tail(s)[i - 1]
    BY <1>1, <1>2
  <2>2. \A i \in 1..n : s[i] = s[1] => i = 1
    BY <1>1 DEF IsInjective
  <2>3. \A i \in 1..(n - 1) : Tail(s)[i] \in ToSet(s) \ {s[1]}
    BY <1>1, <1>2, <1>4, <2>2 DEF ToSet
  <2>4. \A x \in ToSet(s) \ {s[1]} : \E i \in 1..(n - 1) : Tail(s)[i] = x
    BY <1>1, <2>1 DEF ToSet
  <2>5. ToSet(Tail(s)) = {Tail(s)[i] : i \in 1..(n - 1)}
    BY <1>3 DEF ToSet
  <2> QED
    BY <1>1, <2>3, <2>4, <2>5
<1>7. ASSUME NEW x, NEW y, Before(s, x, y)
      PROVE  Before(Tail(s), x, y)
  <2>1. SUFFICES ASSUME NEW i \in 1..(n - 1), NEW k \in 1..(n - 1),
                        Tail(s)[i] = x, Tail(s)[k] = y
                 PROVE  i < k
    BY <1>3 DEF Before
  <2>2. s[i + 1] = x /\ s[k + 1] = y
    BY <1>2, <2>1
  <2>3. i + 1 < k + 1
    BY <1>1, <1>4, <1>7, <2>2 DEF Before
  <2> QED
    BY <1>1, <2>3
<1>8. Head(s) \in ToSet(s)
  BY <1>1 DEF ToSet
<1> QED
  BY <1>2, <1>5, <1>6, <1>7, <1>8

\* What joining two sequences without a common member does.
LEMMA ConcatFacts ==
    ASSUME NEW S, NEW s \in Seq(S), NEW t \in Seq(S), IsInjective(s), IsInjective(t),
           ToSet(s) \cap ToSet(t) = {}
    PROVE  /\ s \o t \in Seq(S) /\ IsInjective(s \o t)
           /\ ToSet(s \o t) = ToSet(s) \cup ToSet(t)
           /\ \A x, y : Before(s, x, y) /\ x \notin ToSet(t) => Before(s \o t, x, y)
<1> DEFINE m == Len(s)
           n == Len(t)
           u == s \o t
<1>1. m \in Nat /\ n \in Nat /\ DOMAIN s = 1..m /\ DOMAIN t = 1..n
  BY LenProperties
<1>2. /\ u \in Seq(S) /\ Len(u) = m + n
      /\ \A i \in 1..(m + n) : u[i] = IF i <= m THEN s[i] ELSE t[i - m]
  BY ConcatProperties
<1>3. DOMAIN u = 1..(m + n)
  BY <1>2, LenProperties
<1> HIDE DEF m, n, u
<1>4. ASSUME NEW i \in 1..(m + n)
      PROVE  \/ i \in 1..m /\ u[i] = s[i] /\ u[i] \in ToSet(s)
             \/ i > m /\ i - m \in 1..n /\ u[i] = t[i - m] /\ u[i] \in ToSet(t)
  <2>1. CASE i <= m
    BY <1>1, <1>2, <2>1 DEF ToSet
  <2>2. CASE i > m
    <3>1. i - m \in 1..n /\ u[i] = t[i - m]
      BY <1>1, <1>2, <2>2
    <3> QED
      BY <1>1, <2>2, <3>1 DEF ToSet
  <2> QED
    BY <1>1, <2>1, <2>2
<1>5. IsInjective(u)
  <2>1. SUFFICES ASSUME NEW i \in 1..(m + n), NEW k \in 1..(m + n), u[i] = u[k]
                 PROVE  i = k
    BY <1>3 DEF IsInjective
  <2>2. CASE i \in 1..m
    BY <1>1, <1>4, <2>1, <2>2 DEF IsInjective
  <2>3. CASE i > m
    <3>1. i - m = k - m
      BY <1>1, <1>4, <2>1, <2>3 DEF IsInjective
    <3> QED
      BY <1>1, <3>1
  <2> QED
    BY <1>4, <2>2, <2>3
<1>6. ToSet(u) = ToSet(s) \cup ToSet(t)
  <2>1. \A i \in 1..m : i \in 1..(m + n) /\ u[i] = s[i]
    BY <1>1, <1>2
  <2>2. \A i \in 1..n : i + m \in 1..(m + n) /\ u[i + m] = t[i]
    BY <1>1, <1>2
  <2>3. \A x \in ToSet(s) \cup ToSet(t) : \E i \in 1..(m + n) : u[i] = x
    BY <1>1, <2>1, <2>2 DEF ToSet
  <2>4. \A i \in 1..(m + n) : u[i] \in ToSet(s) \cup ToSet(t)
    BY <1>4
  <2>5. ToSet(u) = {u[i] : i \in 1..(m + n)}
    BY <1>3 DEF ToSet
  <2> QED
    BY <2>3, <2>4, <2>5
<1>7. ASSUME NEW x, NEW y, Before(s, x, y), x \notin ToSet(t)
      PROVE  Before(u, x, y)
  <2>1. SUFFICES ASSUME NEW i \in 1..(m + n), NEW k \in 1..(m + n), u[i] = x, u[k] = y
                 PROVE  i < k
    BY <1>3 DEF Before
  <2>2. i \in 1..m /\ s[i] = x
    BY <1>4, <1>7, <2>1
  <2>3. CASE k \in 1..m
    BY <1>1, <1>4, <1>7, <2>1, <2>2, <2>3 DEF Before
  <2>4. CASE k > m
    BY <1>1, <2>2, <2>4
  <2> QED
    BY <1>4, <2>3, <2>4
<1> QED
  BY <1>2, <1>5, <1>6, <1>7 DEF u

\* The sequence of one member.
LEMMA OneFacts ==
    ASSUME NEW S, NEW e \in S
    PROVE  <<e>> \in Seq(S) /\ IsInjective(<<e>>) /\ ToSet(<<e>>) = {e}
BY DEF IsInjective, ToSet

LEMMA AppendFacts ==
    ASSUME NEW S, NEW s \in Seq(S), IsInjective(s), NEW e \in S, e \notin ToSet(s)
    PROVE  /\ Append(s, e) \in Seq(S) /\ IsInjective(Append(s, e))
           /\ ToSet(Append(s, e)) = ToSet(s) \cup {e}
           /\ \A x, y : Before(s, x, y) /\ x # e => Before(Append(s, e), x, y)
<1>1. Append(s, e) = s \o <<e>>
  BY AppendIsConcat
<1>2. <<e>> \in Seq(S) /\ IsInjective(<<e>>) /\ ToSet(<<e>>) = {e}
  BY OneFacts
<1>3. ToSet(s) \cap ToSet(<<e>>) = {}
  BY <1>2
<1>4. /\ s \o <<e>> \in Seq(S) /\ IsInjective(s \o <<e>>)
      /\ ToSet(s \o <<e>>) = ToSet(s) \cup ToSet(<<e>>)
      /\ \A x, y : Before(s, x, y) /\ x \notin ToSet(<<e>>) => Before(s \o <<e>>, x, y)
  BY <1>2, <1>3, ConcatFacts
<1> QED
  BY <1>1, <1>2, <1>4

-----------------------------------------------------------------------------
(* SafePromise: the inductive invariant.                                   *)

AllJobs == {Notice(p) : p \in Promises} \cup {Checked(r) : r \in Races}
           \cup {Resumed(r) : r \in Races}

Queued(j) == j \in ToSet(jobs)

RaceTypes ==
    /\ settled \subseteq Promises /\ cancelled \subseteq Promises
    /\ record \in [Promises -> {"none", "pending", "settled"}]
    /\ races \in [Promises -> SUBSET Races]
    /\ jobs \in Seq(AllJobs) /\ IsInjective(jobs)
    /\ pc \in [Races -> {"idle", "alone", "checking", "waiting", "done"}]
    /\ at \in [Races -> Nat]
    /\ result \in [Races -> SUBSET Promises] /\ winner \in [Races -> SUBSET Promises]
    /\ before \in [Races -> SUBSET Promises]
    /\ IsFiniteSet({r \in Races : pc[r] # "idle"})

\* A job is in the queue if and only if its turn is to come.
JobsDue ==
    /\ \A p \in Promises : Queued(Notice(p)) <=> record[p] = "pending" /\ p \in settled
    /\ \A r \in Races : Queued(Checked(r)) <=> pc[r] = "checking"
    /\ \A r \in Races : Queued(Resumed(r)) <=> pc[r] = "waiting" /\ result[r] # {}

\* What is known to be settled is, and a pass has given a record to what it has seen.
Recorded ==
    /\ \A p \in Promises : record[p] = "settled" => p \in settled
    /\ \A r \in Races : at[r] \in 0..Len(Raceables[r])
    /\ \A r \in Races : pc[r] = "checking" =>
          /\ at[r] \in Places(r)
          /\ \A j \in 1..at[r] : record[Raceables[r][j]] # "none"

\* A race has the result of one contender, once it is linked.
Results ==
    \A r \in Races :
        /\ pc[r] \in {"idle", "alone", "checking"} => result[r] = {}
        /\ pc[r] # "done" => winner[r] = {}
        /\ pc[r] = "alone" => Len(Raceables[r]) <= 1
        /\ winner[r] \subseteq Contenders[r]
        /\ \/ result[r] = {}
           \/ \E p \in Contenders[r] \cap (settled \cup cancelled) : result[r] = {p}

LinksLive ==
    \A p \in Promises : \A r \in races[p] :
        pc[r] = "waiting" /\ record[p] = "pending" /\ p \in Contenders[r]

RaceInv == RaceTypes /\ JobsDue /\ Recorded /\ Results /\ LinksLive

\* A race that was linked before its contenders settled, and has no result yet.
Linked(r) == pc[r] \in {"waiting", "done"} /\ before[r] \cap Contenders[r] = {}
Open(r) == pc[r] = "waiting" /\ before[r] \cap Contenders[r] = {} /\ result[r] = {}

\* order lists what has settled.
Ordered == order \in Seq(Promises) /\ IsInjective(order) /\ ToSet(order) = settled

\* An open race is in the records of its contenders, which give notice in the order
\* in which they settled.
InOrder(r) ==
    Open(r) =>
        /\ \A p \in Contenders[r] : r \in races[p]
        /\ \A p, q \in Contenders[r] \cap settled :
              Place(p) < Place(q) => Before(jobs, Notice(p), Notice(q))

\* The result of a race that was linked in time is the first of its contenders.
FirstOf(r) ==
    Linked(r) =>
        /\ \A p \in result[r] \ cancelled :
              p \in settled /\ \A q \in Contenders[r] \cap settled : Place(p) <= Place(q)
        /\ pc[r] = "done" /\ result[r] # {} => winner[r] = result[r]

OrderInv == Ordered /\ \A r \in Races : InOrder(r) /\ FirstOf(r)

LEMMA JobFacts ==
    /\ \A p \in Promises : Notice(p) \in AllJobs
    /\ \A r \in Races : Checked(r) \in AllJobs /\ Resumed(r) \in AllJobs
    /\ \A p, q : Notice(p) = Notice(q) => p = q
    /\ \A r, q : Checked(r) = Checked(q) => r = q
    /\ \A r, q : Resumed(r) = Resumed(q) => r = q
    /\ \A p, r : Notice(p) # Checked(r) /\ Notice(p) # Resumed(r)
    /\ \A r, q : Checked(r) # Resumed(q)
BY DEF AllJobs, Notice, Checked, Resumed

LEMMA ContenderFacts ==
    ASSUME NEW r \in Races
    PROVE  /\ Raceables[r] \in Seq(Promises) /\ Len(Raceables[r]) \in Nat
           /\ Places(r) = 1..Len(Raceables[r])
           /\ \A i \in Places(r) : Raceables[r][i] \in Contenders[r]
           /\ \A p \in Contenders[r] : \E i \in Places(r) : Raceables[r][i] = p
           /\ Contenders[r] \subseteq Promises
<1>1. Raceables[r] \in Seq(Promises) /\ Contenders[r] = ToSet(Raceables[r])
  BY RaceablesAssumption DEF Contenders
<1>2. Len(Raceables[r]) \in Nat /\ Places(r) = 1..Len(Raceables[r])
  BY <1>1, LenProperties DEF Places
<1>3. \A i \in Places(r) : Raceables[r][i] \in Promises
  BY <1>1, <1>2, ElementOfSeq
<1> QED
  BY <1>1, <1>2, <1>3 DEF ToSet, Places

LEMMA RaceInit == Init => RaceInv
<1> SUFFICES ASSUME Init
             PROVE  RaceInv
  OBVIOUS
<1>1. jobs = <<>> /\ jobs \in Seq(AllJobs) /\ IsInjective(jobs) /\ ToSet(jobs) = {}
  BY DEF Init, IsInjective, ToSet
<1>4. \A r \in Races : Len(Raceables[r]) \in Nat
  BY ContenderFacts
<1>2. {r \in Races : pc[r] # "idle"} = {}
  BY DEF Init
<1>3. RaceTypes
  BY <1>1, <1>2, FS_EmptySet DEF Init, RaceTypes
<1> QED
  BY <1>1, <1>3, <1>4 DEF Init, RaceInv, JobsDue, Recorded, Results, LinksLive, Queued

\* What is left of the queue when race r passes over its contenders from the i-th.
Rest(r, i, rest) ==
    /\ rest \in Seq(AllJobs) /\ IsInjective(rest)
    /\ ToSet(rest) = ToSet(jobs) \ {Checked(r)}
    /\ \A x, y : Before(jobs, x, y) => Before(rest, x, y)
    /\ pc[r] \in {"idle", "checking"}
    /\ i \in 1..(Len(Raceables[r]) + 1)
    /\ \A j \in 1..(i - 1) : record[Raceables[r][j]] # "none"

\* Races that are not idle any more are finitely many.
LEMMA StartedFinite ==
    ASSUME RaceTypes, NEW r \in Races, \A q \in Races \ {r} : pc'[q] = pc[q]
    PROVE  IsFiniteSet({q \in Races : pc'[q] # "idle"})
<1> DEFINE S == {q \in Races : pc[q] # "idle"} \cup {r}
<1>1. IsFiniteSet(S)
  BY FS_AddElement DEF RaceTypes
<1>2. {q \in Races : pc'[q] # "idle"} \in SUBSET S
  OBVIOUS
<1> QED
  BY <1>1, <1>2, FS_Subset

LEMMA FinishStep ==
    ASSUME RaceInv, NEW r \in Races, NEW i, NEW rest, Rest(r, i, rest),
           NEW p \in Contenders[r], Finish(r, {p}), jobs' = rest,
           UNCHANGED <<settled, record, races, at, result, cancelled, before>>
    PROVE  RaceInv'
<1>1. /\ winner' = [winner EXCEPT ![r] = {p}] /\ pc' = [pc EXCEPT ![r] = "done"]
      /\ p \in Promises /\ pc[r] \in {"idle", "checking"}
  BY ContenderFacts DEF Finish, Rest
<1>2. IsFiniteSet({q \in Races : pc'[q] # "idle"})
  BY <1>1, StartedFinite DEF RaceInv, RaceTypes
<1>3. RaceTypes'
  BY <1>1, <1>2 DEF RaceInv, RaceTypes, Rest
<1>4. \A j : Queued(j)' <=> Queued(j) /\ j # Checked(r)
  BY DEF Queued, Rest
<1>5. JobsDue'
  BY <1>1, <1>4, JobFacts DEF RaceInv, RaceTypes, JobsDue
<1>6. Recorded'
  BY <1>1 DEF RaceInv, RaceTypes, Recorded
<1>7. Results'
  BY <1>1 DEF RaceInv, RaceTypes, Results
<1>8. LinksLive'
  BY <1>1 DEF RaceInv, RaceTypes, LinksLive
<1> QED
  BY <1>3, <1>5, <1>6, <1>7, <1>8 DEF RaceInv

LEMMA RegisterStep ==
    ASSUME RaceInv, NEW r \in Races, NEW i, NEW rest, Rest(r, i, rest),
           NEW k \in Places(r), record[Raceables[r][k]] = "none",
           \A j \in 1..(k - 1) : record[Raceables[r][j]] # "none",
           Register(r, k, rest), UNCHANGED <<settled, cancelled>>
    PROVE  /\ RaceInv'
           /\ \A x, y : Before(rest, x, y) /\ x # Notice(Raceables[r][k]) /\ x # Checked(r)
                           => Before(jobs', x, y)
<1> DEFINE c == Raceables[r][k]
           told == IF c \in settled THEN <<Notice(c)>> ELSE <<>>
           new == IF c \in settled THEN {Notice(c)} ELSE {}
<1>1. /\ record' = [record EXCEPT ![c] = "pending"] /\ jobs' = rest \o told \o <<Checked(r)>>
      /\ pc' = [pc EXCEPT ![r] = "checking"] /\ at' = [at EXCEPT ![r] = k]
      /\ UNCHANGED <<races, result, winner, before>>
  BY DEF Register
<1>2. c \in Contenders[r] /\ c \in Promises /\ k \in Nat
  BY ContenderFacts
<1>3. told \in Seq(AllJobs) /\ IsInjective(told) /\ ToSet(told) = new
  <2>1. CASE c \in settled
    BY <1>2, <2>1, JobFacts, OneFacts
  <2>2. CASE c \notin settled
    BY <2>2 DEF IsInjective, ToSet
  <2> QED
    BY <2>1, <2>2
<1>4. ~ Queued(Notice(c))
  BY <1>2 DEF RaceInv, JobsDue
<1> HIDE DEF c, told
<1>5. ToSet(rest) \cap ToSet(told) = {}
  BY <1>3, <1>4 DEF Rest, Queued
<1>6. /\ rest \o told \in Seq(AllJobs) /\ IsInjective(rest \o told)
      /\ ToSet(rest \o told) = ToSet(rest) \cup new
      /\ \A x, y : Before(rest, x, y) /\ x # Notice(c) => Before(rest \o told, x, y)
  BY <1>3, <1>5, ConcatFacts DEF Rest
<1>7. /\ <<Checked(r)>> \in Seq(AllJobs) /\ IsInjective(<<Checked(r)>>)
      /\ ToSet(<<Checked(r)>>) = {Checked(r)}
  BY JobFacts, OneFacts
<1>8. ToSet(rest \o told) \cap ToSet(<<Checked(r)>>) = {}
  BY <1>6, <1>7, JobFacts DEF Rest
<1>9. /\ jobs' \in Seq(AllJobs) /\ IsInjective(jobs')
      /\ ToSet(jobs') = ToSet(rest \o told) \cup {Checked(r)}
      /\ \A x, y : Before(rest \o told, x, y) /\ x # Checked(r) => Before(jobs', x, y)
  <2> DEFINE s == rest \o told
             t == <<Checked(r)>>
  <2>1. /\ s \in Seq(AllJobs) /\ IsInjective(s) /\ t \in Seq(AllJobs) /\ IsInjective(t)
        /\ ToSet(s) \cap ToSet(t) = {} /\ ToSet(t) = {Checked(r)} /\ jobs' = s \o t
    BY <1>1, <1>6, <1>7, <1>8
  <2> HIDE DEF s, t
  <2>2. /\ s \o t \in Seq(AllJobs) /\ IsInjective(s \o t)
        /\ ToSet(s \o t) = ToSet(s) \cup ToSet(t)
        /\ \A x, y : Before(s, x, y) /\ x \notin ToSet(t) => Before(s \o t, x, y)
    BY <2>1, ConcatFacts
  <2> QED
    BY <2>1, <2>2 DEF s
<1>10. \A j : Queued(j)' <=> Queued(j) \/ j \in new \/ j = Checked(r)
  BY <1>6, <1>9 DEF Queued, Rest
<1>11. IsFiniteSet({q \in Races : pc'[q] # "idle"})
  BY <1>1, StartedFinite DEF RaceInv, RaceTypes
<1>12. RaceTypes'
  BY <1>1, <1>2, <1>9, <1>11 DEF RaceInv, RaceTypes
<1>13. pc[r] \in {"idle", "checking"} /\ record[c] = "none"
  BY DEF Rest, c
<1>14. JobsDue'
  <2>1. \A p \in Promises : Queued(Notice(p))' <=> record'[p] = "pending" /\ p \in settled'
    BY <1>1, <1>2, <1>10, <1>13, JobFacts DEF RaceInv, RaceTypes, JobsDue
  <2>2. \A q \in Races : Queued(Checked(q))' <=> pc'[q] = "checking"
    BY <1>1, <1>10, JobFacts DEF RaceInv, RaceTypes, JobsDue
  <2>3. \A q \in Races : Queued(Resumed(q))' <=> pc'[q] = "waiting" /\ result'[q] # {}
    BY <1>1, <1>10, <1>13, JobFacts DEF RaceInv, RaceTypes, JobsDue
  <2> QED
    BY <2>1, <2>2, <2>3 DEF JobsDue
<1>15. Recorded'
  <2>1. \A p \in Promises : record[p] # "none" => record'[p] # "none"
    BY <1>1 DEF RaceInv, RaceTypes
  <2>2. \A j \in 1..k : j \in Places(r) /\ Raceables[r][j] \in Promises
    BY <1>2, ContenderFacts
  <2>3. \A j \in 1..k : record'[Raceables[r][j]] # "none"
    BY <1>1, <1>2, <2>1, <2>2 DEF RaceInv, RaceTypes, c
  <2>4. ASSUME NEW q \in Races \ {r}, pc'[q] = "checking"
        PROVE  at'[q] \in Places(q) /\ \A j \in 1..at'[q] : record'[Raceables[q][j]] # "none"
    <3>1. at'[q] = at[q] /\ pc[q] = "checking"
      BY <1>1, <2>4 DEF RaceInv, RaceTypes
    <3>2. at[q] \in Places(q) /\ \A j \in 1..at[q] : record[Raceables[q][j]] # "none"
      BY <3>1 DEF RaceInv, Recorded
    <3>3. \A j \in 1..at[q] : Raceables[q][j] \in Promises
      BY <3>2, ContenderFacts
    <3> QED
      BY <2>1, <3>1, <3>2, <3>3
  <2>5. \A p \in Promises : record'[p] = "settled" => p \in settled'
    BY <1>1 DEF RaceInv, RaceTypes, Recorded
  <2>6. at'[r] = k
    BY <1>1 DEF RaceInv, RaceTypes
  <2>7. \A q \in Races : at'[q] \in 0..Len(Raceables[q])
    BY <1>1, <2>2, ContenderFacts DEF RaceInv, RaceTypes, Recorded
  <2> QED
    BY <2>3, <2>4, <2>5, <2>6, <2>7 DEF Recorded
<1>16. Results'
  BY <1>1, <1>13 DEF RaceInv, RaceTypes, Results
<1>17. LinksLive'
  BY <1>1, <1>13 DEF RaceInv, RaceTypes, LinksLive
<1>18. RaceInv'
  BY <1>12, <1>14, <1>15, <1>16, <1>17 DEF RaceInv
<1> QED
  BY <1>6, <1>9, <1>18 DEF c

\* The job of race r joins what is left of the queue.
LEMMA QueueResumed ==
    ASSUME RaceInv, NEW r \in Races, NEW i, NEW rest, Rest(r, i, rest),
           jobs' = Append(rest, Resumed(r))
    PROVE  /\ jobs' \in Seq(AllJobs) /\ IsInjective(jobs')
           /\ \A j : Queued(j)' <=> (Queued(j) /\ j # Checked(r)) \/ j = Resumed(r)
           /\ \A x, y : Before(rest, x, y) /\ x # Resumed(r) => Before(jobs', x, y)
<1>1. Resumed(r) \in AllJobs /\ Resumed(r) \notin ToSet(rest)
  BY JobFacts DEF Rest, RaceInv, JobsDue, Queued
<1>2. /\ Append(rest, Resumed(r)) \in Seq(AllJobs) /\ IsInjective(Append(rest, Resumed(r)))
      /\ ToSet(Append(rest, Resumed(r))) = ToSet(rest) \cup {Resumed(r)}
      /\ \A x, y : Before(rest, x, y) /\ x # Resumed(r) => Before(Append(rest, Resumed(r)), x, y)
  BY <1>1, AppendFacts DEF Rest
<1> QED
  BY <1>2 DEF Queued, Rest

LEMMA LinkStep ==
    ASSUME RaceInv, NEW r \in Races, NEW i, NEW rest, Rest(r, i, rest),
           \A j \in Places(r) : record[Raceables[r][j]] # "none",
           Link(r, rest), UNCHANGED <<settled, cancelled>>
    PROVE  /\ RaceInv'
           /\ \A x, y : Before(rest, x, y) /\ x # Resumed(r) => Before(jobs', x, y)
           /\ \A p \in Promises : races[p] \subseteq races'[p]
           /\ pc'[r] = "waiting" /\ before'[r] = settled
           /\ result'[r] = {} =>
                 \A p \in Contenders[r] : r \in races'[p] /\ record[p] = "pending"
           /\ \A q \in Races \ {r} :
                 /\ pc'[q] = pc[q] /\ result'[q] = result[q] /\ before'[q] = before[q]
                 /\ winner'[q] = winner[q]
           /\ result'[r] \subseteq settled
<1> DEFINE now == {j \in Places(r) : record[Raceables[r][j]] = "settled"}
           upTo == IF now = {} THEN Len(Raceables[r]) ELSE Least(now) - 1
           linked == {Raceables[r][j] : j \in 1..upTo}
           s == Raceables[r][Least(now)]
<1>1. /\ races' = [p \in Promises |-> IF p \in linked THEN races[p] \cup {r} ELSE races[p]]
      /\ IF now = {} THEN jobs' = rest /\ UNCHANGED result
         ELSE result' = [result EXCEPT ![r] = {s}] /\ jobs' = Append(rest, Resumed(r))
      /\ pc' = [pc EXCEPT ![r] = "waiting"] /\ before' = [before EXCEPT ![r] = settled]
      /\ UNCHANGED <<record, at, winner>>
  BY DEF Link
<1>2. /\ Len(Raceables[r]) \in Nat /\ Places(r) = 1..Len(Raceables[r])
      /\ \A j \in Places(r) : Raceables[r][j] \in Contenders[r]
      /\ \A p \in Contenders[r] : \E j \in Places(r) : Raceables[r][j] = p
      /\ Contenders[r] \subseteq Promises
  BY ContenderFacts
<1>3. now \subseteq Nat /\ \A j \in now : j \in Places(r)
  BY <1>2
<1>4. now # {} => Least(now) \in now /\ \A j \in now : Least(now) <= j
  BY <1>3, LeastMember
<1>5. now # {} => s \in Contenders[r] /\ record[s] = "settled" /\ s \in settled
  BY <1>2, <1>4 DEF RaceInv, Recorded
<1>6. /\ upTo \in Nat /\ upTo <= Len(Raceables[r]) /\ now = {} => upTo = Len(Raceables[r])
      /\ \A j \in 1..upTo : j \in Places(r) /\ j \notin now
  <2>1. CASE now = {}
    BY <1>2, <2>1
  <2>2. CASE now # {}
    <3>1. Least(now) \in 1..Len(Raceables[r]) /\ upTo = Least(now) - 1
      BY <1>2, <1>3, <1>4, <2>2
    <3> HIDE DEF now, upTo
    <3>2. \A j \in 1..(Least(now) - 1) : j \notin now
      <4>1. \A j \in now : Least(now) <= j
        BY <1>4, <2>2
      <4> QED
        BY <1>2, <3>1, <4>1
    <3> QED
      BY <1>2, <2>2, <3>1, <3>2
  <2> QED
    BY <2>1, <2>2
<1>7. \A p \in linked : p \in Contenders[r] /\ record[p] = "pending"
  <2>1. \A j \in 1..upTo : /\ Raceables[r][j] \in Contenders[r]
                           /\ record[Raceables[r][j]] \notin {"none", "settled"}
    BY <1>2, <1>6
  <2>2. \A p \in Promises : record[p] \in {"none", "pending", "settled"}
    BY DEF RaceInv, RaceTypes
  <2> HIDE DEF upTo
  <2> QED
    BY <1>2, <2>1, <2>2
<1>8. now = {} => linked = Contenders[r]
  BY <1>2, <1>6
<1>9. /\ pc[r] \in {"idle", "checking"} /\ result[r] = {}
  BY DEF Rest, RaceInv, Results
<1> HIDE DEF now, upTo, linked, s
<1>10. /\ jobs' \in Seq(AllJobs) /\ IsInjective(jobs')
       /\ \A j : Queued(j)' <=> (Queued(j) /\ j # Checked(r)) \/ (now # {} /\ j = Resumed(r))
       /\ \A x, y : Before(rest, x, y) /\ x # Resumed(r) => Before(jobs', x, y)
  <2>1. CASE now = {}
    BY <1>1, <2>1 DEF Rest, Queued
  <2>2. CASE now # {}
    BY <1>1, <2>2, QueueResumed
  <2> QED
    BY <2>1, <2>2
<1>11. IsFiniteSet({q \in Races : pc'[q] # "idle"})
  BY <1>1, StartedFinite DEF RaceInv, RaceTypes
<1>12. /\ result' \in [Races -> SUBSET Promises] /\ result'[r] = IF now = {} THEN {} ELSE {s}
       /\ \A q \in Races \ {r} : result'[q] = result[q]
  <2>1. result \in [Races -> SUBSET Promises]
    BY DEF RaceInv, RaceTypes
  <2>2. CASE now = {}
    BY <1>1, <1>9, <2>1, <2>2
  <2>3. CASE now # {}
    <3>1. {s} \in SUBSET Promises
      BY <1>2, <1>5, <2>3
    <3>2. result' = [result EXCEPT ![r] = {s}]
      BY <1>1, <2>3
    <3> QED
      BY <2>1, <2>3, <3>1, <3>2
  <2> QED
    BY <2>2, <2>3
<1>13. /\ races' \in [Promises -> SUBSET Races] /\ \A p \in Promises : races[p] \subseteq races'[p]
       /\ \A p \in Promises : \A q \in races'[p] : q \in races[p] \/ (q = r /\ p \in linked)
       /\ \A p \in linked : p \in Promises => r \in races'[p]
  BY <1>1 DEF RaceInv, RaceTypes
<1>14. RaceTypes'
  BY <1>1, <1>10, <1>11, <1>12, <1>13 DEF RaceInv, RaceTypes
<1>15. /\ pc'[r] = "waiting" /\ before'[r] = settled
       /\ \A q \in Races \ {r} : pc'[q] = pc[q] /\ before'[q] = before[q]
  BY <1>1 DEF RaceInv, RaceTypes
<1>16. JobsDue'
  <2>1. \A p \in Promises : Queued(Notice(p))' <=> record'[p] = "pending" /\ p \in settled'
    BY <1>1, <1>10, JobFacts DEF RaceInv, JobsDue
  <2>2. \A q \in Races : Queued(Checked(q))' <=> pc'[q] = "checking"
    BY <1>10, <1>15, JobFacts DEF RaceInv, JobsDue
  <2>3. \A q \in Races : Queued(Resumed(q))' <=> pc'[q] = "waiting" /\ result'[q] # {}
    BY <1>9, <1>10, <1>12, <1>15, JobFacts DEF RaceInv, JobsDue
  <2> QED
    BY <2>1, <2>2, <2>3 DEF JobsDue
<1>17. Recorded'
  BY <1>1, <1>15 DEF RaceInv, Recorded
<1>18. Results'
  BY <1>1, <1>5, <1>9, <1>12, <1>15 DEF RaceInv, Results
<1>19. LinksLive'
  BY <1>1, <1>7, <1>9, <1>13, <1>15 DEF RaceInv, LinksLive
<1>20. RaceInv'
  BY <1>14, <1>16, <1>17, <1>18, <1>19 DEF RaceInv
<1>21. result'[r] = {} => \A p \in Contenders[r] : r \in races'[p] /\ record[p] = "pending"
  BY <1>2, <1>7, <1>8, <1>12, <1>13
<1>22. result'[r] \subseteq settled
  BY <1>5, <1>12
<1> QED
  BY <1>1, <1>10, <1>12, <1>13, <1>15, <1>20, <1>21, <1>22

\* What leaves a race in the records of its contenders, and their notices in order.
LEMMA InOrderKept ==
    ASSUME RaceInv, OrderInv, NEW q \in Races, UNCHANGED <<settled, order>>,
           Open(q)' => Open(q),
           Open(q)' => \A p \in Contenders[q] : q \in races[p] => q \in races'[p],
           Open(q)' => \A x, y \in Contenders[q] :
                          record[x] = "pending" /\ Before(jobs, Notice(x), Notice(y))
                             => Before(jobs', Notice(x), Notice(y))
    PROVE  InOrder(q)'
<1> SUFFICES ASSUME Open(q)'
             PROVE  /\ \A p \in Contenders[q] : q \in races'[p]
                    /\ \A x, y \in Contenders[q] \cap settled :
                          Place(x)' < Place(y)' => Before(jobs', Notice(x), Notice(y))
  BY DEF InOrder
<1>1. /\ \A p \in Contenders[q] : q \in races[p]
      /\ \A x, y \in Contenders[q] \cap settled :
            Place(x) < Place(y) => Before(jobs, Notice(x), Notice(y))
  BY DEF OrderInv, InOrder
<1>2. \A p \in Contenders[q] : record[p] = "pending"
  BY <1>1, ContenderFacts DEF RaceInv, LinksLive
<1>3. \A x : Place(x)' = Place(x)
  BY DEF Place
<1> QED
  BY <1>1, <1>2, <1>3

\* What leaves a race the result it has.
LEMMA FirstKept ==
    ASSUME OrderInv, NEW q \in Races, UNCHANGED <<settled, order>>,
           cancelled \subseteq cancelled',
           \/ result'[q] = {}
           \/ Linked(q) /\ result'[q] = result[q]
              /\ (pc'[q] = "done" => winner'[q] = result'[q])
           \/ ~ Linked(q)'
    PROVE  FirstOf(q)'
<1>1. \A x : Place(x)' = Place(x)
  BY DEF Place
<1> QED
  BY <1>1 DEF OrderInv, FirstOf

LEMMA PassStep ==
    ASSUME RaceInv, OrderInv, NEW r \in Races, NEW i, NEW rest, Rest(r, i, rest),
           Pass(r, i, rest), UNCHANGED <<settled, cancelled, order>>
    PROVE  RaceInv' /\ OrderInv'
<1> DEFINE stops == {j \in Places(r) : j >= i /\ record[Raceables[r][j]] # "pending"}
           k == Least(stops)
<1>1. /\ Len(Raceables[r]) \in Nat /\ Places(r) = 1..Len(Raceables[r])
      /\ \A j \in Places(r) : Raceables[r][j] \in Contenders[r]
      /\ Contenders[r] \subseteq Promises
  BY ContenderFacts
<1>2. i \in 1..(Len(Raceables[r]) + 1) /\ \A j \in 1..(i - 1) : record[Raceables[r][j]] # "none"
  BY DEF Rest
<1>3. stops \subseteq Nat
  BY <1>1
<1>4. stops # {} => k \in stops /\ \A j \in stops : k <= j
  BY <1>3, LeastMember
<1>5. \A q \in Races \ {r} :
         pc'[q] = pc[q] /\ result'[q] = result[q] /\ before'[q] = before[q]
            => (Open(q)' <=> Open(q)) /\ (Linked(q)' <=> Linked(q))
  BY DEF Open, Linked
<1>6. Ordered'
  BY DEF OrderInv, Ordered
<1>7. pc[r] \in {"idle", "checking"} /\ result[r] = {}
  BY DEF Rest, RaceInv, Results
<1>8. \A x, y : Before(jobs, x, y) => Before(rest, x, y)
  BY DEF Rest
<1>9. CASE stops = {}
  <2>1. \A j \in Places(r) : record[Raceables[r][j]] # "none"
    BY <1>1, <1>2, <1>9
  <2>2. Link(r, rest)
    BY <1>9 DEF Pass
  <2>3. /\ RaceInv'
        /\ \A x, y : Before(rest, x, y) /\ x # Resumed(r) => Before(jobs', x, y)
        /\ \A p \in Promises : races[p] \subseteq races'[p]
        /\ pc'[r] = "waiting" /\ before'[r] = settled
        /\ result'[r] = {} => \A p \in Contenders[r] : r \in races'[p] /\ record[p] = "pending"
        /\ \A q \in Races \ {r} :
              /\ pc'[q] = pc[q] /\ result'[q] = result[q] /\ before'[q] = before[q]
              /\ winner'[q] = winner[q]
        /\ result'[r] \subseteq settled
    BY <2>1, <2>2, LinkStep
  <2>4. ASSUME NEW q \in Races \ {r}
        PROVE  InOrder(q)' /\ FirstOf(q)'
    <3>1. Open(q)' <=> Open(q)
      BY <1>5, <2>3
    <3>2. Linked(q)' <=> Linked(q)
      BY <1>5, <2>3
    <3>3. \A p \in Contenders[q] : q \in races[p] => q \in races'[p]
      BY <2>3, ContenderFacts
    <3>4. \A x, y : Before(jobs, Notice(x), Notice(y)) => Before(jobs', Notice(x), Notice(y))
      BY <1>8, <2>3, JobFacts
    <3>5. InOrder(q)'
      BY <3>1, <3>3, <3>4, InOrderKept
    <3>6. FirstOf(q)'
      BY <2>3, <3>2, FirstKept DEF OrderInv, FirstOf
    <3> QED
      BY <3>5, <3>6
  <2>5. InOrder(r)'
    <3>1. SUFFICES ASSUME Open(r)'
                   PROVE  /\ \A p \in Contenders[r] : r \in races'[p]
                          /\ Contenders[r] \cap settled' = {}
      BY DEF InOrder
    <3> QED
      BY <2>3, <3>1 DEF Open
  <2>6. FirstOf(r)'
    BY <2>3 DEF FirstOf, Linked, RaceInv, Results
  <2> QED
    BY <1>6, <2>3, <2>4, <2>5, <2>6 DEF OrderInv
<1>10. CASE stops # {} /\ record[Raceables[r][k]] = "settled"
  <2>1. Raceables[r][k] \in Contenders[r]
    BY <1>1, <1>4, <1>10
  <2>2. /\ Finish(r, {Raceables[r][k]}) /\ jobs' = rest
        /\ UNCHANGED <<record, races, at, result, before>>
    BY <1>10 DEF Pass
  <2>3. RaceInv'
    BY <2>1, <2>2, FinishStep
  <2>4. /\ pc' = [pc EXCEPT ![r] = "done"] /\ winner' = [winner EXCEPT ![r] = {Raceables[r][k]}]
    BY <2>2 DEF Finish
  <2>5. /\ pc'[r] = "done"
        /\ \A q \in Races \ {r} : pc'[q] = pc[q] /\ winner'[q] = winner[q]
    BY <2>4 DEF RaceInv, RaceTypes
  <2>6. ASSUME NEW q \in Races
        PROVE  InOrder(q)' /\ FirstOf(q)'
    <3>1. Open(q)' => Open(q)
      BY <2>2, <2>5 DEF Open
    <3>2. InOrder(q)'
      BY <1>8, <2>2, <3>1, InOrderKept
    <3>3. ASSUME q = r
          PROVE  FirstOf(q)'
      <4>1. result'[q] = {}
        BY <1>7, <2>2, <3>3
      <4> QED
        BY <4>1, FirstKept
    <3>4. ASSUME q # r
          PROVE  FirstOf(q)'
      <4>1. Linked(q)' <=> Linked(q)
        BY <2>2, <2>5, <3>4 DEF Linked
      <4>2. Linked(q) /\ result[q] # {} /\ pc[q] = "done" => winner[q] = result[q]
        BY DEF OrderInv, FirstOf
      <4>3. \/ result'[q] = {} \/ ~ Linked(q)'
            \/ Linked(q) /\ result'[q] = result[q] /\ (pc'[q] = "done" => winner'[q] = result'[q])
        BY <2>2, <2>5, <3>4, <4>1, <4>2
      <4> QED
        BY <4>3, FirstKept
    <3> QED
      BY <3>2, <3>3, <3>4
  <2> QED
    BY <1>6, <2>3, <2>6 DEF OrderInv
<1>11. CASE stops # {} /\ record[Raceables[r][k]] # "settled"
  <2>1. k \in stops /\ Raceables[r][k] \in Promises
    BY <1>1, <1>4, <1>11
  <2>2. record[Raceables[r][k]] = "none"
    BY <1>11, <2>1 DEF RaceInv, RaceTypes
  <2>3. \A j \in 1..(k - 1) : record[Raceables[r][j]] # "none"
    <3>1. SUFFICES ASSUME NEW j \in 1..(k - 1), j >= i
                   PROVE  record[Raceables[r][j]] = "pending"
      BY <1>1, <1>2, <2>1
    <3>2. j \in Places(r)
      BY <1>1, <1>2, <2>1
    <3>3. j \notin stops
      <4> HIDE DEF stops, k
      <4>1. k \in Nat /\ \A l \in stops : k <= l
        BY <1>3, <1>4, <1>11, <2>1
      <4> QED
        BY <4>1
    <3> QED
      BY <3>1, <3>2, <3>3
  <2>4. Register(r, k, rest)
    BY <1>11 DEF Pass
  <2> HIDE DEF stops, k
  <2>5. /\ RaceInv'
        /\ \A x, y : Before(rest, x, y) /\ x # Notice(Raceables[r][k]) /\ x # Checked(r)
                        => Before(jobs', x, y)
    BY <2>1, <2>2, <2>3, <2>4, RegisterStep DEF stops
  <2>6. /\ pc'[r] = "checking" /\ \A q \in Races \ {r} : pc'[q] = pc[q]
        /\ UNCHANGED <<races, result, winner, before>>
    BY <2>4 DEF Register, RaceInv, RaceTypes
  <2>7. ASSUME NEW q \in Races
        PROVE  InOrder(q)' /\ FirstOf(q)'
    <3>1. Open(q)' => Open(q)
      BY <2>6 DEF Open
    <3>2. Linked(q)' <=> Linked(q) /\ q # r
      BY <1>7, <2>6 DEF Linked
    <3>3. \A x, y : record[x] = "pending" /\ Before(jobs, Notice(x), Notice(y))
                       => Before(jobs', Notice(x), Notice(y))
      BY <1>8, <2>2, <2>5, JobFacts
    <3>4. InOrder(q)'
      BY <2>6, <3>1, <3>3, InOrderKept
    <3>5. FirstOf(q)'
      BY <2>6, <3>2, FirstKept DEF OrderInv, FirstOf
    <3> QED
      BY <3>4, <3>5
  <2> QED
    BY <1>6, <2>5, <2>7 DEF OrderInv
<1> QED
  BY <1>9, <1>10, <1>11

\* The place of a member of a sequence without duplicates.
LEMMA PlaceFacts ==
    ASSUME NEW S, NEW s \in Seq(S), IsInjective(s), NEW p \in ToSet(s)
    PROVE  /\ Least({i \in DOMAIN s : s[i] = p}) \in 1..Len(s)
           /\ \A i \in 1..Len(s) : s[i] = p <=> Least({l \in DOMAIN s : s[l] = p}) = i
<1> DEFINE T == {i \in DOMAIN s : s[i] = p}
<1>1. DOMAIN s = 1..Len(s) /\ Len(s) \in Nat
  BY LenProperties
<1>2. T \subseteq Nat /\ T # {}
  BY <1>1 DEF ToSet
<1>3. Least(T) \in T
  BY <1>2, LeastMember
<1>4. \A i \in T : i = Least(T)
  BY <1>3 DEF IsInjective
<1> QED
  BY <1>1, <1>3, <1>4

\* What has settled keeps its place, before that of what settles now.
LEMMA PlaceAppend ==
    ASSUME Ordered, NEW p \in Promises \ settled,
           order' = Append(order, p), settled' = settled \cup {p}
    PROVE  /\ Ordered'
           /\ \A x \in settled : /\ Place(x)' = Place(x) /\ Place(x)' < Place(p)'
                                 /\ Place(x)' \in Nat
           /\ Place(p)' \in Nat
<1>1. order \in Seq(Promises) /\ IsInjective(order) /\ p \notin ToSet(order)
  BY DEF Ordered
<1>2. /\ order' \in Seq(Promises) /\ IsInjective(order')
      /\ ToSet(order') = ToSet(order) \cup {p}
  BY <1>1, AppendFacts
<1>3. /\ Len(order) \in Nat /\ Len(order') = Len(order) + 1
      /\ \A i \in 1..Len(order) : order'[i] = order[i]
      /\ order'[Len(order) + 1] = p
  BY <1>1, AppendProperties, LenProperties
<1>4. \A x \in settled' : /\ Place(x)' \in 1..Len(order')
                          /\ \A i \in 1..Len(order') : order'[i] = x <=> Place(x)' = i
  <2>1. ToSet(order') = settled'
    BY <1>2 DEF Ordered
  <2>2. \A x \in ToSet(order') :
           /\ Least({i \in DOMAIN order' : order'[i] = x}) \in 1..Len(order')
           /\ \A i \in 1..Len(order') :
                 order'[i] = x <=> Least({l \in DOMAIN order' : order'[l] = x}) = i
    <3> DEFINE s == order'
    <3>1. s \in Seq(Promises) /\ IsInjective(s)
      BY <1>2
    <3> HIDE DEF s
    <3>2. \A x \in ToSet(s) :
             /\ Least({i \in DOMAIN s : s[i] = x}) \in 1..Len(s)
             /\ \A i \in 1..Len(s) : s[i] = x <=> Least({l \in DOMAIN s : s[l] = x}) = i
      BY <3>1, PlaceFacts
    <3> QED
      BY <3>2 DEF s
  <2> QED
    BY <2>1, <2>2 DEF Place
<1>5. \A x \in settled : /\ Place(x) \in 1..Len(order)
                         /\ \A i \in 1..Len(order) : order[i] = x <=> Place(x) = i
  BY <1>1, PlaceFacts DEF Place, Ordered
<1>6. Place(p)' = Len(order) + 1
  BY <1>3, <1>4
<1>7. \A x \in settled : Place(x)' = Place(x)
  <2>1. SUFFICES ASSUME NEW x \in settled
                 PROVE  order'[Place(x)] = x /\ Place(x) \in 1..Len(order')
    BY <1>4
  <2> QED
    BY <1>3, <1>5
<1>8. \A x \in settled : Place(x)' \in Nat /\ Place(x)' < Place(p)'
  BY <1>3, <1>5, <1>6, <1>7
<1> QED
  BY <1>2, <1>3, <1>6, <1>7, <1>8 DEF Ordered

-----------------------------------------------------------------------------
(* SafePromise: every step keeps the invariant.                            *)

RaceAll == RaceInv /\ OrderInv

LEMMA StartStep == ASSUME RaceAll, NEW r \in Races, Start(r) PROVE RaceAll'
<1>1. pc[r] = "idle" /\ UNCHANGED <<settled, cancelled, order>> /\ Len(Raceables[r]) \in Nat
  BY ContenderFacts DEF Start
<1>2. CASE Len(Raceables[r]) > 1
  <2>1. ToSet(jobs) = ToSet(jobs) \ {Checked(r)}
    BY <1>1 DEF RaceAll, RaceInv, JobsDue, Queued
  <2>2. Rest(r, 1, jobs)
    BY <1>1, <2>1 DEF RaceAll, RaceInv, RaceTypes, Rest
  <2>3. Pass(r, 1, jobs)
    BY <1>2 DEF Start
  <2> QED
    BY <1>1, <2>2, <2>3, PassStep DEF RaceAll
<1>3. CASE ~ (Len(Raceables[r]) > 1)
  <2>1. /\ pc' = [pc EXCEPT ![r] = "alone"]
        /\ UNCHANGED <<record, races, jobs, at, result, winner, before>>
    BY <1>3 DEF Start
  <2>2. /\ pc'[r] = "alone" /\ \A q \in Races \ {r} : pc'[q] = pc[q]
        /\ pc' \in [Races -> {"idle", "alone", "checking", "waiting", "done"}]
    BY <2>1 DEF RaceAll, RaceInv, RaceTypes
  <2>3. RaceTypes'
    <3>1. IsFiniteSet({q \in Races : pc'[q] # "idle"})
      BY <2>2, StartedFinite DEF RaceAll, RaceInv
    <3> QED
      BY <1>1, <2>1, <2>2, <3>1 DEF RaceAll, RaceInv, RaceTypes
  <2>4. JobsDue'
    BY <1>1, <2>1, <2>2 DEF RaceAll, RaceInv, JobsDue, Queued
  <2>5. Recorded' /\ LinksLive'
    BY <1>1, <2>1, <2>2 DEF RaceAll, RaceInv, Recorded, LinksLive
  <2>6. Results'
    BY <1>1, <1>3, <2>1, <2>2 DEF RaceAll, RaceInv, Results
  <2>7. Ordered'
    BY <1>1 DEF RaceAll, OrderInv, Ordered
  <2>8. ASSUME NEW q \in Races
        PROVE  InOrder(q)' /\ FirstOf(q)'
    <3>1. (Open(q)' => Open(q)) /\ (Linked(q)' => Linked(q) /\ pc'[q] = pc[q])
      BY <2>1, <2>2 DEF Open, Linked
    <3>2. InOrder(q)'
      BY <1>1, <2>1, <3>1, InOrderKept DEF RaceAll
    <3>3. Linked(q) /\ result[q] # {} /\ pc[q] = "done" => winner[q] = result[q]
      BY DEF RaceAll, OrderInv, FirstOf
    <3>4. FirstOf(q)'
      BY <1>1, <2>1, <3>1, <3>3, FirstKept DEF RaceAll
    <3> QED
      BY <3>2, <3>4
  <2> QED
    BY <2>3, <2>4, <2>5, <2>6, <2>7, <2>8 DEF RaceAll, RaceInv, OrderInv
<1> QED
  BY <1>2, <1>3

\* What IsNext says of the queue.
LEMMA NextJob ==
    ASSUME RaceInv, NEW j, IsNext(j)
    PROVE  /\ Queued(j) /\ Tail(jobs) \in Seq(AllJobs) /\ IsInjective(Tail(jobs))
           /\ ToSet(Tail(jobs)) = ToSet(jobs) \ {j}
           /\ \A x, y : Before(jobs, x, y) => Before(Tail(jobs), x, y)
           /\ \A x : ~ Before(jobs, x, j) \/ ~ Queued(x)
<1>1. jobs \in Seq(AllJobs) /\ IsInjective(jobs) /\ jobs # <<>> /\ Head(jobs) = j
  BY DEF RaceInv, RaceTypes, IsNext
<1>2. /\ Tail(jobs) \in Seq(AllJobs) /\ IsInjective(Tail(jobs))
      /\ ToSet(Tail(jobs)) = ToSet(jobs) \ {j} /\ j \in ToSet(jobs)
      /\ \A x, y : Before(jobs, x, y) => Before(Tail(jobs), x, y)
  BY <1>1, TailFacts
<1>3. ASSUME NEW x, Before(jobs, x, j), Queued(x)
      PROVE  FALSE
  <2>1. PICK i \in DOMAIN jobs : jobs[i] = x
    BY <1>3 DEF Queued, ToSet
  <2>2. jobs[1] = j /\ DOMAIN jobs = 1..Len(jobs) /\ Len(jobs) \in Nat \ {0}
    BY <1>1, EmptySeq, LenProperties
  <2>3. i < 1
    BY <1>3, <2>1, <2>2 DEF Before
  <2> QED
    BY <2>1, <2>2, <2>3
<1> QED
  BY <1>2, <1>3 DEF Queued

LEMMA CheckStep == ASSUME RaceAll, NEW r \in Races, Check(r) PROVE RaceAll'
<1> DEFINE c == Raceables[r][at[r]]
<1>1. IsNext(Checked(r)) /\ UNCHANGED <<settled, cancelled, order>>
  BY DEF Check
<1>2. /\ Queued(Checked(r)) /\ Tail(jobs) \in Seq(AllJobs) /\ IsInjective(Tail(jobs))
      /\ ToSet(Tail(jobs)) = ToSet(jobs) \ {Checked(r)}
      /\ \A x, y : Before(jobs, x, y) => Before(Tail(jobs), x, y)
  BY <1>1, NextJob DEF RaceAll
<1>3. /\ pc[r] = "checking" /\ at[r] \in Places(r)
      /\ \A j \in 1..at[r] : record[Raceables[r][j]] # "none"
  BY <1>2 DEF RaceAll, RaceInv, JobsDue, Recorded
<1>4. /\ Places(r) = 1..Len(Raceables[r]) /\ Len(Raceables[r]) \in Nat
      /\ c \in Contenders[r] /\ Contenders[r] \subseteq Promises
  BY <1>3, ContenderFacts
<1>5. Rest(r, at[r] + 1, Tail(jobs))
  <2>1. at[r] + 1 \in 1..(Len(Raceables[r]) + 1) /\ (at[r] + 1) - 1 = at[r]
    BY <1>3, <1>4
  <2> QED
    BY <1>2, <1>3, <2>1 DEF Rest
<1>6. CASE record[c] = "settled"
  <2>1. /\ Finish(r, {c}) /\ jobs' = Tail(jobs)
        /\ UNCHANGED <<record, races, at, result, before>>
    BY <1>6 DEF Check
  <2>2. RaceInv'
    BY <1>1, <1>4, <1>5, <2>1, FinishStep DEF RaceAll
  <2>3. /\ pc'[r] = "done" /\ \A q \in Races \ {r} : pc'[q] = pc[q] /\ winner'[q] = winner[q]
    BY <2>1 DEF Finish, RaceAll, RaceInv, RaceTypes
  <2>4. result[r] = {}
    BY <1>3 DEF RaceAll, RaceInv, Results
  <2>5. Ordered'
    BY <1>1 DEF RaceAll, OrderInv, Ordered
  <2>6. ASSUME NEW q \in Races
        PROVE  InOrder(q)' /\ FirstOf(q)'
    <3>1. Open(q)' => Open(q)
      BY <2>1, <2>3 DEF Open
    <3>2. InOrder(q)'
      BY <1>1, <1>2, <2>1, <3>1, InOrderKept DEF RaceAll
    <3>3. Linked(q)' => Linked(q) \/ q = r
      BY <2>1, <2>3 DEF Linked
    <3>4. Linked(q) /\ result[q] # {} /\ pc[q] = "done" => winner[q] = result[q]
      BY DEF RaceAll, OrderInv, FirstOf
    <3>5. \/ result'[q] = {} \/ ~ Linked(q)'
          \/ Linked(q) /\ result'[q] = result[q] /\ (pc'[q] = "done" => winner'[q] = result'[q])
      BY <2>1, <2>3, <2>4, <3>3, <3>4
    <3>6. FirstOf(q)'
      BY <1>1, <3>5, FirstKept DEF RaceAll
    <3> QED
      BY <3>2, <3>6
  <2> QED
    BY <2>2, <2>5, <2>6 DEF RaceAll, OrderInv
<1>7. CASE record[c] # "settled"
  <2>1. Pass(r, at[r] + 1, Tail(jobs))
    BY <1>7 DEF Check
  <2> QED
    BY <1>1, <1>5, <2>1, PassStep DEF RaceAll
<1> QED
  BY <1>6, <1>7

LEMMA AloneStep == ASSUME RaceAll, NEW r \in Races, Alone(r) PROVE RaceAll'
<1>1. /\ pc[r] = "alone" /\ winner' = [winner EXCEPT ![r] = Contenders[r]]
      /\ pc' = [pc EXCEPT ![r] = "done"]
      /\ UNCHANGED <<settled, record, races, jobs, at, result, cancelled, order, before>>
  BY DEF Alone, Finish
<1>2. Contenders[r] \subseteq Promises /\ result[r] = {}
  BY <1>1, ContenderFacts DEF RaceAll, RaceInv, Results
<1>3. /\ pc'[r] = "done" /\ winner'[r] = Contenders[r]
      /\ \A q \in Races \ {r} : pc'[q] = pc[q] /\ winner'[q] = winner[q]
      /\ pc' \in [Races -> {"idle", "alone", "checking", "waiting", "done"}]
      /\ winner' \in [Races -> SUBSET Promises]
  BY <1>1, <1>2 DEF RaceAll, RaceInv, RaceTypes
<1>4. RaceTypes'
  <2>1. IsFiniteSet({q \in Races : pc'[q] # "idle"})
    BY <1>3, StartedFinite DEF RaceAll, RaceInv
  <2> QED
    BY <1>1, <1>3, <2>1 DEF RaceAll, RaceInv, RaceTypes
<1>5. JobsDue'
  BY <1>1, <1>3 DEF RaceAll, RaceInv, JobsDue, Queued
<1>6. Recorded' /\ LinksLive'
  BY <1>1, <1>3 DEF RaceAll, RaceInv, Recorded, LinksLive
<1>7. Results'
  BY <1>1, <1>3 DEF RaceAll, RaceInv, Results
<1>8. Ordered'
  BY <1>1 DEF RaceAll, OrderInv, Ordered
<1>9. ASSUME NEW q \in Races
      PROVE  InOrder(q)' /\ FirstOf(q)'
  <2>1. (Open(q)' => Open(q)) /\ (Linked(q)' => Linked(q) \/ q = r)
    BY <1>1, <1>3 DEF Open, Linked
  <2>2. InOrder(q)'
    BY <1>1, <2>1, InOrderKept DEF RaceAll
  <2>3. Linked(q) /\ result[q] # {} /\ pc[q] = "done" => winner[q] = result[q]
    BY DEF RaceAll, OrderInv, FirstOf
  <2>4. \/ result'[q] = {} \/ ~ Linked(q)'
        \/ Linked(q) /\ result'[q] = result[q] /\ (pc'[q] = "done" => winner'[q] = result'[q])
    BY <1>1, <1>2, <1>3, <2>1, <2>3
  <2>5. FirstOf(q)'
    BY <1>1, <2>4, FirstKept DEF RaceAll
  <2> QED
    BY <2>2, <2>5
<1> QED
  BY <1>4, <1>5, <1>6, <1>7, <1>8, <1>9 DEF RaceAll, RaceInv, OrderInv

LEMMA SettleStep == ASSUME RaceAll, NEW p \in Promises, Settle(p) PROVE RaceAll'
<1>1. /\ p \notin settled /\ settled' = settled \cup {p} /\ order' = Append(order, p)
      /\ jobs' = IF record[p] = "pending" THEN Append(jobs, Notice(p)) ELSE jobs
      /\ UNCHANGED <<record, races, pc, at, result, winner, cancelled, before>>
  BY DEF Settle
<1>2. Notice(p) \in AllJobs /\ ~ Queued(Notice(p))
  BY <1>1, JobFacts DEF RaceAll, RaceInv, JobsDue
<1>3. jobs \in Seq(AllJobs) /\ IsInjective(jobs)
  BY DEF RaceAll, RaceInv, RaceTypes
<1>4. /\ jobs' \in Seq(AllJobs) /\ IsInjective(jobs')
      /\ \A j : Queued(j)' <=> Queued(j) \/ (record[p] = "pending" /\ j = Notice(p))
      /\ \A x, y : Before(jobs, x, y) /\ x # Notice(p) => Before(jobs', x, y)
      /\ \A x : record[p] = "pending" /\ x # Notice(p) => Before(jobs', x, Notice(p))
  <2>1. CASE record[p] = "pending"
    <3>1. jobs' = Append(jobs, Notice(p)) /\ Notice(p) \notin ToSet(jobs)
      BY <1>1, <1>2, <2>1 DEF Queued
    <3>2. /\ jobs' \in Seq(AllJobs) /\ IsInjective(jobs')
          /\ ToSet(jobs') = ToSet(jobs) \cup {Notice(p)}
          /\ \A x, y : Before(jobs, x, y) /\ x # Notice(p) => Before(jobs', x, y)
      BY <1>2, <1>3, <3>1, AppendFacts
    <3>3. ASSUME NEW x, x # Notice(p)
          PROVE  Before(jobs', x, Notice(p))
      <4>1. /\ DOMAIN jobs' = 1..(Len(jobs) + 1) /\ Len(jobs) \in Nat
            /\ jobs'[Len(jobs) + 1] = Notice(p)
        BY <1>2, <1>3, <3>1, <3>2, AppendProperties, LenProperties
      <4>2. SUFFICES ASSUME NEW i \in DOMAIN jobs', NEW k \in DOMAIN jobs',
                            jobs'[i] = x, jobs'[k] = Notice(p)
                     PROVE  i < k
        BY DEF Before
      <4>3. k = Len(jobs) + 1 /\ i # k
        BY <3>2, <3>3, <4>1, <4>2 DEF IsInjective
      <4> QED
        BY <4>1, <4>2, <4>3
    <3> QED
      BY <2>1, <3>2, <3>3 DEF Queued
  <2>2. CASE record[p] # "pending"
    BY <1>1, <1>3, <2>2 DEF Queued
  <2> QED
    BY <2>1, <2>2
<1>5. /\ Ordered'
      /\ \A x \in settled : /\ Place(x)' = Place(x) /\ Place(x)' < Place(p)'
                            /\ Place(x)' \in Nat
      /\ Place(p)' \in Nat
  BY <1>1, PlaceAppend DEF RaceAll, OrderInv
<1>6. RaceTypes'
  BY <1>1, <1>4 DEF RaceAll, RaceInv, RaceTypes
<1>7. JobsDue'
  <2>1. \A q \in Promises : Queued(Notice(q))' <=> record'[q] = "pending" /\ q \in settled'
    BY <1>1, <1>4, JobFacts DEF RaceAll, RaceInv, JobsDue
  <2>2. \A q \in Races : (Queued(Checked(q))' <=> Queued(Checked(q)))
                         /\ (Queued(Resumed(q))' <=> Queued(Resumed(q)))
    BY <1>4, JobFacts
  <2> QED
    BY <1>1, <2>1, <2>2 DEF RaceAll, RaceInv, JobsDue
<1>8. Recorded' /\ LinksLive'
  BY <1>1 DEF RaceAll, RaceInv, Recorded, LinksLive
<1>9. Results'
  BY <1>1 DEF RaceAll, RaceInv, Results
<1>10. ASSUME NEW q \in Races
       PROVE  InOrder(q)' /\ FirstOf(q)'
  <2>1. (Open(q)' <=> Open(q)) /\ (Linked(q)' <=> Linked(q))
    BY <1>1 DEF Open, Linked
  <2>2. ASSUME Open(q)
        PROVE  \A x, y \in Contenders[q] \cap settled' :
                  Place(x)' < Place(y)' => Before(jobs', Notice(x), Notice(y))
    <3>1. /\ \A x \in Contenders[q] : q \in races[x]
          /\ \A x, y \in Contenders[q] \cap settled :
                Place(x) < Place(y) => Before(jobs, Notice(x), Notice(y))
      BY <2>2 DEF RaceAll, OrderInv, InOrder
    <3>2. p \in Contenders[q] => record[p] = "pending"
      BY <3>1 DEF RaceAll, RaceInv, LinksLive
    <3>3. SUFFICES ASSUME NEW x \in Contenders[q] \cap settled',
                          NEW y \in Contenders[q] \cap settled', Place(x)' < Place(y)'
                   PROVE  Before(jobs', Notice(x), Notice(y))
      OBVIOUS
    <3>4. x \in settled /\ x # p
      BY <1>1, <1>5, <3>3
    <3>5. Notice(x) # Notice(p)
      BY <3>4, JobFacts
    <3>6. CASE y = p
      BY <1>4, <3>2, <3>3, <3>5, <3>6
    <3>7. CASE y # p
      BY <1>1, <1>4, <1>5, <3>1, <3>3, <3>4, <3>5, <3>7
    <3> QED
      BY <3>6, <3>7
  <2>3. InOrder(q)'
    BY <1>1, <2>1, <2>2 DEF RaceAll, OrderInv, InOrder
  <2>4. ASSUME Linked(q), NEW x \in result[q] \ cancelled, NEW y \in Contenders[q] \cap settled'
        PROVE  x \in settled' /\ Place(x)' <= Place(y)'
    <3>1. x \in settled /\ \A z \in Contenders[q] \cap settled : Place(x) <= Place(z)
      BY <2>4 DEF RaceAll, OrderInv, FirstOf
    <3>2. CASE y = p
      BY <1>1, <1>5, <3>1, <3>2
    <3>3. CASE y # p
      BY <1>1, <1>5, <2>4, <3>1, <3>3
    <3> QED
      BY <3>2, <3>3
  <2>5. ASSUME Linked(q), NEW x \in result[q] \ cancelled
        PROVE  x \in settled'
    BY <1>1, <2>5 DEF RaceAll, OrderInv, FirstOf
  <2>6. FirstOf(q)'
    BY <1>1, <2>1, <2>4, <2>5 DEF RaceAll, OrderInv, FirstOf
  <2> QED
    BY <2>3, <2>6
<1> QED
  BY <1>5, <1>6, <1>7, <1>8, <1>9, <1>10 DEF RaceAll, RaceInv, OrderInv

\* What Deliver does to the queue and to the results.
LEMMA DeliverFacts ==
    ASSUME RaceInv, NEW p \in Promises, NEW rest \in Seq(AllJobs), IsInjective(rest),
           ToSet(rest) \subseteq ToSet(jobs), Deliver(races[p], p, rest)
    PROVE  /\ jobs' \in Seq(AllJobs) /\ IsInjective(jobs')
           /\ \A j : j \in ToSet(jobs') <=>
                 j \in ToSet(rest) \/ \E r \in races[p] : result[r] = {} /\ j = Resumed(r)
           /\ \A x, y : Before(rest, Notice(x), y) => Before(jobs', Notice(x), y)
           /\ result' \in [Races -> SUBSET Promises]
           /\ \A r \in Races : result'[r] = IF r \in races[p] /\ result[r] = {} THEN {p}
                                            ELSE result[r]
<1> DEFINE fresh == {r \in races[p] : result[r] = {}}
           calls == {Resumed(r) : r \in fresh}
           t == SetToSeq(calls)
<1>1. /\ result' = [r \in Races |-> IF r \in fresh THEN {p} ELSE result[r]]
      /\ jobs' = rest \o t
  BY DEF Deliver
<1>2. /\ races[p] \subseteq Races
      /\ \A r \in races[p] : pc[r] = "waiting"
      /\ IsFiniteSet({r \in Races : pc[r] # "idle"})
      /\ result \in [Races -> SUBSET Promises]
  BY DEF RaceInv, RaceTypes, LinksLive
<1>3. IsFiniteSet(fresh)
  <2>1. fresh \in SUBSET {r \in Races : pc[r] # "idle"}
    BY <1>2
  <2> QED
    BY <1>2, <2>1, FS_Subset
<1>4. IsFiniteSet(calls)
  <2>1. [r \in fresh |-> Resumed(r)] \in Surjection(fresh, calls)
    BY DEF Surjection
  <2> HIDE DEF fresh, calls
  <2> QED
    BY <1>3, <2>1, FS_Surjection
<1> HIDE DEF calls
<1>5. t \in Seq(calls) /\ IsInjective(t) /\ ToSet(t) = calls
  BY <1>4, SetToSeqFacts
<1>6. calls \subseteq AllJobs
  BY <1>2, JobFacts DEF calls
<1>7. t \in Seq(AllJobs)
  BY <1>5, <1>6, SeqDef
<1>8. ToSet(rest) \cap ToSet(t) = {}
  <2>1. \A r \in fresh : ~ Queued(Resumed(r))
    BY <1>2 DEF RaceInv, JobsDue
  <2> QED
    BY <1>5, <2>1 DEF calls, Queued
<1>9. \A x : Notice(x) \notin ToSet(t)
  BY <1>5, JobFacts DEF calls
<1> HIDE DEF t
<1>10. /\ rest \o t \in Seq(AllJobs) /\ IsInjective(rest \o t)
       /\ ToSet(rest \o t) = ToSet(rest) \cup ToSet(t)
       /\ \A x, y : Before(rest, x, y) /\ x \notin ToSet(t) => Before(rest \o t, x, y)
  BY <1>5, <1>7, <1>8, ConcatFacts
<1>11. \A j : j \in ToSet(jobs') <=>
          j \in ToSet(rest) \/ \E r \in races[p] : result[r] = {} /\ j = Resumed(r)
  BY <1>1, <1>5, <1>10 DEF calls
<1> QED
  BY <1>1, <1>2, <1>9, <1>10, <1>11

LEMMA TellStep == ASSUME RaceAll, NEW p \in Promises, Tell(p) PROVE RaceAll'
<1>1. /\ IsNext(Notice(p)) /\ Deliver(races[p], p, Tail(jobs))
      /\ races' = [races EXCEPT ![p] = {}] /\ record' = [record EXCEPT ![p] = "settled"]
      /\ UNCHANGED <<settled, pc, at, winner, cancelled, order, before>>
  BY DEF Tell
<1>2. /\ Queued(Notice(p)) /\ Tail(jobs) \in Seq(AllJobs) /\ IsInjective(Tail(jobs))
      /\ ToSet(Tail(jobs)) = ToSet(jobs) \ {Notice(p)}
      /\ \A x, y : Before(jobs, x, y) => Before(Tail(jobs), x, y)
      /\ \A x : ~ Before(jobs, x, Notice(p)) \/ ~ Queued(x)
  BY <1>1, NextJob DEF RaceAll
<1>3. record[p] = "pending" /\ p \in settled
  BY <1>2 DEF RaceAll, RaceInv, JobsDue
<1>4. /\ jobs' \in Seq(AllJobs) /\ IsInjective(jobs')
      /\ \A j : j \in ToSet(jobs') <=>
            j \in ToSet(Tail(jobs)) \/ \E r \in races[p] : result[r] = {} /\ j = Resumed(r)
      /\ \A x, y : Before(Tail(jobs), Notice(x), y) => Before(jobs', Notice(x), y)
      /\ result' \in [Races -> SUBSET Promises]
      /\ \A r \in Races : result'[r] = IF r \in races[p] /\ result[r] = {} THEN {p}
                                       ELSE result[r]
  <2>1. ToSet(Tail(jobs)) \subseteq ToSet(jobs)
    BY <1>2
  <2> QED
    BY <1>1, <1>2, <2>1, DeliverFacts DEF RaceAll
<1>5. \A j : Queued(j)' <=>
        (Queued(j) /\ j # Notice(p)) \/ \E r \in races[p] : result[r] = {} /\ j = Resumed(r)
  BY <1>2, <1>4 DEF Queued
<1>6. /\ record' \in [Promises -> {"none", "pending", "settled"}] /\ record'[p] = "settled"
      /\ races' \in [Promises -> SUBSET Races] /\ races'[p] = {}
      /\ \A x \in Promises \ {p} : record'[x] = record[x] /\ races'[x] = races[x]
  BY <1>1 DEF RaceAll, RaceInv, RaceTypes
<1>7. races[p] \subseteq Races /\ \A r \in races[p] : pc[r] = "waiting" /\ p \in Contenders[r]
  BY DEF RaceAll, RaceInv, RaceTypes, LinksLive
<1>8. RaceTypes'
  BY <1>1, <1>4, <1>6 DEF RaceAll, RaceInv, RaceTypes
<1>9. JobsDue'
  <2>1. \A x \in Promises : Queued(Notice(x))' <=> record'[x] = "pending" /\ x \in settled'
    BY <1>1, <1>5, <1>6, JobFacts DEF RaceAll, RaceInv, JobsDue
  <2>2. \A r \in Races : Queued(Checked(r))' <=> pc'[r] = "checking"
    BY <1>1, <1>5, JobFacts DEF RaceAll, RaceInv, JobsDue
  <2>3. ASSUME NEW r \in Races
        PROVE  Queued(Resumed(r))' <=> pc'[r] = "waiting" /\ result'[r] # {}
    <3>1. Queued(Resumed(r)) <=> pc[r] = "waiting" /\ result[r] # {}
      BY DEF RaceAll, RaceInv, JobsDue
    <3>2. Queued(Resumed(r))' <=> Queued(Resumed(r)) \/ (r \in races[p] /\ result[r] = {})
      BY <1>5, JobFacts
    <3> QED
      BY <1>1, <1>4, <1>7, <3>1, <3>2
  <2> QED
    BY <2>1, <2>2, <2>3 DEF JobsDue
<1>10. Recorded'
  <2>1. \A x \in Promises : record'[x] = "settled" => x \in settled'
    BY <1>1, <1>3, <1>6 DEF RaceAll, RaceInv, Recorded
  <2>2. \A x \in Promises : record[x] # "none" => record'[x] # "none"
    BY <1>6
  <2>3. ASSUME NEW r \in Races, pc[r] = "checking"
        PROVE  at[r] \in Places(r) /\ \A j \in 1..at[r] : record'[Raceables[r][j]] # "none"
    <3>1. at[r] \in Places(r) /\ \A j \in 1..at[r] : record[Raceables[r][j]] # "none"
      BY <2>3 DEF RaceAll, RaceInv, Recorded
    <3>2. \A j \in 1..at[r] : Raceables[r][j] \in Promises
      BY <3>1, ContenderFacts
    <3> QED
      BY <2>2, <3>1, <3>2
  <2> QED
    BY <1>1, <2>1, <2>3 DEF RaceAll, RaceInv, Recorded
<1>11. Results'
  BY <1>1, <1>3, <1>4, <1>7 DEF RaceAll, RaceInv, Results
<1>12. LinksLive'
  BY <1>1, <1>6 DEF RaceAll, RaceInv, LinksLive
<1>13. Ordered'
  BY <1>1 DEF RaceAll, OrderInv, Ordered
<1>14. ASSUME NEW q \in Races
       PROVE  InOrder(q)' /\ FirstOf(q)'
  <2>1. Linked(q)' <=> Linked(q)
    BY <1>1 DEF Linked
  <2>2. Open(q)' => Open(q) /\ q \notin races[p]
    BY <1>1, <1>4 DEF Open
  <2>3. InOrder(q)'
    <3>1. Open(q)' => \A x \in Contenders[q] : q \in races[x] => q \in races'[x]
      BY <1>6, <2>2, ContenderFacts
    <3>2. \A x, y : Before(jobs, Notice(x), Notice(y)) => Before(jobs', Notice(x), Notice(y))
      BY <1>2, <1>4
    <3> QED
      BY <1>1, <2>2, <3>1, <3>2, InOrderKept DEF RaceAll
  <2>4. ASSUME q \in races[p], result[q] = {}
        PROVE  FirstOf(q)'
    <3>1. result'[q] = {p} /\ pc'[q] = "waiting"
      BY <1>1, <1>4, <1>7, <2>4
    <3>2. SUFFICES ASSUME Linked(q)
                   PROVE  \A x \in Contenders[q] \cap settled : Place(p) <= Place(x)
      <4>1. \A x : Place(x)' = Place(x)
        BY <1>1 DEF Place
      <4> QED
        BY <1>1, <1>3, <2>1, <3>1, <4>1 DEF FirstOf
    <3>3. Open(q)
      BY <1>7, <2>4, <3>2 DEF Open, Linked
    <3>4. /\ \A x \in Contenders[q] : q \in races[x]
          /\ \A x, y \in Contenders[q] \cap settled :
                Place(x) < Place(y) => Before(jobs, Notice(x), Notice(y))
      BY <3>3 DEF RaceAll, OrderInv, InOrder
    <3>5. ASSUME NEW x \in Contenders[q] \cap settled
          PROVE  ~ (Place(x) < Place(p))
      <4>1. Queued(Notice(x))
        BY <3>4, ContenderFacts DEF RaceAll, RaceInv, LinksLive, JobsDue
      <4> QED
        BY <1>2, <1>3, <1>7, <2>4, <3>4, <4>1
    <3>6. \A x \in settled : Place(x) \in 1..Len(order)
      <4>1. order \in Seq(Promises) /\ IsInjective(order) /\ ToSet(order) = settled
        BY DEF RaceAll, OrderInv, Ordered
      <4> QED
        BY <4>1, PlaceFacts DEF Place
    <3>7. \A x \in settled : Place(x) \in Int
      <4>1. Len(order) \in Nat
        BY LenProperties DEF RaceAll, OrderInv, Ordered
      <4> QED
        BY <3>6, <4>1
    <3> QED
      BY <1>3, <3>5, <3>7
  <2>5. ASSUME ~ (q \in races[p] /\ result[q] = {})
        PROVE  FirstOf(q)'
    <3>1. result'[q] = result[q]
      BY <1>4, <2>5
    <3>2. Linked(q) /\ result[q] # {} /\ pc[q] = "done" => winner[q] = result[q]
      BY DEF RaceAll, OrderInv, FirstOf
    <3> QED
      BY <1>1, <2>1, <3>1, <3>2, FirstKept DEF RaceAll
  <2> QED
    BY <2>3, <2>4, <2>5
<1> QED
  BY <1>8, <1>9, <1>10, <1>11, <1>12, <1>13, <1>14 DEF RaceAll, RaceInv, OrderInv

LEMMA CancelStep == ASSUME RaceAll, NEW p \in Promises, Cancel(p) PROVE RaceAll'
<1>1. /\ record[p] = "pending" /\ Deliver(races[p], p, jobs)
      /\ races' = [races EXCEPT ![p] = {}] /\ cancelled' = cancelled \cup {p}
      /\ UNCHANGED <<settled, record, pc, at, winner, order, before>>
  BY DEF Cancel
<1>2. jobs \in Seq(AllJobs) /\ IsInjective(jobs)
  BY DEF RaceAll, RaceInv, RaceTypes
<1>3. /\ jobs' \in Seq(AllJobs) /\ IsInjective(jobs')
      /\ \A j : j \in ToSet(jobs') <=>
            j \in ToSet(jobs) \/ \E r \in races[p] : result[r] = {} /\ j = Resumed(r)
      /\ \A x, y : Before(jobs, Notice(x), y) => Before(jobs', Notice(x), y)
      /\ result' \in [Races -> SUBSET Promises]
      /\ \A r \in Races : result'[r] = IF r \in races[p] /\ result[r] = {} THEN {p}
                                       ELSE result[r]
  BY <1>1, <1>2, DeliverFacts DEF RaceAll
<1>4. \A j : Queued(j)' <=> Queued(j) \/ \E r \in races[p] : result[r] = {} /\ j = Resumed(r)
  BY <1>3 DEF Queued
<1>5. /\ races' \in [Promises -> SUBSET Races] /\ races'[p] = {}
      /\ \A x \in Promises \ {p} : races'[x] = races[x]
  BY <1>1 DEF RaceAll, RaceInv, RaceTypes
<1>6. races[p] \subseteq Races /\ \A r \in races[p] : pc[r] = "waiting" /\ p \in Contenders[r]
  BY DEF RaceAll, RaceInv, RaceTypes, LinksLive
<1>7. RaceTypes'
  BY <1>1, <1>3, <1>5 DEF RaceAll, RaceInv, RaceTypes
<1>8. JobsDue'
  <2>1. \A x \in Promises : Queued(Notice(x))' <=> record'[x] = "pending" /\ x \in settled'
    BY <1>1, <1>4, JobFacts DEF RaceAll, RaceInv, JobsDue
  <2>2. \A r \in Races : Queued(Checked(r))' <=> pc'[r] = "checking"
    BY <1>1, <1>4, JobFacts DEF RaceAll, RaceInv, JobsDue
  <2>3. ASSUME NEW r \in Races
        PROVE  Queued(Resumed(r))' <=> pc'[r] = "waiting" /\ result'[r] # {}
    <3>1. Queued(Resumed(r)) <=> pc[r] = "waiting" /\ result[r] # {}
      BY DEF RaceAll, RaceInv, JobsDue
    <3>2. Queued(Resumed(r))' <=> Queued(Resumed(r)) \/ (r \in races[p] /\ result[r] = {})
      BY <1>4, JobFacts
    <3> QED
      BY <1>1, <1>3, <1>6, <3>1, <3>2
  <2> QED
    BY <2>1, <2>2, <2>3 DEF JobsDue
<1>9. Recorded'
  BY <1>1 DEF RaceAll, RaceInv, Recorded
<1>10. Results'
  BY <1>1, <1>3, <1>6 DEF RaceAll, RaceInv, Results
<1>11. LinksLive'
  BY <1>1, <1>5 DEF RaceAll, RaceInv, LinksLive
<1>12. Ordered'
  BY <1>1 DEF RaceAll, OrderInv, Ordered
<1>13. ASSUME NEW q \in Races
       PROVE  InOrder(q)' /\ FirstOf(q)'
  <2>1. Linked(q)' <=> Linked(q)
    BY <1>1 DEF Linked
  <2>2. Open(q)' => Open(q) /\ q \notin races[p]
    BY <1>1, <1>3 DEF Open
  <2>3. InOrder(q)'
    <3>1. Open(q)' => \A x \in Contenders[q] : q \in races[x] => q \in races'[x]
      BY <1>5, <2>2, ContenderFacts
    <3> QED
      BY <1>1, <1>3, <2>2, <3>1, InOrderKept DEF RaceAll
  <2>4. ASSUME q \in races[p], result[q] = {}
        PROVE  FirstOf(q)'
    <3>1. result'[q] = {p} /\ pc'[q] = "waiting" /\ p \in cancelled'
      BY <1>1, <1>3, <1>6, <2>4
    <3> QED
      BY <3>1 DEF FirstOf
  <2>5. ASSUME ~ (q \in races[p] /\ result[q] = {})
        PROVE  FirstOf(q)'
    <3>1. result'[q] = result[q]
      BY <1>3, <2>5
    <3>2. Linked(q) /\ result[q] # {} /\ pc[q] = "done" => winner[q] = result[q]
      BY DEF RaceAll, OrderInv, FirstOf
    <3> QED
      BY <1>1, <2>1, <3>1, <3>2, FirstKept DEF RaceAll
  <2> QED
    BY <2>3, <2>4, <2>5
<1> QED
  BY <1>7, <1>8, <1>9, <1>10, <1>11, <1>12, <1>13 DEF RaceAll, RaceInv, OrderInv

LEMMA ResumeStep == ASSUME RaceAll, NEW r \in Races, Resume(r) PROVE RaceAll'
<1>1. /\ IsNext(Resumed(r)) /\ Finish(r, result[r]) /\ jobs' = Tail(jobs)
      /\ races' = [p \in Promises |-> IF p \in Contenders[r] THEN races[p] \ {r} ELSE races[p]]
      /\ UNCHANGED <<settled, record, at, result, cancelled, order, before>>
  BY DEF Resume
<1>2. /\ Queued(Resumed(r)) /\ jobs' \in Seq(AllJobs) /\ IsInjective(jobs')
      /\ ToSet(jobs') = ToSet(jobs) \ {Resumed(r)}
      /\ \A x, y : Before(jobs, x, y) => Before(jobs', x, y)
  BY <1>1, NextJob DEF RaceAll
<1>3. pc[r] = "waiting" /\ result[r] # {} /\ result[r] \subseteq Contenders[r]
  BY <1>2 DEF RaceAll, RaceInv, JobsDue, Results
<1>4. /\ winner' \in [Races -> SUBSET Promises] /\ winner'[r] = result[r]
      /\ pc' \in [Races -> {"idle", "alone", "checking", "waiting", "done"}] /\ pc'[r] = "done"
      /\ \A q \in Races \ {r} : pc'[q] = pc[q] /\ winner'[q] = winner[q]
  BY <1>1, <1>3, ContenderFacts DEF Finish, RaceAll, RaceInv, RaceTypes
<1>5. \A j : Queued(j)' <=> Queued(j) /\ j # Resumed(r)
  BY <1>2 DEF Queued
<1>6. /\ races' \in [Promises -> SUBSET Races]
      /\ \A p \in Promises : \A q \in Races \ {r} : q \in races'[p] <=> q \in races[p]
      /\ \A p \in Contenders[r] : p \in Promises => r \notin races'[p]
      /\ \A p \in Promises : races'[p] \subseteq races[p]
  BY <1>1 DEF RaceAll, RaceInv, RaceTypes
<1>7. RaceTypes'
  <2>1. IsFiniteSet({q \in Races : pc'[q] # "idle"})
    BY <1>4, StartedFinite DEF RaceAll, RaceInv
  <2> QED
    BY <1>1, <1>2, <1>4, <1>6, <2>1 DEF RaceAll, RaceInv, RaceTypes
<1>8. JobsDue'
  <2>1. \A x \in Promises : Queued(Notice(x))' <=> record'[x] = "pending" /\ x \in settled'
    BY <1>1, <1>5, JobFacts DEF RaceAll, RaceInv, JobsDue
  <2>2. \A q \in Races : Queued(Checked(q))' <=> pc'[q] = "checking"
    BY <1>3, <1>4, <1>5, JobFacts DEF RaceAll, RaceInv, JobsDue
  <2>3. \A q \in Races : Queued(Resumed(q))' <=> pc'[q] = "waiting" /\ result'[q] # {}
    BY <1>1, <1>4, <1>5, JobFacts DEF RaceAll, RaceInv, JobsDue
  <2> QED
    BY <2>1, <2>2, <2>3 DEF JobsDue
<1>9. Recorded'
  BY <1>1, <1>4 DEF RaceAll, RaceInv, Recorded
<1>10. Results'
  BY <1>1, <1>3, <1>4 DEF RaceAll, RaceInv, Results
<1>11. LinksLive'
  <2>1. ASSUME NEW p \in Promises, NEW q \in races'[p]
        PROVE  q # r
    BY <1>6, <2>1 DEF RaceAll, RaceInv, LinksLive
  <2> QED
    BY <1>1, <1>4, <1>6, <2>1 DEF RaceAll, RaceInv, RaceTypes, LinksLive
<1>12. Ordered'
  BY <1>1 DEF RaceAll, OrderInv, Ordered
<1>13. ASSUME NEW q \in Races
       PROVE  InOrder(q)' /\ FirstOf(q)'
  <2>1. Linked(q)' <=> Linked(q)
    BY <1>1, <1>3, <1>4 DEF Linked
  <2>2. Open(q)' => Open(q) /\ q # r
    BY <1>1, <1>3, <1>4 DEF Open
  <2>3. Open(q)' => \A x \in Contenders[q] : q \in races[x] => q \in races'[x]
    BY <1>6, <2>2, ContenderFacts
  <2>4. InOrder(q)'
    BY <1>1, <1>2, <2>2, <2>3, InOrderKept DEF RaceAll
  <2>5. Linked(q) /\ result[q] # {} /\ pc[q] = "done" => winner[q] = result[q]
    BY DEF RaceAll, OrderInv, FirstOf
  <2>6. FirstOf(q)'
    BY <1>1, <1>4, <2>1, <2>5, FirstKept DEF RaceAll
  <2> QED
    BY <2>4, <2>6
<1> QED
  BY <1>7, <1>8, <1>9, <1>10, <1>11, <1>12, <1>13 DEF RaceAll, RaceInv, OrderInv

LEMMA RaceSteps == RaceAll /\ [Next]_vars => RaceAll'
<1> SUFFICES ASSUME RaceAll, [Next]_vars
             PROVE  RaceAll'
  OBVIOUS
<1>1. ASSUME NEW r \in Races, Check(r) \/ Resume(r) \/ Start(r) \/ Alone(r)
      PROVE  RaceAll'
  BY <1>1, CheckStep, ResumeStep, StartStep, AloneStep
<1>2. ASSUME NEW p \in Promises, Tell(p) \/ Settle(p) \/ Cancel(p)
      PROVE  RaceAll'
  BY <1>2, TellStep, SettleStep, CancelStep
<1>3. CASE UNCHANGED vars
  <2>1. RaceTypes' /\ JobsDue' /\ Recorded' /\ Results' /\ LinksLive'
    BY <1>3 DEF vars, RaceAll, RaceInv, RaceTypes, JobsDue, Recorded, Results, LinksLive, Queued
  <2>2. OrderInv'
    BY <1>3 DEF vars, RaceAll, OrderInv, Ordered, InOrder, FirstOf, Open, Linked, Place
  <2> QED
    BY <2>1, <2>2 DEF RaceAll, RaceInv
<1> QED
  BY <1>1, <1>2, <1>3 DEF Next, Job

LEMMA RaceInvariant == Spec => []RaceAll
<1>1. Init => OrderInv
  <2> SUFFICES ASSUME Init
               PROVE  OrderInv
    OBVIOUS
  <2>1. Ordered
    BY DEF Init, Ordered, IsInjective, ToSet
  <2> QED
    BY <2>1 DEF Init, OrderInv, InOrder, FirstOf, Open, Linked
<1>2. Init => RaceAll
  BY <1>1, RaceInit DEF RaceAll
<1> QED
  BY <1>2, RaceSteps, PTL DEF Spec

\* Types, and that no job is queued twice: every race and every promise is told once
\* of what it waits for.
LEMMA RaceTyped == RaceAll => TypeOK
<1> SUFFICES ASSUME RaceAll
             PROVE  TypeOK
  OBVIOUS
<1>1. \A i \in DOMAIN jobs : jobs[i] \in AllJobs
  BY LenProperties, ElementOfSeq DEF RaceAll, RaceInv, RaceTypes
<1>2. \A r \in Races : result[r] \subseteq Contenders[r] /\ winner[r] \subseteq Contenders[r]
  BY DEF RaceAll, RaceInv, Results
<1> QED
  BY <1>1, <1>2 DEF TypeOK, AllJobs, RaceAll, RaceInv, RaceTypes, Recorded

\* A promise that has not settled refers only to the races that wait for it: whatever
\* the races are given and however they end, race() leaves nothing behind.
THEOREM RaceLeavesNothing == Spec => []NothingLeaks
<1>1. RaceAll => NothingLeaks
  BY RaceTyped DEF NothingLeaks, RaceAll, RaceInv, LinksLive
<1> QED
  BY <1>1, RaceInvariant, PTL

\* Of the contenders that settle after the race was linked to all of them, the first
\* wins, for any number of races over any promises.
THEOREM FirstToSettleWins == Spec => []FirstWins
<1>1. ASSUME RaceAll, NEW r \in Races, pc[r] = "done", result[r] # {},
             before[r] \cap Contenders[r] = {}, winner[r] \cap cancelled = {},
             NEW p \in winner[r], NEW q \in Contenders[r] \cap settled
      PROVE  Place(p) <= Place(q)
  BY <1>1 DEF RaceAll, OrderInv, FirstOf, Linked
<1>2. RaceAll => FirstWins
  BY <1>1 DEF FirstWins
<1> QED
  BY <1>2, RaceInvariant, PTL

-----------------------------------------------------------------------------
(* SafePromise implements the races of Race.                               *)

\* What a pass shows of itself: the race runs on, and may have been won.
LEMMA PassShows ==
    ASSUME RaceInv, NEW r \in Races, NEW i, NEW rest, Rest(r, i, rest), Pass(r, i, rest)
    PROVE  /\ pc'[r] # "idle" /\ \A q \in Races \ {r} : pc'[q] = pc[q]
           /\ \/ UNCHANGED winner
              \/ \E p \in Contenders[r] : p \in settled /\ winner' = [winner EXCEPT ![r] = {p}]
<1> DEFINE stops == {j \in Places(r) : j >= i /\ record[Raceables[r][j]] # "pending"}
           k == Least(stops)
<1>1. CASE stops = {}
  <2>1. Link(r, rest)
    BY <1>1 DEF Pass
  <2>2. UNCHANGED winner /\ pc' = [pc EXCEPT ![r] = "waiting"]
    BY <2>1 DEF Link
  <2> QED
    BY <2>2 DEF RaceInv, RaceTypes
<1>2. CASE stops # {} /\ record[Raceables[r][k]] = "settled"
  <2>1. k \in Places(r)
    <3>1. stops \subseteq Nat
      BY ContenderFacts
    <3> QED
      BY <1>2, <3>1, LeastMember
  <2>2. Raceables[r][k] \in Contenders[r] /\ Raceables[r][k] \in settled
    BY <1>2, <2>1, ContenderFacts DEF RaceInv, Recorded
  <2>3. /\ winner' = [winner EXCEPT ![r] = {Raceables[r][k]}]
        /\ pc' = [pc EXCEPT ![r] = "done"]
    BY <1>2 DEF Pass, Finish
  <2> QED
    BY <2>2, <2>3 DEF RaceInv, RaceTypes
<1>3. CASE stops # {} /\ record[Raceables[r][k]] # "settled"
  <2>1. Register(r, k, rest)
    BY <1>3 DEF Pass
  <2>2. UNCHANGED winner /\ pc' = [pc EXCEPT ![r] = "checking"]
    BY <2>1 DEF Register
  <2> QED
    BY <2>2 DEF RaceInv, RaceTypes
<1> QED
  BY <1>1, <1>2, <1>3

Running == {r \in Races : pc[r] # "idle"}

\* A race that starts is a race that starts, won at once or not.
LEMMA StartImplements ==
    ASSUME RaceAll, NEW r \in Races, Start(r)
    PROVE  Promised!Start(r)
<1>1. pc[r] = "idle" /\ UNCHANGED <<settled, cancelled, order>>
  BY DEF Start
<1>2. /\ pc'[r] # "idle" /\ \A q \in Races \ {r} : pc'[q] = pc[q]
      /\ \/ UNCHANGED winner
         \/ \E p \in Contenders[r] : p \in settled /\ winner' = [winner EXCEPT ![r] = {p}]
  <2>1. CASE Len(Raceables[r]) > 1
    <3>1. ToSet(jobs) = ToSet(jobs) \ {Checked(r)}
      BY <1>1 DEF RaceAll, RaceInv, JobsDue, Queued
    <3>2. Rest(r, 1, jobs)
      BY <1>1, <2>1, <3>1, ContenderFacts DEF RaceAll, RaceInv, RaceTypes, Rest
    <3> QED
      BY <2>1, <3>2, PassShows DEF RaceAll, Start
  <2>2. CASE ~ (Len(Raceables[r]) > 1)
    <3>1. pc' = [pc EXCEPT ![r] = "alone"] /\ UNCHANGED winner
      BY <2>2 DEF Start
    <3> QED
      BY <3>1 DEF RaceAll, RaceInv, RaceTypes
  <2> QED
    BY <2>1, <2>2
<1>3. winner[r] = {}
  BY <1>1 DEF RaceAll, RaceInv, Results
<1>4. {q \in Races : pc'[q] # "idle"} = {q \in Races : pc[q] # "idle"} \cup {r}
  BY <1>2
<1>5. UNCHANGED winner \/ \E p \in Contenders[r] : Promised!Decided(r, p)
  BY <1>2, <1>3 DEF Promised!Decided
<1> QED
  BY <1>1, <1>4, <1>5 DEF Promised!Start

\* A race that ends after it has started is decided.
LEMMA EndImplements ==
    ASSUME RaceAll, NEW r \in Races, pc[r] \notin {"idle", "done"},
           pc'[r] # "idle", \A q \in Races \ {r} : pc'[q] = pc[q],
           UNCHANGED <<settled, cancelled>>,
           NEW p \in Contenders[r], p \in settled \cup cancelled,
           winner' = [winner EXCEPT ![r] = {p}]
    PROVE  Promised!Decide(r)
<1>1. winner[r] = {}
  BY DEF RaceAll, RaceInv, Results
<1>2. {q \in Races : pc'[q] # "idle"} = {q \in Races : pc[q] # "idle"}
  OBVIOUS
<1> QED
  BY <1>1, <1>2 DEF Promised!Decide, Promised!Decided

LEMMA AloneImplements ==
    ASSUME RaceAll, NEW r \in Races, Alone(r)
    PROVE  Promised!Decide(r)
<1>1. /\ pc[r] = "alone" /\ Contenders[r] \cap settled # {}
      /\ winner' = [winner EXCEPT ![r] = Contenders[r]] /\ pc' = [pc EXCEPT ![r] = "done"]
      /\ UNCHANGED <<settled, cancelled>>
  BY DEF Alone, Finish
<1>2. PICK p \in Contenders[r] : p \in settled
  BY <1>1
<1>3. Len(Raceables[r]) <= 1
  BY <1>1 DEF RaceAll, RaceInv, Results
<1>4. \A q \in Contenders[r] : q = p
  <2>1. ASSUME NEW j \in Places(r)
        PROVE  j = 1
    BY <1>3, <2>1, ContenderFacts
  <2> QED
    BY <1>2, <2>1, ContenderFacts
<1>5. Contenders[r] = {p}
  BY <1>2, <1>4
<1>6. pc'[r] # "idle" /\ \A q \in Races \ {r} : pc'[q] = pc[q]
  BY <1>1 DEF RaceAll, RaceInv, RaceTypes
<1> QED
  BY <1>1, <1>2, <1>5, <1>6, EndImplements

LEMMA CheckImplements ==
    ASSUME RaceAll, NEW r \in Races, Check(r)
    PROVE  Promised!Decide(r) \/ UNCHANGED <<settled, cancelled, winner, Running>>
<1> DEFINE c == Raceables[r][at[r]]
<1>1. IsNext(Checked(r)) /\ UNCHANGED <<settled, cancelled>>
  BY DEF Check
<1>2. /\ Queued(Checked(r)) /\ Tail(jobs) \in Seq(AllJobs) /\ IsInjective(Tail(jobs))
      /\ ToSet(Tail(jobs)) = ToSet(jobs) \ {Checked(r)}
      /\ \A x, y : Before(jobs, x, y) => Before(Tail(jobs), x, y)
  BY <1>1, NextJob DEF RaceAll
<1>3. /\ pc[r] = "checking" /\ at[r] \in Places(r)
      /\ \A j \in 1..at[r] : record[Raceables[r][j]] # "none"
  BY <1>2 DEF RaceAll, RaceInv, JobsDue, Recorded
<1>4. /\ Places(r) = 1..Len(Raceables[r]) /\ Len(Raceables[r]) \in Nat
      /\ c \in Contenders[r] /\ Contenders[r] \subseteq Promises
  BY <1>3, ContenderFacts
<1>5. /\ pc'[r] # "idle" /\ \A q \in Races \ {r} : pc'[q] = pc[q]
      /\ \/ UNCHANGED winner
         \/ \E p \in Contenders[r] : p \in settled /\ winner' = [winner EXCEPT ![r] = {p}]
  <2>1. CASE record[c] = "settled"
    <3>1. winner' = [winner EXCEPT ![r] = {c}] /\ pc' = [pc EXCEPT ![r] = "done"]
      BY <2>1 DEF Check, Finish
    <3>2. c \in settled
      BY <1>4, <2>1 DEF RaceAll, RaceInv, Recorded
    <3> QED
      BY <1>4, <3>1, <3>2 DEF RaceAll, RaceInv, RaceTypes
  <2>2. CASE record[c] # "settled"
    <3>1. at[r] + 1 \in 1..(Len(Raceables[r]) + 1) /\ (at[r] + 1) - 1 = at[r]
      BY <1>3, <1>4
    <3>2. Rest(r, at[r] + 1, Tail(jobs))
      BY <1>2, <1>3, <3>1 DEF Rest
    <3> QED
      BY <2>2, <3>2, PassShows DEF RaceAll, Check
  <2> QED
    BY <2>1, <2>2
<1>6. CASE UNCHANGED winner
  BY <1>1, <1>3, <1>5, <1>6 DEF Running
<1>7. ASSUME NEW p \in Contenders[r], p \in settled, winner' = [winner EXCEPT ![r] = {p}]
      PROVE  Promised!Decide(r)
  BY <1>1, <1>3, <1>5, <1>7, EndImplements
<1> QED
  BY <1>5, <1>6, <1>7

LEMMA ResumeImplements ==
    ASSUME RaceAll, NEW r \in Races, Resume(r)
    PROVE  Promised!Decide(r)
<1>1. /\ IsNext(Resumed(r)) /\ winner' = [winner EXCEPT ![r] = result[r]]
      /\ pc' = [pc EXCEPT ![r] = "done"] /\ UNCHANGED <<settled, cancelled>>
  BY DEF Resume, Finish
<1>2. pc[r] = "waiting" /\ result[r] # {}
  BY <1>1, NextJob DEF RaceAll, RaceInv, JobsDue
<1>3. PICK p \in Contenders[r] \cap (settled \cup cancelled) : result[r] = {p}
  BY <1>2 DEF RaceAll, RaceInv, Results
<1>4. pc'[r] # "idle" /\ \A q \in Races \ {r} : pc'[q] = pc[q]
  BY <1>1 DEF RaceAll, RaceInv, RaceTypes
<1> QED
  BY <1>1, <1>2, <1>3, <1>4, EndImplements

\* Whatever race() does is a step of the races of Race, or none that they see: each is
\* decided once, by a contender that has settled or was cancelled.
THEOREM SafePromiseImplements == Spec => Promised!Spec
<1>1. Init => Promised!Init
  BY DEF Init, Promised!Init
<1>2. ASSUME RaceAll, [Next]_vars
      PROVE  [Promised!Next]_(Promised!vars)
  <2>1. ASSUME NEW r \in Races, Start(r)
        PROVE  Promised!Next
    BY <1>2, <2>1, StartImplements DEF Promised!Next
  <2>2. ASSUME NEW r \in Races, Alone(r) \/ Resume(r)
        PROVE  Promised!Next
    BY <1>2, <2>2, AloneImplements, ResumeImplements DEF Promised!Next
  <2>3. ASSUME NEW r \in Races, Check(r)
        PROVE  Promised!Next \/ UNCHANGED <<settled, cancelled, winner, Running>>
    BY <1>2, <2>3, CheckImplements DEF Promised!Next
  <2>4. ASSUME NEW p \in Promises, Tell(p)
        PROVE  UNCHANGED <<settled, cancelled, winner, Running>>
    BY <2>4 DEF Tell, Running
  <2>5. ASSUME NEW p \in Promises, Settle(p)
        PROVE  Promised!Next
    <3>1. Promised!Settle(p)
      BY <2>5 DEF Settle, Promised!Settle
    <3> QED
      BY <3>1 DEF Promised!Next
  <2>6. ASSUME NEW p \in Promises, Cancel(p)
        PROVE  Promised!Next
    <3>1. Promised!Cancel(p)
      BY <2>6 DEF Cancel, Promised!Cancel
    <3> QED
      BY <3>1 DEF Promised!Next
  <2>7. CASE UNCHANGED vars
    BY <2>7 DEF vars, Running, Promised!vars
  <2>8. UNCHANGED <<settled, cancelled, winner, Running>> => UNCHANGED Promised!vars
    BY DEF Promised!vars, Running
  <2> QED
    BY <1>2, <2>1, <2>2, <2>3, <2>4, <2>5, <2>6, <2>7, <2>8 DEF Next, Job
<1> QED
  BY <1>1, <1>2, RaceInvariant, PTL DEF Spec, Promised!Spec

-----------------------------------------------------------------------------
(* Hedge: the promises and the races of different calls are different.     *)

LEMMA PromiseFacts ==
    ASSUME NEW c \in Calls
    PROVE  /\ Primary(c) \in HedgePromises /\ Future(c) \in HedgePromises /\ Primary(c) # Future(c)
           /\ Primary(c).call = c /\ Future(c).call = c
           /\ \A k \in Pool : /\ Hedged(c, k) \in HedgePromises /\ Hedged(c, k).call = c
                              /\ Hedged(c, k) # Future(c)
           /\ \A d \in Calls : Future(c) = Future(d) => c = d
           /\ \A d \in Calls : Future(c) # Primary(d)
           /\ \A d \in Calls, k \in Pool : Future(c) # Hedged(d, k)
BY PoolAssumption DEF Primary, Future, Hedged, HedgePromises, Pool

LEMMA RaceFacts ==
    ASSUME NEW c \in Calls
    PROVE  /\ CallRace(c) \in HedgeRaces /\ PoolRace(c) \in HedgeRaces
           /\ \A d \in Calls : /\ CallRace(c) # PoolRace(d)
                               /\ CallRace(c) = CallRace(d) => c = d
                               /\ PoolRace(c) = PoolRace(d) => c = d
           /\ HedgeContenders[CallRace(c)] = {Primary(c), Future(c)}
           /\ HedgeContenders[PoolRace(c)] = {Hedged(c, k) : k \in Pool}
BY DEF CallRace, PoolRace, HedgeRaces, HedgeContenders

LEMMA ContenderType == \A r \in HedgeRaces : HedgeContenders[r] \subseteq HedgePromises
BY PromiseFacts DEF HedgeRaces, HedgeContenders

-----------------------------------------------------------------------------
(* Hedge: the inductive invariant.                                         *)

\* A race is decided for a contender that has settled, after its start.
WinnersSettled ==
    \A r \in HedgeRaces :
        /\ callWinner[r] \subseteq HedgeContenders[r] \cap callSettled
        /\ callWinner[r] # {} => r \in running

\* A future has the result of a hedged function, or was aborted.
FutureBacked ==
    \A c \in Calls :
        /\ Future(c) \in callSettled \ failed => callWinner[PoolRace(c)] \ failed # {}
        /\ Future(c) \in failed => timer[c] = "aborted" \/ callWinner[PoolRace(c)] \cap failed # {}

\* Only a call whose primary has fulfilled aborts timers.
AbortBacked ==
    /\ \A c \in Calls : timer[c] = "aborted" => aborted
    /\ aborted => \E d \in Calls : outcome[d] = "fulfilled" /\ Primary(d) \in callSettled \ failed

\* A call ends after its race: with its error, or with a timer that is over.
EndsAfterRace ==
    \A c \in Calls :
        /\ outcome[c] # "none" => callWinner[CallRace(c)] # {}
        /\ outcome[c] = "fulfilled" => timer[c] \in {"fired", "aborted"}
        /\ outcome[c] = "rejected" => callWinner[CallRace(c)] \cap failed # {}

HInv == /\ HedgeTypeOK /\ WinnersSettled /\ FutureBacked /\ AbortBacked /\ EndsAfterRace
        /\ OutcomeJustified

LEMMA HInvInit == HedgeInit => HInv
<1> SUFFICES ASSUME HedgeInit
             PROVE  HInv
  OBVIOUS
<1>1. /\ callSettled = {} /\ failed = {} /\ running = {} /\ callWinner = [r \in HedgeRaces |-> {}]
      /\ timer = [c \in Calls |-> "none"] /\ outcome = [c \in Calls |-> "none"] /\ aborted = FALSE
  BY DEF HedgeInit, R!Init
<1>2. \A c \in Calls : CallRace(c) \in HedgeRaces /\ PoolRace(c) \in HedgeRaces
  BY RaceFacts
<1>3. HedgeTypeOK
  BY <1>1, <1>2 DEF HedgeTypeOK
<1> QED
  BY <1>1, <1>2, <1>3
     DEF HInv, WinnersSettled, FutureBacked, AbortBacked, EndsAfterRace, OutcomeJustified

-----------------------------------------------------------------------------
(* What the steps of a race do, and what every step keeps.                 *)

\* What a race may do to the winners.
Decides(r) ==
    /\ callSettled' = callSettled
    /\ callWinner' \in [HedgeRaces -> SUBSET HedgePromises]
    /\ \A q \in HedgeRaces :
          /\ callWinner[q] \subseteq callWinner'[q]
          /\ callWinner'[q] \subseteq HedgeContenders[q] \cap callSettled
          /\ q # r => callWinner'[q] = callWinner[q]

LEMMA DecidedDecides ==
    ASSUME HedgeTypeOK, WinnersSettled, NEW r \in HedgeRaces, callSettled' = callSettled,
           UNCHANGED callWinner \/ \E p \in HedgeContenders[r] : R!Decided(r, p)
    PROVE  Decides(r)
<1>1. CASE UNCHANGED callWinner
  BY <1>1 DEF Decides, HedgeTypeOK, WinnersSettled
<1>2. ASSUME NEW p \in HedgeContenders[r], R!Decided(r, p)
      PROVE  Decides(r)
  <2>1. callWinner[r] = {} /\ p \in callSettled /\ callWinner' = [callWinner EXCEPT ![r] = {p}]
    BY <1>2 DEF R!Decided
  <2>2. p \in HedgePromises
    BY ContenderType
  <2> QED
    BY <1>2, <2>1, <2>2 DEF Decides, HedgeTypeOK, WinnersSettled
<1> QED
  BY <1>1, <1>2

LEMMA StartDecides ==
    ASSUME HedgeTypeOK, WinnersSettled, NEW r \in HedgeRaces, R!Start(r)
    PROVE  Decides(r) /\ r \notin running /\ running' = running \cup {r}
BY DecidedDecides DEF R!Start

LEMMA DecideDecides ==
    ASSUME HedgeTypeOK, WinnersSettled, NEW r \in HedgeRaces, R!Decide(r)
    PROVE  Decides(r) /\ r \in running /\ running' = running
BY DecidedDecides DEF R!Decide

LEMMA SettlesFacts ==
    ASSUME NEW p, NEW bad \in BOOLEAN, Settles(p, bad)
    PROVE  /\ p \notin callSettled /\ callSettled' = callSettled \cup {p}
           /\ failed' = IF bad THEN failed \cup {p} ELSE failed
           /\ UNCHANGED <<running, callWinner>>
BY DEF Settles, R!Settle

\* Promises settle once and for all.
Grows ==
    /\ callSettled \subseteq callSettled'
    /\ failed \subseteq failed' /\ failed' \cap callSettled = failed
    /\ \A r \in HedgeRaces : callWinner[r] \subseteq callWinner'[r]

\* What a step owes the invariant beside growing.
LEMMA FutureKept ==
    ASSUME HInv, Grows, NEW c \in Calls,
           Future(c) \in callSettled' => Future(c) \in callSettled,
           timer[c] = "aborted" => timer'[c] = "aborted",
           failed' \subseteq callSettled'
    PROVE  /\ Future(c) \in callSettled' \ failed' => callWinner'[PoolRace(c)] \ failed' # {}
           /\ Future(c) \in failed' =>
                 timer'[c] = "aborted" \/ callWinner'[PoolRace(c)] \cap failed' # {}
<1>1. PoolRace(c) \in HedgeRaces
  BY RaceFacts
<1>2. /\ callWinner[PoolRace(c)] \subseteq callSettled
      /\ callWinner[PoolRace(c)] \subseteq callWinner'[PoolRace(c)]
  BY <1>1 DEF HInv, WinnersSettled, Grows
<1> QED
  BY <1>2 DEF HInv, FutureBacked, Grows

LEMMA OutcomeKept ==
    ASSUME HInv, Grows, UNCHANGED outcome
    PROVE  OutcomeJustified'
<1>1. ASSUME NEW c \in Calls
      PROVE  /\ Own(c) \ failed # {} => Own(c)' \ failed' # {}
             /\ Own(c) \cap failed # {} => Own(c)' \cap failed' # {}
  BY DEF Own, Grows
<1>2. \A d \in Calls : Primary(d) \in callSettled \ failed => Primary(d) \in callSettled' \ failed'
  BY DEF Grows
<1> QED
  BY <1>1, <1>2 DEF OutcomeJustified, HInv

-----------------------------------------------------------------------------
(* Hedge: the steps.                                                       *)

\* A function settles.
LEMMA OwnSettles ==
    ASSUME HInv, NEW p \in HedgePromises, NEW bad \in BOOLEAN, Settles(p, bad),
           \A c \in Calls : p # Future(c), UNCHANGED <<timer, outcome, aborted>>
    PROVE  HInv'
<1>1. /\ p \notin callSettled /\ callSettled' = callSettled \cup {p}
      /\ failed' = IF bad THEN failed \cup {p} ELSE failed
      /\ UNCHANGED <<running, callWinner>>
  BY SettlesFacts
<1>2. Grows
  BY <1>1 DEF Grows, HInv, HedgeTypeOK
<1>3. HedgeTypeOK' /\ WinnersSettled' /\ EndsAfterRace'
  BY <1>1 DEF HInv, HedgeTypeOK, WinnersSettled, EndsAfterRace
<1>4. FutureBacked'
  BY <1>1, <1>2, <1>3, FutureKept DEF FutureBacked, HedgeTypeOK
<1>5. AbortBacked'
  BY <1>2 DEF HInv, AbortBacked, Grows
<1> QED
  BY <1>2, <1>3, <1>4, <1>5, OutcomeKept DEF HInv

\* A future settles, for a reason.
LEMMA FutureSettled ==
    ASSUME HInv, NEW c \in Calls, NEW bad \in BOOLEAN, Settles(Future(c), bad),
           UNCHANGED <<timer, outcome, aborted>>,
           bad => timer[c] = "aborted" \/ callWinner[PoolRace(c)] \cap failed # {},
           ~bad => callWinner[PoolRace(c)] \ failed # {}
    PROVE  HInv'
<1>1. /\ Future(c) \notin callSettled /\ callSettled' = callSettled \cup {Future(c)}
      /\ failed' = IF bad THEN failed \cup {Future(c)} ELSE failed
      /\ UNCHANGED <<running, callWinner>>
  BY SettlesFacts
<1>2. Grows
  BY <1>1 DEF Grows, HInv, HedgeTypeOK
<1>3. Future(c) \in HedgePromises
  BY PromiseFacts
<1>4. HedgeTypeOK' /\ WinnersSettled' /\ EndsAfterRace'
  BY <1>1, <1>3 DEF HInv, HedgeTypeOK, WinnersSettled, EndsAfterRace
<1>5. ASSUME NEW d \in Calls
      PROVE  /\ Future(d) \in callSettled' \ failed' => callWinner'[PoolRace(d)] \ failed' # {}
             /\ Future(d) \in failed' =>
                   timer'[d] = "aborted" \/ callWinner'[PoolRace(d)] \cap failed' # {}
  <2>1. CASE d = c
    <3>1. callWinner[PoolRace(c)] \subseteq callSettled
      BY RaceFacts DEF HInv, WinnersSettled
    <3>2. Future(c) \in failed' <=> bad
      BY <1>1 DEF HInv, HedgeTypeOK
    <3> QED
      BY <1>1, <2>1, <3>1, <3>2
  <2>2. CASE d # c
    <3>1. Future(d) # Future(c)
      BY <2>2, PromiseFacts
    <3> QED
      BY <1>1, <1>2, <1>4, <3>1, FutureKept DEF HedgeTypeOK
  <2> QED
    BY <2>1, <2>2
<1>6. FutureBacked'
  BY <1>5 DEF FutureBacked
<1>7. AbortBacked'
  BY <1>2 DEF HInv, AbortBacked, Grows
<1> QED
  BY <1>2, <1>4, <1>6, <1>7, OutcomeKept DEF HInv

\* A race starts or is decided.
LEMMA RaceStep ==
    ASSUME HInv, NEW r \in HedgeRaces, Decides(r), running \subseteq running', r \in running',
           UNCHANGED <<failed, outcome, aborted>>, HedgeTypeOK',
           \A c \in Calls : timer'[c] = "aborted" => timer[c] = "aborted" \/ aborted,
           \A c \in Calls : timer[c] = "aborted" => timer'[c] = "aborted",
           \A c \in Calls : timer[c] = "fired" => timer'[c] = "fired"
    PROVE  HInv'
<1>1. Grows
  BY DEF Grows, Decides, HInv, HedgeTypeOK
<1>2. WinnersSettled'
  BY DEF Decides, HInv, WinnersSettled
<1>3. FutureBacked'
  BY <1>1, FutureKept DEF FutureBacked, HedgeTypeOK, Decides
<1>4. AbortBacked'
  BY DEF HInv, AbortBacked, Decides
<1>5. EndsAfterRace'
  BY <1>1, RaceFacts DEF HInv, EndsAfterRace, Grows
<1> QED
  BY <1>1, <1>2, <1>3, <1>4, <1>5, OutcomeKept DEF HInv

LEMMA CallStep ==
    ASSUME HInv, NEW c \in Calls, Call(c)
    PROVE  HInv'
<1>1. Decides(CallRace(c)) /\ CallRace(c) \notin running /\ running' = running \cup {CallRace(c)}
  BY StartDecides, RaceFacts DEF Call, HInv
<1>2. /\ timer' = [timer EXCEPT ![c] = IF aborted THEN "aborted" ELSE "armed"]
      /\ UNCHANGED <<failed, outcome, aborted>>
  BY DEF Call
<1>3. timer[c] = "none"
  BY <1>1 DEF HInv, HedgeTypeOK
<1>4. PoolRace(c) \notin running
  BY <1>3 DEF HInv, HedgeTypeOK
<1>5. HedgeTypeOK'
  BY <1>1, <1>2, <1>3, <1>4, RaceFacts DEF HInv, HedgeTypeOK, Decides
<1> QED
  BY <1>1, <1>2, <1>3, <1>5, RaceStep, RaceFacts DEF HInv, HedgeTypeOK

LEMMA TimerStep ==
    ASSUME HInv, NEW c \in Calls, TimerFires(c)
    PROVE  HInv'
<1>1. Decides(PoolRace(c)) /\ PoolRace(c) \notin running /\ running' = running \cup {PoolRace(c)}
  BY StartDecides, RaceFacts DEF TimerFires, HInv
<1>2. /\ timer[c] = "armed" /\ timer' = [timer EXCEPT ![c] = "fired"]
      /\ UNCHANGED <<failed, outcome, aborted>>
  BY DEF TimerFires
<1>3. HedgeTypeOK'
  BY <1>1, <1>2, RaceFacts DEF HInv, HedgeTypeOK, Decides
<1> QED
  BY <1>1, <1>2, <1>3, RaceStep, RaceFacts DEF HInv, HedgeTypeOK

LEMMA DecideStep ==
    ASSUME HInv, NEW r \in HedgeRaces, Decide(r)
    PROVE  HInv'
<1>1. Decides(r) /\ r \in running /\ running' = running
  BY DecideDecides DEF Decide, HInv
<1>2. UNCHANGED <<failed, timer, outcome, aborted>>
  BY DEF Decide
<1>3. HedgeTypeOK'
  BY <1>1, <1>2 DEF HInv, HedgeTypeOK, Decides
<1> QED
  BY <1>1, <1>2, <1>3, RaceStep

LEMMA CallGoesOnStep ==
    ASSUME HInv, NEW c \in Calls, CallGoesOn(c)
    PROVE  HInv'
<1>1. PICK p \in callWinner[CallRace(c)] :
         /\ outcome' = [outcome EXCEPT ![c] = IF p \in failed THEN "rejected" ELSE "fulfilled"]
         /\ IF p = Primary(c) /\ p \notin failed THEN CancelTimers ELSE UNCHANGED <<timer, aborted>>
  BY DEF CallGoesOn
<1>2. outcome[c] = "none" /\ UNCHANGED <<callSettled, running, callWinner, failed>>
  BY DEF CallGoesOn, raceVars
<1>3. p \in callSettled /\ p \in {Primary(c), Future(c)}
  BY RaceFacts DEF HInv, WinnersSettled
<1>4. ASSUME NEW d \in Calls
      PROVE  /\ timer'[d] = timer[d] \/ (timer[d] = "armed" /\ timer'[d] = "aborted" /\ aborted')
             /\ timer' \in [Calls -> {"none", "armed", "fired", "aborted"}]
             /\ aborted' \in BOOLEAN
  BY <1>1 DEF CancelTimers, HInv, HedgeTypeOK
<1>5. timer' \in [Calls -> {"none", "armed", "fired", "aborted"}] /\ aborted' \in BOOLEAN
  BY <1>4
<1>6. outcome' \in [Calls -> {"none", "fulfilled", "rejected"}]
  BY <1>1 DEF HInv, HedgeTypeOK
<1>7. HedgeTypeOK'
  BY <1>2, <1>4, <1>5, <1>6 DEF HInv, HedgeTypeOK
<1>8. WinnersSettled'
  BY <1>2 DEF HInv, WinnersSettled
<1>9. FutureBacked'
  BY <1>2, <1>4 DEF HInv, FutureBacked
<1>10. \A q \in callWinner[PoolRace(c)] : q \in Own(c)
  BY RaceFacts, PromiseFacts DEF HInv, WinnersSettled, Own
<1>11. p \notin failed => Own(c) \ failed # {}
  <2>1. CASE p = Primary(c)
    BY <1>3, <2>1, PromiseFacts DEF Own
  <2>2. CASE p = Future(c)
    BY <1>3, <1>10, <2>2 DEF HInv, FutureBacked
  <2> QED
    BY <1>3, <2>1, <2>2
<1>12. p \in failed => Own(c) \cap failed # {} \/ timer[c] = "aborted"
  <2>1. CASE p = Primary(c)
    BY <1>3, <2>1, PromiseFacts DEF Own
  <2>2. CASE p = Future(c)
    BY <1>3, <1>10, <2>2 DEF HInv, FutureBacked
  <2> QED
    BY <1>3, <2>1, <2>2
<1>13. aborted' = aborted \/ (aborted' /\ p = Primary(c) /\ p \notin failed)
  BY <1>1 DEF CancelTimers
<1>14. /\ \A d \in Calls \ {c} : outcome'[d] = outcome[d]
       /\ outcome'[c] = IF p \in failed THEN "rejected" ELSE "fulfilled"
  BY <1>1 DEF HInv, HedgeTypeOK
<1>15. AbortBacked'
  <2>1. \A d \in Calls : timer'[d] = "aborted" => aborted'
    BY <1>4, <1>13 DEF HInv, AbortBacked
  <2>2. ASSUME aborted'
        PROVE  \E d \in Calls : outcome'[d] = "fulfilled" /\ Primary(d) \in callSettled' \ failed'
    <3>1. CASE aborted
      BY <3>1, <1>2, <1>14 DEF HInv, AbortBacked
    <3>2. CASE p = Primary(c) /\ p \notin failed
      BY <3>2, <1>2, <1>3, <1>14
    <3> QED
      BY <3>1, <3>2, <2>2, <1>13
  <2> QED
    BY <2>1, <2>2 DEF AbortBacked
<1>16. p \notin failed => timer'[c] \in {"fired", "aborted"}
  <2>0. CallRace(c) \in running /\ timer[c] # "none"
    BY <1>1, RaceFacts DEF HInv, WinnersSettled, HedgeTypeOK
  <2>1. CASE p = Primary(c) /\ p \notin failed
    BY <1>1, <2>0, <2>1 DEF CancelTimers, HInv, HedgeTypeOK
  <2>2. CASE p = Future(c) /\ p \notin failed
    <3>1. callWinner[PoolRace(c)] # {}
      BY <1>3, <2>2 DEF HInv, FutureBacked
    <3>2. timer[c] = "fired"
      BY <3>1, RaceFacts DEF HInv, WinnersSettled, HedgeTypeOK
    <3> QED
      BY <3>2, <1>4
  <2> QED
    BY <1>3, <2>1, <2>2
<1>17. EndsAfterRace'
  BY <1>1, <1>2, <1>4, <1>14, <1>16 DEF HInv, EndsAfterRace
<1>18. \A d \in Calls : Own(d)' = Own(d)
  BY <1>2 DEF Own
<1>19. OutcomeJustified'
  <2>1. \A d \in Calls : outcome[d] # "none" => d # c
    BY <1>2
  <2>2. ASSUME NEW d \in Calls
        PROVE  /\ outcome'[d] = "fulfilled" => Own(d) \ failed # {}
               /\ outcome'[d] = "rejected" /\ Own(d) \cap failed = {} =>
                     \E e \in Calls \ {d} :
                        outcome'[e] = "fulfilled" /\ Primary(e) \in callSettled \ failed
    <3>1. CASE d = c
      BY <3>1, <1>11, <1>12, <1>14, <2>1 DEF HInv, AbortBacked
    <3>2. CASE d # c
      BY <3>2, <1>14, <2>1 DEF HInv, OutcomeJustified
    <3> QED
      BY <3>1, <3>2
  <2> QED
    BY <2>2, <1>2, <1>18 DEF OutcomeJustified
<1> QED
  BY <1>7, <1>8, <1>9, <1>15, <1>17, <1>19 DEF HInv

LEMMA HInvStep == HInv /\ [HedgeNext]_hedgeVars => HInv'
<1> SUFFICES ASSUME HInv, [HedgeNext]_hedgeVars
             PROVE  HInv'
  OBVIOUS
<1>1. CASE UNCHANGED hedgeVars
  BY <1>1 DEF hedgeVars, raceVars, HInv, HedgeTypeOK, WinnersSettled, FutureBacked, AbortBacked,
     EndsAfterRace, OutcomeJustified, Own
<1>2. ASSUME NEW c \in Calls, PrimarySettles(c)
      PROVE  HInv'
  BY <1>2, OwnSettles, PromiseFacts DEF PrimarySettles
<1>3. ASSUME NEW c \in Calls, NEW k \in Pool, HedgedSettles(c, k)
      PROVE  HInv'
  BY <1>3, OwnSettles, PromiseFacts DEF HedgedSettles
<1>4. ASSUME NEW c \in Calls, TimerRejects(c)
      PROVE  HInv'
  BY <1>4, FutureSettled DEF TimerRejects
<1>5. ASSUME NEW c \in Calls, FutureSettles(c)
      PROVE  HInv'
  <2>1. PICK p \in callWinner[PoolRace(c)] : Settles(Future(c), p \in failed)
    BY <1>5 DEF FutureSettles
  <2>2. UNCHANGED <<timer, outcome, aborted>>
    BY <1>5 DEF FutureSettles
  <2>3. CASE p \in failed
    <3>1. Settles(Future(c), TRUE)
      BY <2>1, <2>3 DEF Settles
    <3> QED
      BY <2>1, <2>2, <2>3, <3>1, FutureSettled
  <2>4. CASE p \notin failed
    <3>1. Settles(Future(c), FALSE)
      BY <2>1, <2>4 DEF Settles
    <3> QED
      BY <2>1, <2>2, <2>4, <3>1, FutureSettled
  <2> QED
    BY <2>3, <2>4
<1>6. ASSUME NEW c \in Calls, Decide(CallRace(c)) \/ Decide(PoolRace(c))
      PROVE  HInv'
  BY <1>6, DecideStep, RaceFacts
<1> QED
  BY <1>1, <1>2, <1>3, <1>4, <1>5, <1>6, CallStep, TimerStep, CallGoesOnStep
     DEF HedgeNext, Continuation

-----------------------------------------------------------------------------
(* Hedge: the theorems.                                                    *)

\* Every variable keeps its type; a call has a timer, and a pool once it has fired.
THEOREM HedgeTypeCorrect == HedgeSpec => []HedgeTypeOK
<1>1. HInv => HedgeTypeOK
  BY DEF HInv
<1> QED
  BY <1>1, HInvInit, HInvStep, PTL DEF HedgeSpec

\* A call fulfils with a result of its own, and rejects for an error of its own or
\* because another call's success has aborted its timer.
THEOREM OutcomeSafety == HedgeSpec => []OutcomeJustified
<1>1. HInv => OutcomeJustified
  BY DEF HInv
<1> QED
  BY <1>1, HInvInit, HInvStep, PTL DEF HedgeSpec

\* When a timer fires, a primary that has settled has been heard of; as the timer is
\* pending, the future has not settled, so the primary won, with an error.
LEMMA FiresUnsettled ==
    ASSUME HInv, NEW c \in Calls, TimerFires(c)
    PROVE  Primary(c) \notin callSettled \ failed
<1>1. SUFFICES ASSUME Primary(c) \in callSettled \ failed
               PROVE  FALSE
  OBVIOUS
<1>2. timer[c] = "armed" /\ CallRace(c) \in running /\ PoolRace(c) \notin running
  BY DEF TimerFires, HInv, HedgeTypeOK
<1>3. callWinner[CallRace(c)] # {} /\ outcome[c] # "none"
  BY <1>1, <1>2, RaceFacts DEF TimerFires, Quiet
<1>4. Future(c) \notin callSettled
  BY <1>2, RaceFacts DEF HInv, FutureBacked, WinnersSettled
<1>5. callWinner[CallRace(c)] \subseteq {Primary(c)}
  BY <1>4, RaceFacts DEF HInv, WinnersSettled
<1>6. outcome[c] = "rejected"
  BY <1>2, <1>3 DEF HInv, EndsAfterRace, HedgeTypeOK
<1> QED
  BY <1>1, <1>5, <1>6 DEF HInv, EndsAfterRace

\* The calls that start a pool of hedged functions have a primary that has not fulfilled.
LEMMA PoolStarts ==
    ASSUME HInv, [HedgeNext]_hedgeVars, NEW c \in Calls,
           Primary(c) \in callSettled \ failed, PoolRace(c) \notin running
    PROVE  PoolRace(c) \notin running'
<1>1. ASSUME NEW d \in Calls, Call(d)
      PROVE  PoolRace(c) \notin running'
  <2>1. running' = running \cup {CallRace(d)}
    BY <1>1 DEF Call, R!Start
  <2> QED
    BY <2>1, RaceFacts
<1>2. ASSUME NEW d \in Calls, TimerFires(d)
      PROVE  PoolRace(c) \notin running'
  <2>1. running' = running \cup {PoolRace(d)} /\ d # c
    BY <1>2, FiresUnsettled DEF TimerFires, R!Start
  <2> QED
    BY <2>1, RaceFacts
<1>3. ASSUME NEW d \in Calls,
             \/ PrimarySettles(d) \/ Continuation(d) \/ \E k \in Pool : HedgedSettles(d, k)
      PROVE  UNCHANGED running
  BY <1>3 DEF PrimarySettles, HedgedSettles, Settles, R!Settle, Continuation, TimerRejects,
     FutureSettles, CallGoesOn, Decide, R!Decide, raceVars
<1> QED
  BY <1>1, <1>2, <1>3 DEF HedgeNext, hedgeVars, raceVars

\* A call whose primary has fulfilled starts no hedged functions any more.
THEOREM HedgeStops == HedgeSpec => NoHedgeAfterSuccess
<1> DEFINE Stops == \A c \in Calls :
                       Primary(c) \in callSettled \ failed /\ PoolRace(c) \notin running =>
                           PoolRace(c) \notin running'
<1>1. HInv /\ [HedgeNext]_hedgeVars => Stops
  BY PoolStarts
<1> QED
  BY <1>1, HInvInit, HInvStep, PTL DEF HedgeSpec, NoHedgeAfterSuccess

\* A Hedge object does nothing to its races but what Race allows, so whatever implements
\* Race may stand for it: SafePromise does (SafePromiseImplements).
THEOREM HedgeRunsRaces == HedgeSpec => R!Spec
<1>1. HedgeInit => R!Init
  BY DEF HedgeInit
<1>2. ASSUME [HedgeNext]_hedgeVars
      PROVE  [R!Next]_(R!vars)
  <2>1. CASE UNCHANGED raceVars
    BY <2>1 DEF raceVars, R!vars
  <2>2. ASSUME NEW p \in HedgePromises, R!Settle(p)
        PROVE  R!Next
    BY <2>2 DEF R!Next
  <2>3. ASSUME NEW r \in HedgeRaces, R!Start(r) \/ R!Decide(r)
        PROVE  R!Next
    BY <2>3 DEF R!Next
  <2>4. ASSUME NEW c \in Calls
        PROVE  /\ CallRace(c) \in HedgeRaces /\ PoolRace(c) \in HedgeRaces
               /\ Primary(c) \in HedgePromises /\ Future(c) \in HedgePromises
               /\ \A k \in Pool : Hedged(c, k) \in HedgePromises
    BY PoolAssumption DEF HedgeRaces, HedgePromises, CallRace, PoolRace, Primary, Future, Hedged,
       Pool
  <2>5. ASSUME NEW c \in Calls,
               Call(c) \/ TimerFires(c) \/ Decide(CallRace(c)) \/ Decide(PoolRace(c))
        PROVE  R!Next
    BY <2>3, <2>4, <2>5 DEF Call, TimerFires, Decide
  <2>6. ASSUME NEW c \in Calls,
               \/ PrimarySettles(c) \/ TimerRejects(c) \/ FutureSettles(c)
               \/ \E k \in Pool : HedgedSettles(c, k)
        PROVE  R!Next
    BY <2>2, <2>4, <2>6 DEF PrimarySettles, TimerRejects, FutureSettles, HedgedSettles, Settles
  <2>7. ASSUME NEW c \in Calls, CallGoesOn(c)
        PROVE  UNCHANGED raceVars
    BY <2>7 DEF CallGoesOn
  <2>8. ASSUME HedgeNext, ~ UNCHANGED raceVars
        PROVE  R!Next
    BY <2>5, <2>6, <2>7, <2>8 DEF HedgeNext, Continuation
  <2>9. CASE ~ UNCHANGED raceVars
    BY <1>2, <2>8, <2>9 DEF hedgeVars
  <2> QED
    BY <2>1, <2>9
<1> QED
  BY <1>1, <1>2, PTL DEF HedgeSpec, R!Spec
=============================================================================
