----------------------------- MODULE ScopeProofs -----------------------------
(* What the scope-keyed parts guarantee.  ScopeStats: for every number of    *)
(* scopes, callers, commits, ticks and calls, for every cap and every age an *)
(* entry may reach.  Folders: for every set of agents, projects, names and   *)
(* records, every depth limit, every number of folders.  Recall: for every   *)
(* set of records, every store and every request.  Segments: for every text  *)
(* and every tokenizer whose reports the client accepts.                     *)
EXTENDS ScopeStats, Folders, Recall, Segments, OrderTheorems, SequenceTheorems

-----------------------------------------------------------------------------
(* The inductive invariant                                                  *)

Kept == [st : {"kept"}, value : Seq(Nat), generation : Nat, at : Nat]

CacheEntry == [scope : StatScopes, halves : [Halves -> Kept \cup {Unstamped}]]

Asking == [st : {"first"}, scope : StatScopes, half : Halves, floor : Nat, at : Nat, generation : Nat]
Between == [st : {"second"}, scope : StatScopes, half : Halves, floor : Nat, at : Nat, generation : Nat,
            value : Seq(Nat)]
AnsweredRead == [st : {"answered"}, floor : Nat, value : Seq(Nat)]

\* The cache, the calls in flight and the write seam hold values of these kinds,
\* and the map is within its cap.
StatsTypeOK ==
  /\ commits \in Seq(Nat) /\ settled \in Nat /\ generation \in Nat /\ clock \in Nat /\ asked \in Nat
  /\ writer \in [st : {"idle", "open", "committed"}, neutral : BOOLEAN, commit : Nat]
  /\ cache \in Seq(CacheEntry) /\ Len(cache) <= EntryCap
  /\ reads \in [Callers -> {NoRead} \cup Asking \cup Between \cup AnsweredRead]

\* A statement that saw n commits, of a read that noted the tick `at` and the
\* generation g before it: it saw every commit made before that tick, and while
\* no transaction of this process has returned since, every one that returned.
SawEnough(n, at, g) ==
  /\ \A i \in DOMAIN commits : commits[i] < at => i <= n
  /\ g = generation => settled <= n

\* Stamps lie in the past, and what is kept under them saw enough.
HalfOK(k) ==
  k # Unstamped =>
    /\ k.at <= clock /\ k.generation <= generation
    /\ Len(k.value) = 2
    /\ \A j \in 1..2 : SawEnough(k.value[j], k.at, k.generation)

ReadOK(r) ==
  /\ r.st \in {"first", "second"} =>
       r.at <= clock /\ r.generation <= generation /\ r.floor <= Len(commits)
  /\ r.st = "second" =>
       /\ Len(r.value) = 1 /\ r.value[1] >= r.floor
       /\ SawEnough(r.value[1], r.at, r.generation)
  /\ r.st = "answered" => \A i \in 1..2 : r.value[i] >= r.floor

\* A commit that has not been reported yet is one of those made; a neutral
\* transaction reports nothing new.
SeamOK ==
  /\ settled <= Len(commits)
  /\ writer.st = "committed" =>
       writer.commit <= Len(commits) /\ (writer.neutral => writer.commit = settled)

StatsInv ==
  /\ SeamOK
  /\ \A e \in DOMAIN cache, h \in Halves : HalfOK(cache[e].halves[h])
  /\ \A c \in Callers : ReadOK(reads[c])

USE ScopeStatsAssumption

-----------------------------------------------------------------------------
(* Facts about the operators                                                *)

\* A set of positions up to n has at most n members.
LEMMA PositionsCounted ==
  ASSUME NEW n \in Nat, NEW S, S \subseteq 1..n
  PROVE  Cardinality(S) \in Nat /\ Cardinality(S) <= n
<1>1. IsFiniteSet(1..n) /\ Cardinality(1..n) = n
  BY FS_Interval
<1> QED
  BY <1>1, FS_Subset, FS_CardinalityType

\* The floor of an answer is a number of commits made, and no more than n when n
\* counts the returned ones and all that are too old for an entry.
LEMMA FloorBounded ==
  ASSUME StatsTypeOK, SeamOK
  PROVE  /\ StaleFloor \in Nat /\ StaleFloor <= Len(commits)
         /\ \A n \in Nat : /\ settled <= n
                           /\ \A i \in DOMAIN commits : commits[i] + Ttl <= clock => i <= n
                           => StaleFloor <= n
<1> DEFINE old == {i \in DOMAIN commits : commits[i] + Ttl <= clock}
<1>1. Len(commits) \in Nat /\ DOMAIN commits = 1..Len(commits) /\ settled \in Nat /\ settled <= Len(commits)
  BY DEF StatsTypeOK, SeamOK
<1>2. Cardinality(old) \in Nat /\ Cardinality(old) <= Len(commits)
  BY <1>1, PositionsCounted
<1>3. ASSUME NEW n \in Nat, \A i \in DOMAIN commits : commits[i] + Ttl <= clock => i <= n
      PROVE  Cardinality(old) <= n
  <2>1. old \subseteq 1..n
    BY <1>1, <1>3
  <2> QED
    BY <2>1, PositionsCounted
<1> QED
  BY <1>1, <1>2, <1>3 DEF StaleFloor

\* A value put after those of a statement before it.
LEMMA Appended ==
  ASSUME NEW s \in Seq(Nat), NEW n \in Nat, NEW t, t = Append(s, n)
  PROVE  /\ Len(t) = Len(s) + 1
         /\ \A k \in 1..Len(t) : t[k] = IF k \in 1..Len(s) THEN s[k] ELSE n
  OBVIOUS

\* What a scope has in the map is a half of one of its entries.
LEMMA HalfFromCache ==
  ASSUME StatsTypeOK, NEW scope, NEW half \in Halves
  PROVE  \/ Half(scope, half) = Unstamped
         \/ \E e \in DOMAIN cache : Half(scope, half) = cache[e].halves[half]
<1>1. CASE Entry(scope) = {}
  BY <1>1 DEF Half
<1>2. CASE Entry(scope) # {}
  BY <1>2 DEF Half, Entry
<1> QED
  BY <1>1, <1>2

\* The eviction leaves a tail of the map no longer than the cap.
LEMMA EvictedTail ==
  ASSUME NEW entries \in Seq(CacheEntry), Len(entries) <= EntryCap + 1
  PROVE  /\ Evicted(entries) \in Seq(CacheEntry)
         /\ Len(Evicted(entries)) <= EntryCap
         /\ \A e \in DOMAIN Evicted(entries) : \E d \in DOMAIN entries : Evicted(entries)[e] = entries[d]
<1>1. CASE Len(entries) > EntryCap
  <2>1. Evicted(entries) = SubSeq(entries, 1 + (Len(entries) - EntryCap), Len(entries))
    BY <1>1 DEF Evicted
  <2>2. Len(entries) - EntryCap = 1
    BY <1>1
  <2>3. Evicted(entries) = SubSeq(entries, 2, Len(entries))
    BY <2>1, <2>2
  <2>4. \A i \in 2..Len(entries) : entries[i] \in CacheEntry
    OBVIOUS
  <2>5. /\ SubSeq(entries, 2, Len(entries)) \in Seq(CacheEntry)
        /\ Len(SubSeq(entries, 2, Len(entries))) = Len(entries) - 1
        /\ \A i \in 1..Len(entries) - 2 + 1 : SubSeq(entries, 2, Len(entries))[i] = entries[2 + i - 1]
    BY <2>4, <1>1, SubSeqProperties
  <2> QED
    BY <2>3, <2>5, <1>1
<1>2. CASE ~(Len(entries) > EntryCap)
  <2>1. Evicted(entries) = SubSeq(entries, 1, Len(entries))
    BY <1>2 DEF Evicted
  <2> QED
    BY <2>1, <1>2
<1> QED
  BY <1>1, <1>2

\* _store changes one half at most, only for the current generation, and keeps the
\* map within its cap.
LEMMA StoredHalves ==
  ASSUME StatsTypeOK,
         NEW scope \in StatScopes, NEW half \in Halves, NEW kept \in Kept,
         NEW new, new = Stored(scope, half, kept)
  PROVE  /\ new \in Seq(CacheEntry) /\ Len(new) <= EntryCap
         /\ \A e \in DOMAIN new, h \in Halves :
              \/ new[e].halves[h] = kept /\ kept.generation = generation
              \/ new[e].halves[h] = Unstamped
              \/ \E d \in DOMAIN cache : new[e].halves[h] = cache[d].halves[h]
<1>0. cache \in Seq(CacheEntry) /\ Len(cache) <= EntryCap
  BY DEF StatsTypeOK
<1>1. CASE ~CacheEnabled \/ kept.generation # generation
  BY <1>0, <1>1 DEF Stored
<1>2. CASE ~(~CacheEnabled \/ kept.generation # generation) /\ Entry(scope) # {}
  <2>1. new = [i \in DOMAIN cache |->
          IF cache[i].scope = scope THEN [cache[i] EXCEPT !.halves[half] = kept] ELSE cache[i]]
    BY <1>2 DEF Stored
  <2>2. \A i \in DOMAIN cache : cache[i] \in CacheEntry
    BY <1>0
  <2>3. ASSUME NEW i \in DOMAIN cache
        PROVE  /\ new[i] \in CacheEntry
               /\ \A h \in Halves : new[i].halves[h] \in {kept, cache[i].halves[h]}
    BY <2>1, <2>2 DEF CacheEntry
  <2>4. DOMAIN new = 1..Len(cache) /\ Len(cache) \in Nat
    BY <1>0, <2>1
  <2>5. new \in Seq(CacheEntry) /\ Len(new) = Len(cache)
    BY <1>0, <2>1, <2>3, <2>4
  <2> QED
    BY <2>3, <2>4, <2>5, <1>0, <1>2
<1>3. CASE ~(~CacheEnabled \/ kept.generation # generation) /\ Entry(scope) = {}
  <2> DEFINE e0 == [scope |-> scope, halves |-> [h \in Halves |-> IF h = half THEN kept ELSE Unstamped]]
             more == Append(cache, e0)
  <2>1. new = Evicted(more)
    BY <1>3 DEF Stored
  <2>2. e0 \in CacheEntry
    BY DEF CacheEntry
  <2>3. more \in Seq(CacheEntry) /\ Len(more) = Len(cache) + 1
    BY <1>0, <2>2
  <2>4. \A e \in DOMAIN more : more[e] = e0 \/ \E d \in DOMAIN cache : more[e] = cache[d]
    BY <1>0, <2>3
  <2>5. \A h \in Halves : e0.halves[h] \in {kept, Unstamped}
    OBVIOUS
  <2>6. Len(more) <= EntryCap + 1
    BY <2>3, <1>0
  <2> HIDE DEF e0, more
  <2>7. /\ new \in Seq(CacheEntry) /\ Len(new) <= EntryCap
        /\ \A e \in DOMAIN new : \E d \in DOMAIN more : new[e] = more[d]
    BY <2>1, <2>3, <2>6, EvictedTail
  <2>8. kept.generation = generation
    BY <1>3
  <2>9. ASSUME NEW e \in DOMAIN new
        PROVE  new[e] = e0 \/ \E d \in DOMAIN cache : new[e] = cache[d]
    BY <2>4, <2>7
  <2> QED
    BY <2>5, <2>7, <2>8, <2>9, Zenon
<1> QED
  BY <1>1, <1>2, <1>3

-----------------------------------------------------------------------------
(* Types                                                                    *)

\* An empty cache has its type.
LEMMA StatsTypeInit == StatsInit => StatsTypeOK
<1> SUFFICES ASSUME StatsInit PROVE StatsTypeOK
  OBVIOUS
<1>1. <<>> \in Seq(Nat) /\ <<>> \in Seq(CacheEntry) /\ Len(<<>>) = 0
  OBVIOUS
<1> QED
  BY <1>1 DEF StatsInit, StatsTypeOK, NoWriter

\* What the second statement stores and answers.
LEMMA SecondRead ==
  ASSUME StatsTypeOK, NEW c \in Callers, reads[c].st = "second"
  PROVE  /\ reads[c] \in Between
         /\ Append(reads[c].value, Len(commits)) \in Seq(Nat)
         /\ [st |-> "kept", value |-> Append(reads[c].value, Len(commits)),
             generation |-> reads[c].generation, at |-> reads[c].at] \in Kept
<1>1. reads[c] \in Between
  BY DEF StatsTypeOK, NoRead, Asking, Between, AnsweredRead
<1>2. Len(commits) \in Nat
  BY DEF StatsTypeOK
<1>3. reads[c].value \in Seq(Nat) /\ reads[c].generation \in Nat /\ reads[c].at \in Nat
  BY <1>1 DEF Between
<1>4. Append(reads[c].value, Len(commits)) \in Seq(Nat)
  BY <1>2, <1>3
<1> QED
  BY <1>1, <1>3, <1>4 DEF Kept

\* Every step keeps the types.
LEMMA StatsTypeStep ==
  ASSUME StatsTypeOK, SeamOK, [StatsNext]_statsVars
  PROVE  StatsTypeOK'
<1> USE DEF StatsTypeOK
<1>1. ASSUME NEW neutral \in BOOLEAN, BeginWrite(neutral)
      PROVE  StatsTypeOK'
  BY <1>1 DEF BeginWrite, NoWriter
<1>2. CASE CommitWrite
  <2>1. Append(commits, clock) \in Seq(Nat) /\ Len(Append(commits, clock)) \in Nat
    OBVIOUS
  <2>2. commits' \in Seq(Nat) /\ Len(commits') \in Nat
    BY <1>2, <2>1 DEF CommitWrite
  <2> QED
    BY <1>2, <2>2 DEF CommitWrite
<1>3. CASE ReturnWrite
  BY <1>3 DEF ReturnWrite, Bump, NoWriter
<1>4. CASE AbandonWrite
  BY <1>4 DEF AbandonWrite, NoWriter
<1>5. CASE ForeignCommit
  BY <1>5 DEF ForeignCommit
<1>6. CASE Tick
  BY <1>6 DEF Tick
<1>7. ASSUME NEW c \in Callers, NEW scope \in StatScopes, NEW half \in Halves, Ask(c, scope, half)
      PROVE  StatsTypeOK'
  <2>1. StaleFloor \in Nat
    BY FloorBounded
  <2>2. Half(scope, half) \in Kept \cup {Unstamped}
    <3>1. \A e \in DOMAIN cache : cache[e] \in CacheEntry
      OBVIOUS
    <3>2. \A e \in DOMAIN cache : cache[e].halves[half] \in Kept \cup {Unstamped}
      BY <3>1 DEF CacheEntry
    <3> QED
      BY <3>2, HalfFromCache
  <2>3. Fresh(Half(scope, half)) => Half(scope, half).value \in Seq(Nat)
    BY <2>2 DEF Fresh, Kept, Unstamped
  <2>4. reads'[c] \in Asking \cup AnsweredRead
    BY <1>7, <2>1, <2>3 DEF Ask, Asking, AnsweredRead
  <2>5. /\ \A d \in Callers \ {c} : reads'[d] = reads[d]
        /\ DOMAIN reads' = Callers
    BY <1>7 DEF Ask
  <2>6. reads' \in [Callers -> {NoRead} \cup Asking \cup Between \cup AnsweredRead]
    BY <1>7, <2>4, <2>5 DEF Ask
  <2> QED
    BY <1>7, <2>6 DEF Ask
<1>8. ASSUME NEW c \in Callers, FirstStatement(c)
      PROVE  StatsTypeOK'
  <2>1. reads[c] \in Asking
    BY <1>8 DEF FirstStatement, NoRead, Asking, Between, AnsweredRead
  <2>2. <<Len(commits)>> \in Seq(Nat)
    OBVIOUS
  <2>3. [st |-> "second", scope |-> reads[c].scope, half |-> reads[c].half, floor |-> reads[c].floor,
         at |-> reads[c].at, generation |-> reads[c].generation, value |-> <<Len(commits)>>] \in Between
    BY <2>1, <2>2 DEF Asking, Between
  <2> QED
    BY <1>8, <2>3 DEF FirstStatement
<1>9. ASSUME NEW c \in Callers, SecondStatement(c)
      PROVE  StatsTypeOK'
  <2> DEFINE value == Append(reads[c].value, Len(commits))
             kept == [st |-> "kept", value |-> value, generation |-> reads[c].generation, at |-> reads[c].at]
  <2>1. reads[c] \in Between /\ value \in Seq(Nat) /\ kept \in Kept
    BY <1>9, SecondRead DEF SecondStatement
  <2>2. reads[c].scope \in StatScopes /\ reads[c].half \in Halves /\ reads[c].floor \in Nat
    BY <2>1 DEF Between
  <2>3. cache' = Stored(reads[c].scope, reads[c].half, kept)
    BY <1>9 DEF SecondStatement
  <2>4. [st |-> "answered", floor |-> reads[c].floor, value |-> value] \in AnsweredRead
    BY <2>1, <2>2 DEF AnsweredRead
  <2>5. reads' = [reads EXCEPT ![c] = [st |-> "answered", floor |-> reads[c].floor, value |-> value]]
    BY <1>9 DEF SecondStatement
  <2> HIDE DEF value, kept
  <2>6. cache' \in Seq(CacheEntry) /\ Len(cache') <= EntryCap
    BY <2>1, <2>2, <2>3, StoredHalves
  <2>7. reads' \in [Callers -> {NoRead} \cup Asking \cup Between \cup AnsweredRead]
    BY <2>4, <2>5
  <2> QED
    BY <1>9, <2>6, <2>7 DEF SecondStatement
<1>10. ASSUME NEW c \in Callers, LeaveStats(c)
       PROVE  StatsTypeOK'
  BY <1>10 DEF LeaveStats
<1>11. CASE UNCHANGED statsVars
  BY <1>11 DEF statsVars
<1> QED
  BY <1>1, <1>2, <1>3, <1>4, <1>5, <1>6, <1>7, <1>8, <1>9, <1>10, <1>11 DEF StatsNext

-----------------------------------------------------------------------------
(* Staleness                                                                *)

\* An empty cache is stamped truly.
LEMMA StatsInvInit == StatsInit => StatsInv
  BY DEF StatsInit, StatsInv, SeamOK, NoWriter, ReadOK, NoRead

\* A commit of any process is made at the present tick, so it is before no stamp.
LEMMA CommitKeeps ==
  ASSUME StatsTypeOK, StatsInv, commits' = Append(commits, clock),
         UNCHANGED <<settled, generation, clock, cache, reads>>
  PROVE  /\ \A e \in DOMAIN cache, h \in Halves : HalfOK(cache[e].halves[h])'
         /\ \A c \in Callers : ReadOK(reads[c])'
<1>1. /\ Len(commits) \in Nat /\ Len(commits') = Len(commits) + 1
      /\ DOMAIN commits' = 1..Len(commits) + 1 /\ DOMAIN commits = 1..Len(commits)
      /\ \A i \in DOMAIN commits : commits'[i] = commits[i]
      /\ commits'[Len(commits) + 1] = clock
  BY DEF StatsTypeOK
<1>2. ASSUME NEW n, NEW at \in Nat, NEW g, at <= clock, SawEnough(n, at, g)
      PROVE  SawEnough(n, at, g)'
  BY <1>1, <1>2 DEF SawEnough, StatsTypeOK
<1>3. ASSUME NEW e \in DOMAIN cache, NEW h \in Halves
      PROVE  HalfOK(cache[e].halves[h])'
  <2>1. cache[e].halves[h] # Unstamped => cache[e].halves[h].at \in Nat
    <3>1. cache[e] \in CacheEntry
      BY DEF StatsTypeOK
    <3> QED
      BY <3>1 DEF CacheEntry, Kept
  <2>2. HalfOK(cache[e].halves[h])
    BY DEF StatsInv
  <2> QED
    BY <1>2, <2>1, <2>2 DEF HalfOK
<1>4. ASSUME NEW c \in Callers
      PROVE  ReadOK(reads[c])'
  <2>1. reads[c].st = "second" => reads[c].at \in Nat
    BY DEF StatsTypeOK, NoRead, Asking, Between, AnsweredRead
  <2>2. reads[c].st \in {"first", "second"} => reads[c].floor \in Nat
    BY DEF StatsTypeOK, NoRead, Asking, Between, AnsweredRead
  <2>3. ReadOK(reads[c])
    BY DEF StatsInv
  <2> QED
    BY <1>1, <1>2, <2>1, <2>2, <2>3 DEF ReadOK
<1> QED
  BY <1>3, <1>4

\* The return of a transaction that moved an aggregate leaves every stamp of the
\* generation behind; a neutral one reports nothing.
LEMMA ReturnKeeps ==
  ASSUME StatsTypeOK, StatsInv, ReturnWrite
  PROVE  /\ \A e \in DOMAIN cache, h \in Halves : HalfOK(cache[e].halves[h])'
         /\ \A c \in Callers : ReadOK(reads[c])'
<1>1. \/ generation' = generation /\ settled' = settled
      \/ generation' = generation + 1
  BY DEF ReturnWrite, Bump, StatsTypeOK, StatsInv, SeamOK
<1>2. UNCHANGED <<commits, clock, cache, reads>> /\ generation \in Nat
  BY DEF ReturnWrite, StatsTypeOK
<1>3. ASSUME NEW n, NEW at, NEW g \in Nat, g <= generation, SawEnough(n, at, g)
      PROVE  SawEnough(n, at, g)' /\ g <= generation'
  BY <1>1, <1>2, <1>3 DEF SawEnough
<1>4. ASSUME NEW e \in DOMAIN cache, NEW h \in Halves
      PROVE  HalfOK(cache[e].halves[h])'
  <2>1. cache[e].halves[h] # Unstamped => cache[e].halves[h].generation \in Nat
    <3>1. cache[e] \in CacheEntry
      BY DEF StatsTypeOK
    <3> QED
      BY <3>1 DEF CacheEntry, Kept
  <2>2. HalfOK(cache[e].halves[h])
    BY DEF StatsInv
  <2> QED
    BY <1>2, <1>3, <2>1, <2>2 DEF HalfOK
<1>5. ASSUME NEW c \in Callers
      PROVE  ReadOK(reads[c])'
  <2>1. reads[c].st \in {"first", "second"} => reads[c].generation \in Nat
    BY DEF StatsTypeOK, NoRead, Asking, Between, AnsweredRead
  <2>2. ReadOK(reads[c])
    BY DEF StatsInv
  <2> QED
    BY <1>1, <1>2, <1>3, <2>1, <2>2 DEF ReadOK
<1> QED
  BY <1>4, <1>5

\* A call answered from the map: the kept half is of this generation and younger
\* than an entry may grow, so what it saw covers the floor of the call.
LEMMA FreshCovers ==
  ASSUME StatsTypeOK, StatsInv, NEW scope \in StatScopes, NEW half \in Halves, Fresh(Half(scope, half))
  PROVE  \A j \in 1..2 : Half(scope, half).value[j] >= StaleFloor
<1> DEFINE k == Half(scope, half)
<1>1. k # Unstamped
  BY DEF Fresh, Unstamped
<1>2. PICK e \in DOMAIN cache : k = cache[e].halves[half]
  BY <1>1, HalfFromCache
<1>3. cache[e] \in CacheEntry
  BY DEF StatsTypeOK
<1>4. k \in Kept
  BY <1>1, <1>2, <1>3 DEF CacheEntry
<1>5. HalfOK(k)
  BY <1>2 DEF StatsInv
<1>6. SeamOK
  BY DEF StatsInv
<1> SUFFICES ASSUME NEW j \in 1..2
             PROVE  k.value[j] >= StaleFloor
  OBVIOUS
<1>7. k.value \in Seq(Nat) /\ Len(k.value) = 2 /\ k.at \in Nat /\ k.at <= clock /\ SawEnough(k.value[j], k.at, k.generation)
  BY <1>1, <1>4, <1>5 DEF HalfOK, Kept
<1>8. k.value[j] \in Nat
  BY <1>7
<1>9. clock - k.at < Ttl /\ k.generation = generation
  BY DEF Fresh
<1> HIDE DEF k
<1>10. settled <= k.value[j]
  BY <1>7, <1>9 DEF SawEnough
<1>11. \A i \in DOMAIN commits : commits[i] + Ttl <= clock => i <= k.value[j]
  <2>1. ASSUME NEW i \in DOMAIN commits, commits[i] + Ttl <= clock
        PROVE  commits[i] < k.at
    <3>1. commits[i] \in Nat /\ clock \in Nat /\ Ttl \in Nat /\ k.at \in Nat
      BY <1>7, ScopeStatsAssumption, SMTT(30) DEF StatsTypeOK
    <3> QED
      BY <1>9, <2>1, <3>1
  <2> QED
    BY <1>7, <2>1 DEF SawEnough
<1>12. StaleFloor \in Nat /\ StaleFloor <= k.value[j]
  BY <1>6, <1>8, <1>10, <1>11, FloorBounded
<1> QED
  BY <1>8, <1>12

\* Every step keeps the stamps true.
LEMMA StatsInvStep ==
  ASSUME StatsTypeOK, StatsTypeOK', StatsInv, [StatsNext]_statsVars
  PROVE  StatsInv'
<1>0. Len(commits) \in Nat /\ generation \in Nat /\ clock \in Nat /\ settled \in Nat /\ SeamOK
  BY DEF StatsTypeOK, StatsInv
<1>1. ASSUME NEW neutral \in BOOLEAN, BeginWrite(neutral)
      PROVE  StatsInv'
  BY <1>1 DEF BeginWrite, NoWriter, StatsInv, SeamOK, HalfOK, ReadOK, SawEnough
<1>2. CASE CommitWrite
  <2>1. CASE writer.neutral
    <3>1. commits' = commits /\ writer'.commit = settled /\ UNCHANGED <<settled, generation, clock, cache, reads>>
      BY <1>2, <2>1 DEF CommitWrite, StatsTypeOK
    <3> QED
      BY <3>1 DEF StatsInv, SeamOK, HalfOK, ReadOK, SawEnough
  <2>2. CASE ~writer.neutral
    <3>1. /\ commits' = Append(commits, clock) /\ UNCHANGED <<settled, generation, clock, cache, reads>>
          /\ writer'.commit = Len(commits') /\ ~writer'.neutral
      BY <1>2, <2>2 DEF CommitWrite, StatsTypeOK
    <3>2. SeamOK'
      BY <1>0, <3>1 DEF SeamOK, StatsTypeOK
    <3> QED
      BY <3>1, <3>2, CommitKeeps DEF StatsInv
  <2> QED
    BY <2>1, <2>2
<1>3. CASE ReturnWrite
  <2>1. SeamOK'
    BY <1>0, <1>3 DEF ReturnWrite, NoWriter, SeamOK
  <2> QED
    BY <1>3, <2>1, ReturnKeeps DEF StatsInv, ReturnWrite
<1>4. CASE AbandonWrite
  BY <1>4 DEF AbandonWrite, NoWriter, StatsInv, SeamOK, HalfOK, ReadOK, SawEnough
<1>5. CASE ForeignCommit
  <2>1. SeamOK'
    BY <1>0, <1>5 DEF ForeignCommit, SeamOK, StatsTypeOK
  <2> QED
    BY <1>5, <2>1, CommitKeeps DEF StatsInv, ForeignCommit
<1>6. CASE Tick
  <2>1. clock' = clock + 1 /\ UNCHANGED <<commits, settled, writer, generation, cache, reads>>
    BY <1>6 DEF Tick
  <2>2. SeamOK'
    BY <1>0, <2>1 DEF SeamOK
  <2>3. ASSUME NEW e \in DOMAIN cache, NEW h \in Halves
        PROVE  HalfOK(cache[e].halves[h])'
    <3>1. cache[e].halves[h] # Unstamped => cache[e].halves[h].at \in Nat
      <4>1. cache[e] \in CacheEntry
        BY DEF StatsTypeOK
      <4> QED
        BY <4>1 DEF CacheEntry, Kept
    <3> QED
      BY <1>0, <2>1, <3>1 DEF StatsInv, HalfOK, SawEnough
  <2>4. ASSUME NEW c \in Callers
        PROVE  ReadOK(reads[c])'
    <3>0. reads[c] \in {NoRead} \cup Asking \cup Between \cup AnsweredRead
      BY DEF StatsTypeOK
    <3>1. reads[c].st \in {"first", "second"} => reads[c].at \in Nat
      BY <3>0 DEF NoRead, Asking, Between, AnsweredRead
    <3> QED
      BY <1>0, <2>1, <3>1 DEF StatsInv, ReadOK, SawEnough
  <2> QED
    BY <2>1, <2>2, <2>3, <2>4 DEF StatsInv
<1>7. ASSUME NEW c \in Callers, NEW scope \in StatScopes, NEW half \in Halves, Ask(c, scope, half)
      PROVE  StatsInv'
  <2>1. UNCHANGED <<commits, settled, writer, generation, clock, cache>>
    BY <1>7 DEF Ask
  <2>2. StaleFloor \in Nat /\ StaleFloor <= Len(commits)
    BY <1>0, FloorBounded
  <2>3. \/ reads'[c] = [st |-> "answered", floor |-> StaleFloor, value |-> Half(scope, half).value]
           /\ Fresh(Half(scope, half))
        \/ reads'[c] = [st |-> "first", scope |-> scope, half |-> half, floor |-> StaleFloor,
                        at |-> clock, generation |-> generation]
    BY <1>7 DEF Ask, StatsTypeOK
  <2>4. ReadOK(reads[c])'
    BY <1>0, <2>1, <2>2, <2>3, FreshCovers DEF ReadOK
  <2>5. \A d \in Callers \ {c} : reads'[d] = reads[d]
    BY <1>7 DEF Ask, StatsTypeOK
  <2>6. \A d \in Callers : ReadOK(reads[d])'
    BY <2>1, <2>4, <2>5 DEF StatsInv, ReadOK, SawEnough
  <2> QED
    BY <2>1, <2>6 DEF StatsInv, SeamOK, HalfOK, SawEnough
<1>8. ASSUME NEW c \in Callers, FirstStatement(c)
      PROVE  StatsInv'
  <2>1. UNCHANGED <<commits, settled, writer, generation, clock, cache>>
    BY <1>8 DEF FirstStatement
  <2>2. reads[c] \in Asking /\ ReadOK(reads[c])
    BY <1>8 DEF FirstStatement, NoRead, Asking, Between, AnsweredRead, StatsTypeOK, StatsInv
  <2>3. reads'[c] = [st |-> "second", scope |-> reads[c].scope, half |-> reads[c].half, floor |-> reads[c].floor,
                     at |-> reads[c].at, generation |-> reads[c].generation, value |-> <<Len(commits)>>]
    BY <1>8 DEF FirstStatement, StatsTypeOK
  <2>4. \A i \in DOMAIN commits : i <= Len(commits)
    BY DEF StatsTypeOK
  <2>5. SawEnough(Len(commits), reads[c].at, reads[c].generation)
    BY <1>0, <2>4 DEF SawEnough, SeamOK
  <2>6. ReadOK(reads[c])'
    BY <1>0, <2>1, <2>2, <2>3, <2>5 DEF ReadOK, Asking, SawEnough
  <2>7. \A d \in Callers \ {c} : reads'[d] = reads[d]
    BY <1>8 DEF FirstStatement, StatsTypeOK
  <2>8. \A d \in Callers : ReadOK(reads[d])'
    BY <2>1, <2>6, <2>7 DEF StatsInv, ReadOK, SawEnough
  <2> QED
    BY <2>1, <2>8 DEF StatsInv, SeamOK, HalfOK, SawEnough
<1>9. ASSUME NEW c \in Callers, SecondStatement(c)
      PROVE  StatsInv'
  <2> DEFINE value == Append(reads[c].value, Len(commits))
             kept == [st |-> "kept", value |-> value, generation |-> reads[c].generation, at |-> reads[c].at]
  <2>1. UNCHANGED <<commits, settled, writer, generation, clock>>
    BY <1>9 DEF SecondStatement
  <2>2. reads[c] \in Between /\ kept \in Kept
    BY <1>9, SecondRead DEF SecondStatement
  <2>3. ReadOK(reads[c]) /\ reads[c].st = "second"
    BY <1>9 DEF StatsInv, SecondStatement
  <2>4. reads[c].value \in Seq(Nat) /\ Len(reads[c].value) = 1
    BY <2>2, <2>3 DEF Between, ReadOK
  <2>5. value[1] = reads[c].value[1] /\ value[2] = Len(commits) /\ Len(value) = 2
    <3>0. reads[c].value \in Seq(Nat) /\ value = Append(reads[c].value, Len(commits))
      BY <2>4
    <3> HIDE DEF value
    <3>1. /\ Len(value) = Len(reads[c].value) + 1
          /\ \A k \in 1..Len(value) : value[k] = IF k \in 1..Len(reads[c].value) THEN reads[c].value[k] ELSE Len(commits)
      BY <3>0, <1>0, Appended
    <3> QED
      BY <2>4, <3>1
  <2>6. \A i \in DOMAIN commits : i <= Len(commits)
    BY DEF StatsTypeOK
  <2>7. \A j \in 1..2 : SawEnough(value[j], reads[c].at, reads[c].generation)
    BY <1>0, <2>3, <2>5, <2>6 DEF SawEnough, SeamOK, ReadOK
  <2>8. cache' = Stored(reads[c].scope, reads[c].half, kept)
    BY <1>9 DEF SecondStatement
  <2>9. reads' = [reads EXCEPT ![c] = [st |-> "answered", floor |-> reads[c].floor, value |-> value]]
    BY <1>9 DEF SecondStatement
  <2>10. HalfOK(kept)
    BY <2>3, <2>5, <2>7 DEF HalfOK, ReadOK
  <2>11. \A j \in 1..2 : value[j] >= reads[c].floor
    BY <2>3, <2>5 DEF ReadOK
  <2>12. reads[c].scope \in StatScopes /\ reads[c].half \in Halves
    BY <2>2 DEF Between
  <2> HIDE DEF value, kept
  <2>13. \A e \in DOMAIN cache', h \in Halves : HalfOK(cache'[e].halves[h])
    <3>1. \A e \in DOMAIN cache', h \in Halves :
              \/ cache'[e].halves[h] = kept
              \/ cache'[e].halves[h] = Unstamped
              \/ \E d \in DOMAIN cache : cache'[e].halves[h] = cache[d].halves[h]
      BY <2>2, <2>8, <2>12, StoredHalves
    <3>2. HalfOK(Unstamped)
      BY DEF HalfOK
    <3> QED
      BY <2>10, <3>1, <3>2 DEF StatsInv
  <2>14. \A e \in DOMAIN cache', h \in Halves : HalfOK(cache[e].halves[h])'
    BY <2>1, <2>13 DEF HalfOK, SawEnough
  <2>15. \A d \in Callers : ReadOK(reads[d])'
    <3>1. reads'[c] = [st |-> "answered", floor |-> reads[c].floor, value |-> value]
      BY <2>9 DEF StatsTypeOK
    <3>2. \A d \in Callers \ {c} : reads'[d] = reads[d]
      BY <2>9 DEF StatsTypeOK
    <3>3. ReadOK(reads[c])'
      BY <2>11, <3>1 DEF ReadOK
    <3> QED
      BY <2>1, <3>2, <3>3 DEF StatsInv, ReadOK, SawEnough
  <2> QED
    BY <2>1, <2>14, <2>15 DEF StatsInv, SeamOK
<1>10. ASSUME NEW c \in Callers, LeaveStats(c)
       PROVE  StatsInv'
  <2>1. UNCHANGED <<commits, settled, writer, generation, clock, cache>>
    BY <1>10 DEF LeaveStats
  <2>2. reads'[c] = NoRead /\ \A d \in Callers \ {c} : reads'[d] = reads[d]
    BY <1>10 DEF LeaveStats, StatsTypeOK
  <2>3. ReadOK(reads[c])'
    BY <2>2 DEF ReadOK, NoRead
  <2>4. \A d \in Callers : ReadOK(reads[d])'
    BY <2>1, <2>2, <2>3 DEF StatsInv, ReadOK, SawEnough
  <2> QED
    BY <2>1, <2>4 DEF StatsInv, SeamOK, HalfOK, SawEnough
<1>11. CASE UNCHANGED statsVars
  BY <1>11 DEF statsVars, StatsInv, SeamOK, HalfOK, ReadOK, SawEnough
<1> QED
  BY <1>1, <1>2, <1>3, <1>4, <1>5, <1>6, <1>7, <1>8, <1>9, <1>10, <1>11 DEF StatsNext

\* The cache, the calls in flight and the write seam keep their shapes and the map
\* its cap, and every kept half and every read under way is as fresh as its stamps
\* say: the inductive invariant of scope_stats.py over transaction().
THEOREM StampsTellFreshness == StatsSpec => [](StatsTypeOK /\ StatsInv)
<1>1. StatsInit => StatsTypeOK /\ StatsInv
  BY StatsTypeInit, StatsInvInit
<1>2. StatsTypeOK /\ StatsInv /\ [StatsNext]_statsVars => (StatsTypeOK /\ StatsInv)'
  BY StatsTypeStep, StatsInvStep DEF StatsInv
<1> QED
  BY <1>1, <1>2, PTL DEF StatsSpec

\* However many writers, readers and processes there are: no answer of scope_counts
\* or scope_span misses a commit reported done before the call, or one older than
\* SCOPE_STATS_TTL_SECONDS, and _cache never holds more than SCOPE_CACHE_ENTRY_CAP.
THEOREM AnswersKeepUp == StatsSpec => []AggregatesKeepUp
<1>1. StatsTypeOK /\ StatsInv => AggregatesKeepUp
  BY DEF StatsTypeOK, StatsInv, ReadOK, AggregatesKeepUp
<1> QED
  BY <1>1, StampsTellFreshness, PTL

----------------------------------------------------------------------------
(* Folders: the inductive invariant.                                       *)
HIDE ScopeStatsAssumption

Folder == [scope : Scopes, parent : Nat, name : FolderNames]
Nodes(fs) == {0} \cup DOMAIN fs

\* Each folder one step below its parent, and none more than `cap` steps down: there are
\* such numbers for a tree, and for nothing that runs in a circle.
Ranks(fs, cap) ==
    {d \in [Nodes(fs) -> 0..cap] : d[0] = 0 /\ \A f \in DOMAIN fs : d[f] = d[fs[f].parent] + 1}

\* The folders are a tree within each scope, whose siblings have distinct names.
IsForest(fs, top, cap) ==
    /\ fs \in [DOMAIN fs -> Folder] /\ DOMAIN fs \subseteq 1..top
    /\ \A f \in DOMAIN fs : /\ fs[f].parent \in Nodes(fs)
                            /\ fs[f].parent # 0 => fs[fs[f].parent].scope = fs[f].scope
    /\ \A f, g \in DOMAIN fs : fs[f] = fs[g] => f = g
    /\ Ranks(fs, cap) # {}

\* A record is filed in a folder that exists, of its own scope.
FiledRight(fs, m, sc) ==
    \A r \in FolderRecords : m[r] # 0 => m[r] \in DOMAIN fs /\ sc[r] = fs[m[r]].scope

FoldersTypeOK ==
    /\ handed \in Nat
    /\ member \in [FolderRecords -> 0..handed]
    /\ scopeOf \in [FolderRecords -> Scopes \cup {NoScope}]
    /\ depthLimit \in 1..Ceiling /\ deepest \in depthLimit..Ceiling
    /\ triggers \in BOOLEAN /\ lapse \in BOOLEAN

FoldersInv ==
    /\ FoldersTypeOK
    /\ IsForest(folders, handed, deepest)
    /\ ~lapse => triggers /\ FiledRight(folders, member, scopeOf)

----------------------------------------------------------------------------
(* Folders: the line of a folder up to the root.                           *)

\* A line is a walk of Ceiling + 1 steps from each folder to its parent.
LEMMA LineIsWalk ==
    ASSUME FoldersInv, NEW f \in Nodes(folders)
    PROVE  \E w \in [0..Ceiling + 1 -> Nodes(folders)] :
              /\ w[0] = f /\ \A n \in 1..Ceiling + 1 : w[n] = ParentOf(w[n - 1])
              /\ Line(f) = {w[n] : n \in 0..Ceiling + 1}
<1> DEFINE D == Nodes(folders)
           N == Ceiling + 1
           step == [n \in 1..N |-> [g \in D |-> ParentOf(g)]]
<1>1. N \in Nat
  BY FoldersAssumption
<1>2. \A g \in D : ParentOf(g) \in D
  BY DEF FoldersInv, IsForest, Nodes, ParentOf
<1>3. step \in [1..N -> [D -> D]]
  BY <1>2
<1>4. PICK w \in [0..N -> D] : w[0] = f /\ \A n \in 1..N : w[n] = step[n][w[n - 1]]
  <2> HIDE DEF step, D, N
  <2>1. f \in D
    BY DEF D
  <2> QED
    BY <1>1, <1>3, <2>1, WalkExists
<1>5. ASSUME NEW n \in 1..N  PROVE w[n] = ParentOf(w[n - 1])
  <2>1. n - 1 \in 0..N
    BY <1>1
  <2>2. w[n - 1] \in D
    BY <2>1, <1>4
  <2> QED
    BY <2>2, <1>4
<1> DEFINE IsUp(up) == up = [n \in 0..Ceiling + 1 |-> IF n = 0 THEN f ELSE ParentOf(up[n - 1])]
           theUp == CHOOSE up : IsUp(up)
<1>6. IsUp(w)
  <2>1. \A n \in 0..N : w[n] = IF n = 0 THEN f ELSE ParentOf(w[n - 1])
    BY <1>1, <1>4, <1>5
  <2> QED
    BY <2>1, <1>4
<1>7. IsUp(theUp)
  BY <1>6
<1>8. Line(f) = {theUp[n] : n \in 0..Ceiling + 1}
  BY DEF Line
<1> HIDE DEF theUp
<1>9. theUp \in [0..N -> D] /\ theUp[0] = f /\ \A n \in 1..N : theUp[n] = ParentOf(theUp[n - 1])
  <2> DEFINE same == {n \in 0..N : theUp[n] = w[n]}
  <2>1. 0 \in same
    BY <1>1, <1>4, <1>7
  <2>2. ASSUME NEW n \in 1..N, n - 1 \in same  PROVE n \in same
    <3>1. n \in 0..N /\ n # 0 /\ theUp[n - 1] = w[n - 1]
      BY <1>1, <2>2
    <3>2. theUp[n] = ParentOf(theUp[n - 1])
      BY <3>1, <1>7
    <3> QED
      BY <3>1, <3>2, <1>5
  <2>3. \A n \in 0..N : theUp[n] = w[n]
    <3>1. \A n \in 0..N : n \in same
      <4> HIDE DEF same, N
      <4> QED
        BY <1>1, <2>1, <2>2, StepByStep
    <3> QED
      BY <3>1
  <2>4. theUp = w
    <3> QED
      BY <1>4, <1>7, <2>3
  <2> QED
    BY <2>4, <1>4, <1>5
<1> QED
  BY <1>8, <1>9

\* What a rank is.
LEMMA RankFacts ==
    ASSUME FoldersInv, NEW d \in Ranks(folders, deepest)
    PROVE  /\ d \in [Nodes(folders) -> 0..Ceiling] /\ d[0] = 0
           /\ \A f \in Nodes(folders) : d[f] \in Nat /\ d[f] <= deepest
           /\ \A f \in DOMAIN folders : /\ ParentOf(f) = folders[f].parent
                                        /\ ParentOf(f) \in Nodes(folders)
                                        /\ d[f] = d[ParentOf(f)] + 1
                                        /\ f # 0 /\ f \in Nodes(folders) /\ d[f] # 0
           /\ ParentOf(0) = 0 /\ 0 \in Nodes(folders) /\ 0 \notin DOMAIN folders
<1>1. deepest \in Nat /\ Ceiling \in Nat /\ deepest <= Ceiling
  BY FoldersAssumption DEF FoldersInv, FoldersTypeOK
<1>2. /\ d \in [Nodes(folders) -> 0..deepest] /\ d[0] = 0
      /\ \A f \in DOMAIN folders : d[f] = d[folders[f].parent] + 1
  BY DEF Ranks
<1>3. \A f \in DOMAIN folders : folders[f].parent \in Nodes(folders)
  BY DEF FoldersInv, IsForest
<1>4. 0 \notin DOMAIN folders
  BY DEF FoldersInv, IsForest
<1>5. \A f \in Nodes(folders) : d[f] \in 0..deepest
  BY <1>2
<1>6. d \in [Nodes(folders) -> 0..Ceiling]
  BY <1>1, <1>2, <1>5
<1>7. \A f \in Nodes(folders) : d[f] \in Nat /\ d[f] <= deepest
  BY <1>1, <1>5
<1>8. ASSUME NEW f \in DOMAIN folders
      PROVE  /\ ParentOf(f) = folders[f].parent
             /\ ParentOf(f) \in Nodes(folders)
             /\ d[f] = d[ParentOf(f)] + 1
             /\ f # 0 /\ f \in Nodes(folders) /\ d[f] # 0
  <2>1. ParentOf(f) = folders[f].parent /\ ParentOf(f) \in Nodes(folders)
    BY <1>3 DEF ParentOf
  <2>2. d[f] = d[ParentOf(f)] + 1 /\ d[ParentOf(f)] \in Nat
    BY <1>2, <1>7, <2>1
  <2>3. d[f] # 0
    BY <2>2
  <2> QED
    BY <2>1, <2>2, <2>3, <1>4 DEF Nodes
<1>9. ParentOf(0) = 0 /\ 0 \in Nodes(folders)
  BY <1>4 DEF ParentOf, Nodes
<1> QED
  BY <1>2, <1>4, <1>6, <1>7, <1>8, <1>9

\* After as many steps as the ceiling a walk is at the root.
LEMMA WalkEnds ==
    ASSUME FoldersInv, NEW w \in [0..Ceiling + 1 -> Nodes(folders)],
           \A n \in 1..Ceiling + 1 : w[n] = ParentOf(w[n - 1])
    PROVE  w[Ceiling] = 0 /\ w[Ceiling + 1] = 0
<1>1. PICK d \in Ranks(folders, deepest) : TRUE
  BY DEF FoldersInv, IsForest
<1>2. Ceiling \in Nat
  BY FoldersAssumption
<1>3. /\ d \in [Nodes(folders) -> 0..Ceiling] /\ d[0] = 0
      /\ \A f \in Nodes(folders) : d[f] \in Nat
      /\ \A f \in DOMAIN folders : d[f] = d[ParentOf(f)] + 1 /\ d[f] # 0
      /\ ParentOf(0) = 0
  BY <1>1, RankFacts
<1> DEFINE low == {n \in 0..Ceiling : w[n] = 0 \/ d[w[n]] + n <= Ceiling}
<1>4. 0 \in low
  BY <1>2, <1>3
<1>5. ASSUME NEW n \in 1..Ceiling, n - 1 \in low  PROVE n \in low
  <2>1. n \in 0..Ceiling /\ n - 1 \in 0..Ceiling + 1 /\ n \in 1..Ceiling + 1
    BY <1>2
  <2>2. w[n] = ParentOf(w[n - 1]) /\ w[n - 1] \in Nodes(folders) /\ w[n] \in Nodes(folders)
    BY <1>2, <2>1
  <2>3. CASE w[n - 1] = 0
    BY <2>1, <2>2, <2>3, <1>3
  <2>4. CASE w[n - 1] # 0
    <3>1. d[w[n - 1]] = d[w[n]] + 1
      BY <2>2, <2>4, <1>3 DEF Nodes
    <3>2. d[w[n - 1]] + (n - 1) <= Ceiling
      BY <1>5, <2>4
    <3>3. d[w[n]] \in Nat
      BY <2>2, <1>3
    <3>4. d[w[n]] + n <= Ceiling
      BY <3>1, <3>2, <3>3, <1>2
    <3> QED
      BY <2>1, <3>4
  <2> QED
    BY <2>3, <2>4
<1>6. \A n \in 0..Ceiling : n \in low
  <2> HIDE DEF low
  <2> QED
    BY <1>2, <1>4, <1>5, StepByStep
<1>7. w[Ceiling] \in Nodes(folders) /\ (w[Ceiling] = 0 \/ d[w[Ceiling]] + Ceiling <= Ceiling)
  BY <1>2, <1>6
<1>8. w[Ceiling] = 0
  <2>1. d[w[Ceiling]] \in Nat
    BY <1>3, <1>7
  <2>2. w[Ceiling] = 0 \/ d[w[Ceiling]] = 0
    BY <1>2, <1>7, <2>1
  <2> QED
    BY <2>2, <1>3, <1>7 DEF Nodes
<1>9. w[Ceiling + 1] = ParentOf(w[Ceiling])
  <2>1. Ceiling + 1 \in 1..Ceiling + 1 /\ (Ceiling + 1) - 1 = Ceiling
    BY <1>2
  <2> QED
    BY <2>1
<1> QED
  BY <1>3, <1>8, <1>9

\* The line of the root is the root, and a folder's is the folder and its parent's line.
LEMMA LineSteps ==
    ASSUME FoldersInv
    PROVE  /\ Line(0) = {0}
           /\ \A f \in DOMAIN folders : Line(f) = {f} \cup Line(ParentOf(f))
<1> DEFINE N == Ceiling + 1
<1>1. Ceiling \in Nat /\ N \in Nat
  BY FoldersAssumption
<1>2. PICK d \in Ranks(folders, deepest) : TRUE
  BY DEF FoldersInv, IsForest
<1>3. /\ \A f \in DOMAIN folders : f \in Nodes(folders) /\ ParentOf(f) \in Nodes(folders)
      /\ ParentOf(0) = 0 /\ 0 \in Nodes(folders)
  BY <1>2, RankFacts
<1>4. Line(0) = {0}
  <2>1. PICK w \in [0..N -> Nodes(folders)] :
            /\ w[0] = 0 /\ \A n \in 1..N : w[n] = ParentOf(w[n - 1])
            /\ Line(0) = {w[n] : n \in 0..N}
    BY <1>3, LineIsWalk
  <2> DEFINE root == {n \in 0..N : w[n] = 0}
  <2>2. 0 \in root
    BY <1>1, <2>1
  <2>3. ASSUME NEW n \in 1..N, n - 1 \in root  PROVE n \in root
    BY <1>1, <1>3, <2>1, <2>3
  <2>4. \A n \in 0..N : n \in root
    <3> HIDE DEF root, N
    <3> QED
      BY <1>1, <2>2, <2>3, StepByStep
  <2>5. \A n \in 0..N : w[n] = 0
    BY <2>4
  <2>6. 0 \in 0..N
    BY <1>1
  <2> HIDE DEF N
  <2> QED
    BY <2>1, <2>5, <2>6
<1>5. ASSUME NEW f \in DOMAIN folders  PROVE Line(f) = {f} \cup Line(ParentOf(f))
  <2>1. PICK w \in [0..N -> Nodes(folders)] :
            /\ w[0] = f /\ \A n \in 1..N : w[n] = ParentOf(w[n - 1])
            /\ Line(f) = {w[n] : n \in 0..N}
    BY <1>3, LineIsWalk
  <2>2. PICK v \in [0..N -> Nodes(folders)] :
            /\ v[0] = ParentOf(f) /\ \A n \in 1..N : v[n] = ParentOf(v[n - 1])
            /\ Line(ParentOf(f)) = {v[n] : n \in 0..N}
    BY <1>3, LineIsWalk
  <2> DEFINE behind == {n \in 0..Ceiling : v[n] = w[n + 1]}
  <2>3. 0 \in behind
    <3>1. 1 \in 1..N /\ 1 - 1 = 0 /\ 0 + 1 = 1
      BY <1>1
    <3>2. w[1] = ParentOf(f)
      BY <2>1, <3>1
    <3> QED
      BY <1>1, <2>2, <3>1, <3>2
  <2>4. ASSUME NEW n \in 1..Ceiling, n - 1 \in behind  PROVE n \in behind
    <3>1. n \in 1..N /\ n + 1 \in 1..N /\ (n + 1) - 1 = n /\ n \in 0..Ceiling
      BY <1>1
    <3>2. v[n - 1] = w[n]
      BY <1>1, <2>4
    <3>3. v[n] = ParentOf(v[n - 1]) /\ w[n + 1] = ParentOf(w[n])
      BY <2>1, <2>2, <3>1
    <3> QED
      BY <3>1, <3>2, <3>3
  <2>5. \A n \in 0..Ceiling : v[n] = w[n + 1]
    <3>1. \A n \in 0..Ceiling : n \in behind
      <4> HIDE DEF behind
      <4> QED
        BY <1>1, <2>3, <2>4, StepByStep
    <3> QED
      BY <3>1
  <2>6. v[N] = 0 /\ w[N] = 0
    BY <2>1, <2>2, WalkEnds
  <2>7. ASSUME NEW n \in 0..N  PROVE w[n] \in {f} \cup Line(ParentOf(f))
    <3>1. CASE n = 0
      BY <3>1, <2>1
    <3>2. CASE n # 0
      <4>1. n - 1 \in 0..Ceiling /\ n - 1 \in 0..N /\ (n - 1) + 1 = n
        BY <3>2, <1>1
      <4>2. v[n - 1] = w[n]
        BY <4>1, <2>5
      <4> HIDE DEF N
      <4> QED
        BY <4>1, <4>2, <2>2
    <3> QED
      BY <3>1, <3>2
  <2>8. f \in Line(f)
    <3>1. 0 \in 0..N
      BY <1>1
    <3> HIDE DEF N
    <3> QED
      BY <3>1, <2>1
  <2>9. ASSUME NEW n \in 0..N  PROVE v[n] \in Line(f)
    <3>1. CASE n = N
      <4>1. N \in 0..N
        BY <1>1
      <4> HIDE DEF N
      <4> QED
        BY <3>1, <4>1, <2>1, <2>6
    <3>2. CASE n # N
      <4>1. n \in 0..Ceiling /\ n + 1 \in 0..N
        BY <3>2, <1>1
      <4>2. v[n] = w[n + 1]
        BY <4>1, <2>5
      <4> HIDE DEF N
      <4> QED
        BY <4>1, <4>2, <2>1
    <3> QED
      BY <3>1, <3>2
  <2> HIDE DEF N
  <2> QED
    BY <2>1, <2>2, <2>7, <2>8, <2>9
<1> QED
  BY <1>4, <1>5

\* What a line is, by induction on the rank of its folder.
OnLine(f, d) ==
    /\ Line(f) \subseteq Nodes(folders) /\ IsFiniteSet(Line(f))
    /\ f \in Line(f) /\ 0 \in Line(f)
    /\ Cardinality(Line(f) \ {0}) = d[f]
    /\ \A g \in Line(f) : /\ d[g] <= d[f] /\ (d[g] = d[f] => g = f)
                          /\ Line(g) \subseteq Line(f)
                          /\ g # 0 => f # 0 /\ folders[g].scope = folders[f].scope
                          /\ g # f => \E k \in Line(f) : k \in DOMAIN folders /\ ParentOf(k) = g
    /\ \A g, h \in Line(f) : d[g] = d[h] => g = h

LEMMA LineFacts ==
    ASSUME FoldersInv, NEW d \in Ranks(folders, deepest)
    PROVE  \A f \in Nodes(folders) : OnLine(f, d)
<1> DEFINE known == {n \in 0..deepest : \A f \in Nodes(folders) : d[f] = n => OnLine(f, d)}
<1>1. deepest \in Nat
  BY FoldersAssumption DEF FoldersInv, FoldersTypeOK
<1>2. /\ d[0] = 0
      /\ \A f \in Nodes(folders) : d[f] \in Nat /\ d[f] <= deepest
      /\ \A f \in DOMAIN folders : /\ ParentOf(f) = folders[f].parent
                                   /\ ParentOf(f) \in Nodes(folders)
                                   /\ d[f] = d[ParentOf(f)] + 1
                                   /\ f # 0 /\ f \in Nodes(folders) /\ d[f] # 0
      /\ ParentOf(0) = 0 /\ 0 \in Nodes(folders) /\ 0 \notin DOMAIN folders
  BY RankFacts
<1>3. 0 \in known
  <2>1. OnLine(0, d)
    <3>1. Line(0) = {0}
      BY LineSteps
    <3>2. Line(0) \ {0} = {}
      BY <3>1
    <3>3. Cardinality(Line(0) \ {0}) = 0
      BY <3>2, FS_EmptySet
    <3>4. IsFiniteSet(Line(0))
      BY <3>1, FS_Singleton
    <3> QED
      BY <3>1, <3>3, <3>4, <1>2 DEF OnLine
  <2>2. \A f \in Nodes(folders) : d[f] = 0 => f = 0
    BY <1>2 DEF Nodes
  <2> QED
    BY <2>1, <2>2, <1>1
<1>4. ASSUME NEW n \in 1..deepest, n - 1 \in known  PROVE n \in known
  <2>1. SUFFICES ASSUME NEW f \in Nodes(folders), d[f] = n  PROVE OnLine(f, d)
    BY <1>1
  <2>2. f \in DOMAIN folders
    BY <2>1, <1>1, <1>2 DEF Nodes
  <2> DEFINE p == ParentOf(f)
  <2>3. p \in Nodes(folders) /\ d[f] = d[p] + 1 /\ d[p] \in Nat /\ d[p] = n - 1
    BY <2>1, <2>2, <1>1, <1>2
  <2>4. OnLine(p, d)
    BY <1>4, <2>3
  <2>5. Line(f) = {f} \cup Line(p)
    BY <2>2, LineSteps
  <2>6. p # 0 => folders[p].scope = folders[f].scope
    BY <2>2, <1>2 DEF FoldersInv, IsForest
  <2> HIDE DEF p
  <2>7. \A g \in Line(p) : d[g] \in Nat /\ d[g] <= d[p] /\ d[g] < d[f]
    BY <2>3, <2>4, <1>2 DEF OnLine
  <2>8. f \notin Line(p) /\ f # 0
    BY <2>2, <2>7, <2>3, <1>2
  <2>9. IsFiniteSet(Line(f)) /\ Cardinality(Line(f) \ {0}) = d[f]
    <3>1. Line(f) \ {0} = (Line(p) \ {0}) \cup {f}
      BY <2>5, <2>8
    <3>2. IsFiniteSet(Line(p)) /\ IsFiniteSet(Line(p) \ {0}) /\ Cardinality(Line(p) \ {0}) = d[p]
      BY <2>4, FS_Subset, Line(p) \ {0} \subseteq Line(p) DEF OnLine
    <3>3. Cardinality(Line(f) \ {0}) = d[p] + 1
      BY <3>1, <3>2, <2>8, FS_AddElement
    <3>4. IsFiniteSet(Line(p) \cup {f})
      BY <3>2, FS_AddElement
    <3>5. Line(p) \cup {f} = Line(f)
      BY <2>5
    <3> QED
      BY <3>3, <3>4, <3>5, <2>3
  <2>10. /\ Line(f) \subseteq Nodes(folders) /\ f \in Line(f) /\ 0 \in Line(f)
    BY <2>4, <2>5 DEF OnLine
  <2>11. ASSUME NEW g \in Line(f)
         PROVE  /\ d[g] <= d[f] /\ (d[g] = d[f] => g = f)
                /\ Line(g) \subseteq Line(f)
                /\ g # 0 => f # 0 /\ folders[g].scope = folders[f].scope
                /\ g # f => \E k \in Line(f) : k \in DOMAIN folders /\ ParentOf(k) = g
    <3>1. CASE g = f
      BY <3>1, <2>3, <2>8
    <3>2. CASE g # f
      <4>1. g \in Line(p)
        BY <3>2, <2>5
      <4>2. d[g] <= d[f] /\ d[g] # d[f]
        BY <4>1, <2>3, <2>7
      <4>3. Line(g) \subseteq Line(f)
        BY <4>1, <2>4, <2>5 DEF OnLine
      <4>4. g # 0 => f # 0 /\ folders[g].scope = folders[f].scope
        BY <4>1, <2>4, <2>6, <2>8 DEF OnLine
      <4>5. \E k \in Line(f) : k \in DOMAIN folders /\ ParentOf(k) = g
        <5>1. CASE g = p
          BY <5>1, <2>2, <2>10 DEF p
        <5>2. CASE g # p
          BY <5>2, <4>1, <2>4, <2>5 DEF OnLine
        <5> QED
          BY <5>1, <5>2
      <4> QED
        BY <4>2, <4>3, <4>4, <4>5
    <3> QED
      BY <3>1, <3>2
  <2>12. ASSUME NEW g \in Line(f), NEW h \in Line(f), d[g] = d[h]  PROVE g = h
    <3>1. CASE g = f \/ h = f
      BY <3>1, <2>11, <2>12
    <3>2. CASE g # f /\ h # f
      BY <3>2, <2>4, <2>5, <2>12 DEF OnLine
    <3> QED
      BY <3>1, <3>2
  <2> QED
    BY <2>9, <2>10, <2>11, <2>12 DEF OnLine
<1>5. \A n \in 0..deepest : n \in known
  <2> HIDE DEF known
  <2> QED
    BY <1>1, <1>3, <1>4, StepByStep
<1> TAKE f \in Nodes(folders)
<1>6. d[f] \in 0..deepest
  BY <1>1, <1>2
<1> QED
  BY <1>5, <1>6

----------------------------------------------------------------------------
(* Folders: paths.                                                         *)

\* The folders of one name in some folders.
Named(fs, s, S, name) == UNION {Child(fs, s, p, name) : p \in S}

\* What each beginning of a path names.
IsDescent(fs, s, path, w) ==
    /\ w[0] = {0}
    /\ \A n \in 1..Len(path) : w[n] = Named(fs, s, w[n - 1], path[n])
    /\ Resolve(fs, s, path) = w[Len(path)]

\* The folder a path names is the one its last name has in the folder the rest names.
LEMMA ResolveIsWalk ==
    ASSUME NEW fs, NEW s, NEW path \in Seq(FolderNames)
    PROVE  \E w : IsDescent(fs, s, path, w)
<1> DEFINE N == Len(path)
           D == SUBSET Nodes(fs)
           step == [n \in 1..N |-> [S \in D |-> Named(fs, s, S, path[n])]]
<1>1. N \in Nat
  OBVIOUS
<1>2. \A n \in 1..N : \A S \in D : Named(fs, s, S, path[n]) \in D
  BY DEF Named, Child, Nodes
<1>3. step \in [1..N -> [D -> D]]
  BY <1>2
<1>31. {0} \in D
  BY DEF Nodes
<1>4. PICK w \in [0..N -> D] : w[0] = {0} /\ \A n \in 1..N : w[n] = step[n][w[n - 1]]
  <2> DEFINE a == {0}
  <2> HIDE DEF step, D, N
  <2>1. a \in D
    BY <1>31
  <2> HIDE DEF a
  <2>2. \E w \in [0..N -> D] : w[0] = a /\ \A n \in 1..N : w[n] = step[n][w[n - 1]]
    BY <1>1, <1>3, <2>1, WalkExists
  <2> QED
    BY <2>2 DEF a
<1>5. ASSUME NEW n \in 1..N  PROVE w[n] = Named(fs, s, w[n - 1], path[n])
  <2>1. n - 1 \in 0..N
    BY <1>1
  <2>2. w[n - 1] \in D
    BY <2>1, <1>4
  <2> QED
    BY <2>2, <1>4
<1> DEFINE IsAt(at) == at = [n \in 0..Len(path) |->
                              IF n = 0 THEN {0} ELSE Named(fs, s, at[n - 1], path[n])]
           theAt == CHOOSE at : IsAt(at)
<1>6. IsAt(w)
  <2>1. \A n \in 0..N : w[n] = IF n = 0 THEN {0} ELSE Named(fs, s, w[n - 1], path[n])
    BY <1>1, <1>4, <1>5
  <2> QED
    BY <2>1, <1>4
<1>7. IsAt(theAt)
  BY <1>6
<1>8. Resolve(fs, s, path) = theAt[Len(path)]
  BY DEF Resolve, Named
<1> HIDE DEF theAt
<1>9. theAt[0] = {0}
  BY <1>1, <1>7
<1>10. ASSUME NEW n \in 1..N  PROVE theAt[n] = Named(fs, s, theAt[n - 1], path[n])
  <2>1. n \in 0..N /\ n # 0
    BY <1>1
  <2> QED
    BY <2>1, <1>7
<1> QED
  BY <1>8, <1>9, <1>10 DEF IsDescent

LEMMA ResolveSteps ==
    ASSUME NEW fs, NEW s, NEW path \in Seq(FolderNames)
    PROVE  /\ Resolve(fs, s, SubSeq(path, 1, 0)) = {0}
           /\ \A n \in 1..Len(path) :
                Resolve(fs, s, SubSeq(path, 1, n))
                  = Named(fs, s, Resolve(fs, s, SubSeq(path, 1, n - 1)), path[n])
           /\ Resolve(fs, s, SubSeq(path, 1, Len(path))) = Resolve(fs, s, path)
<1> DEFINE part(n) == SubSeq(path, 1, n)
<1>1. \A n \in 0..Len(path) : /\ part(n) \in Seq(FolderNames) /\ Len(part(n)) = n
                              /\ \A k \in 1..n : part(n)[k] = path[k]
  OBVIOUS
<1>2. ASSUME NEW k \in 0..Len(path), NEW w, w[0] = {0},
             \A n \in 1..k : w[n] = Named(fs, s, w[n - 1], path[n])
      PROVE  Resolve(fs, s, part(k)) = w[k]
  <2> HIDE DEF part
  <2>1. PICK v : IsDescent(fs, s, part(k), v)
    <3>1. part(k) \in Seq(FolderNames)
      BY <1>1
    <3> QED
      BY <3>1, ResolveIsWalk
  <2>2. Len(part(k)) = k /\ \A n \in 1..k : part(k)[n] = path[n]
    BY <1>1
  <2>3. \A n \in 1..k : v[n] = Named(fs, s, v[n - 1], path[n])
    BY <2>1, <2>2 DEF IsDescent
  <2> DEFINE same == {n \in 0..k : v[n] = w[n]}
  <2>0. k \in Nat
    OBVIOUS
  <2>4. 0 \in same
    <3>1. v[0] = w[0]
      BY <1>2, <2>1 DEF IsDescent
    <3> QED
      BY <2>0, <3>1
  <2>5. ASSUME NEW n \in 1..k, n - 1 \in same  PROVE n \in same
    <3>1. n \in 0..k /\ v[n - 1] = w[n - 1]
      BY <2>0, <2>5
    <3>2. v[n] = Named(fs, s, v[n - 1], path[n]) /\ w[n] = Named(fs, s, w[n - 1], path[n])
      BY <1>2, <2>3
    <3> QED
      BY <3>1, <3>2
  <2>6. \A n \in 0..k : n \in same
    <3> HIDE DEF same
    <3> QED
      BY <2>0, <2>4, <2>5, StepByStep
  <2>7. v[k] = w[k]
    BY <2>0, <2>6
  <2> QED
    BY <2>1, <2>2, <2>7 DEF IsDescent
<1>3. PICK w : IsDescent(fs, s, path, w)
  BY ResolveIsWalk
<1>4. \A k \in 0..Len(path) : Resolve(fs, s, part(k)) = w[k]
  <2> TAKE k \in 0..Len(path)
  <2>1. \A n \in 1..k : w[n] = Named(fs, s, w[n - 1], path[n])
    BY <1>3 DEF IsDescent
  <2> HIDE DEF part
  <2> QED
    BY <1>2, <1>3, <2>1 DEF IsDescent
<1>5. \A n \in 1..Len(path) : n \in 0..Len(path) /\ n - 1 \in 0..Len(path)
  OBVIOUS
<1>6. 0 \in 0..Len(path) /\ Len(path) \in 0..Len(path)
  OBVIOUS
<1>7. Resolve(fs, s, part(0)) = {0} /\ Resolve(fs, s, part(Len(path))) = Resolve(fs, s, path)
  <2> HIDE DEF part
  <2> QED
    BY <1>3, <1>4, <1>6 DEF IsDescent
<1>8. \A n \in 1..Len(path) :
        Resolve(fs, s, part(n)) = Named(fs, s, Resolve(fs, s, part(n - 1)), path[n])
  <2> TAKE n \in 1..Len(path)
  <2>1. Resolve(fs, s, part(n)) = w[n] /\ Resolve(fs, s, part(n - 1)) = w[n - 1]
    BY <1>4, <1>5
  <2> HIDE DEF part
  <2> QED
    BY <1>3, <2>1 DEF IsDescent
<1> QED
  BY <1>7, <1>8

\* A path names at most one folder, of the scope, as many steps down as the path is long.
LEMMA ResolveFacts ==
    ASSUME FoldersInv, NEW d \in Ranks(folders, deepest),
           NEW s, NEW path \in Seq(FolderNames), NEW n \in 0..Len(path)
    PROVE  LET found == Resolve(folders, s, SubSeq(path, 1, n))
           IN  /\ \A f \in found : /\ f \in Nodes(folders) /\ d[f] = n
                                   /\ f # 0 => f \in DOMAIN folders /\ folders[f].scope = s
                                                /\ folders[f].name = path[n]
               /\ \A f, g \in found : f = g
<1> DEFINE part(k) == Resolve(folders, s, SubSeq(path, 1, k))
           fits(f, k) == /\ f \in Nodes(folders) /\ d[f] = k
                         /\ f # 0 => f \in DOMAIN folders /\ folders[f].scope = s
                                     /\ folders[f].name = path[k]
           known == {k \in 0..n : /\ \A f \in part(k) : fits(f, k)
                                  /\ \A f, g \in part(k) : f = g}
<1>1. n \in Nat /\ n <= Len(path) /\ Len(path) \in Nat
  OBVIOUS
<1>2. /\ part(0) = {0}
      /\ \A k \in 1..Len(path) : part(k) = Named(folders, s, part(k - 1), path[k])
  BY ResolveSteps
<1>3. /\ d[0] = 0 /\ 0 \in Nodes(folders)
      /\ \A f \in DOMAIN folders : d[f] = d[folders[f].parent] + 1 /\ f # 0 /\ f \in Nodes(folders)
  BY RankFacts
<1>4. \A f, g \in DOMAIN folders : folders[f] = folders[g] => f = g
  BY DEF FoldersInv, IsForest
<1> HIDE DEF part
<1>5. 0 \in known
  BY <1>1, <1>2, <1>3
<1>6. ASSUME NEW k \in 1..n, k - 1 \in known  PROVE k \in known
  <2>1. k \in 1..Len(path) /\ k \in 0..n /\ k \in Nat
    BY <1>1
  <2>2. \A p \in part(k - 1) : d[p] = k - 1
    BY <1>6
  <2>3. ASSUME NEW f \in part(k)  PROVE fits(f, k)
    <3>1. PICK p \in part(k - 1) : f \in Child(folders, s, p, path[k])
      BY <1>2, <2>1 DEF Named
    <3>2. f \in DOMAIN folders /\ folders[f] = [scope |-> s, parent |-> p, name |-> path[k]]
      BY <3>1 DEF Child
    <3>3. folders[f].parent = p /\ folders[f].scope = s /\ folders[f].name = path[k]
      BY <3>2
    <3>4. d[f] = (k - 1) + 1
      BY <1>3, <2>2, <3>1, <3>2, <3>3
    <3> QED
      BY <1>3, <2>1, <3>2, <3>3, <3>4
  <2>4. ASSUME NEW f \in part(k), NEW g \in part(k)  PROVE f = g
    <3>1. PICK p \in part(k - 1) : f \in Child(folders, s, p, path[k])
      BY <1>2, <2>1 DEF Named
    <3>2. PICK q \in part(k - 1) : g \in Child(folders, s, q, path[k])
      BY <1>2, <2>1 DEF Named
    <3>3. p = q
      BY <1>6
    <3> QED
      BY <3>1, <3>2, <3>3, <1>4 DEF Child
  <2> HIDE DEF fits
  <2> QED
    BY <2>1, <2>3, <2>4
<1>7. n \in known
  <2>1. \A k \in 0..n : k \in known
    <3> HIDE DEF known
    <3> QED
      BY <1>1, <1>5, <1>6, StepByStep
  <2> QED
    BY <1>1, <2>1
<1> QED
  BY <1>7 DEF part

----------------------------------------------------------------------------
(* Folders: the invariant says what the property says.                     *)

LEMMA NoScopeIsNone == NoScope \notin Scopes
<1>1. \A s \in Scopes : DOMAIN s = 1..2
  BY DEF Scopes
<1>2. DOMAIN NoScope # 1..2
  <2>1. DOMAIN NoScope = 1..0
    BY DEF NoScope
  <2>2. 1 \in 1..2 /\ 1 \notin 1..0
    OBVIOUS
  <2> QED
    BY <2>1, <2>2
<1> QED
  BY <1>1, <1>2

LEMMA TreeHolds ==
    ASSUME FoldersInv, NEW f \in DOMAIN folders
    PROVE  /\ f \notin Line(ParentOf(f)) /\ 0 \in Line(f)
           /\ ParentOf(f) # 0 => ParentOf(f) \in DOMAIN folders
                                 /\ folders[ParentOf(f)].scope = folders[f].scope
           /\ Depth(f) <= deepest
           /\ Child(folders, folders[f].scope, folders[f].parent, folders[f].name) = {f}
<1>1. PICK d \in Ranks(folders, deepest) : TRUE
  BY DEF FoldersInv, IsForest
<1>2. /\ ParentOf(f) = folders[f].parent /\ ParentOf(f) \in Nodes(folders)
      /\ d[f] = d[ParentOf(f)] + 1 /\ f \in Nodes(folders)
      /\ d[f] \in Nat /\ d[ParentOf(f)] \in Nat /\ d[f] <= deepest
  BY <1>1, RankFacts
<1>3. OnLine(f, d) /\ OnLine(ParentOf(f), d)
  BY <1>1, <1>2, LineFacts
<1>4. f \notin Line(ParentOf(f))
  <2>1. \A g \in Line(ParentOf(f)) : d[g] <= d[ParentOf(f)]
    BY <1>3 DEF OnLine
  <2>2. ~(d[f] <= d[ParentOf(f)])
    BY <1>2
  <2> QED
    BY <2>1, <2>2
<1>5. 0 \in Line(f) /\ Depth(f) <= deepest
  BY <1>2, <1>3 DEF OnLine, Depth
<1>6. ParentOf(f) # 0 => ParentOf(f) \in DOMAIN folders
                         /\ folders[ParentOf(f)].scope = folders[f].scope
  BY <1>2 DEF FoldersInv, IsForest, Nodes
<1>7. Child(folders, folders[f].scope, folders[f].parent, folders[f].name) = {f}
  <2>1. \A g \in DOMAIN folders : folders[g] \in Folder /\ (folders[g] = folders[f] => g = f)
    BY DEF FoldersInv, IsForest
  <2>2. folders[f] = [scope |-> folders[f].scope, parent |-> folders[f].parent, name |-> folders[f].name]
    BY <2>1 DEF Folder
  <2> QED
    BY <2>1, <2>2 DEF Child
<1> QED
  BY <1>4, <1>5, <1>6, <1>7

\* The folders of a record's scope that a record is under, seen from one of them.
LEMMA ViewHolds ==
    ASSUME FoldersInv, NEW s \in Scopes, NEW f \in {0} \cup {g \in DOMAIN folders : folders[g].scope = s}
    PROVE  LET kids == {g \in Children(f) : folders[g].scope = s}
           IN  /\ Under(s, f) = Direct(s, f) \cup UNION {Under(s, g) : g \in kids}
               /\ \A g \in kids : /\ Under(s, g) \cap Direct(s, f) = {}
                                  /\ \A h \in kids \ {g} : Under(s, g) \cap Under(s, h) = {}
<1> DEFINE kids == {g \in Children(f) : folders[g].scope = s}
<1>1. PICK d \in Ranks(folders, deepest) : TRUE
  BY DEF FoldersInv, IsForest
<1>2. /\ \A g \in DOMAIN folders : /\ g \in Nodes(folders) /\ d[g] = d[ParentOf(g)] + 1 /\ g # 0
                                   /\ ParentOf(g) = folders[g].parent
                                   /\ ParentOf(g) \in Nodes(folders)
      /\ \A g \in Nodes(folders) : d[g] \in Nat
      /\ 0 \in Nodes(folders) /\ 0 \notin DOMAIN folders
  BY <1>1, RankFacts
<1>3. \A x \in Nodes(folders) : OnLine(x, d)
  BY <1>1, LineFacts
<1>4. \A r \in FolderRecords : InFolder(s, r) \in Nodes(folders)
                               /\ (InFolder(s, r) # 0 => folders[InFolder(s, r)].scope = s)
  BY DEF InFolder, Nodes
<1>5. f \in Nodes(folders)
  BY DEF Nodes
<1>6. \A g \in kids : g \in DOMAIN folders /\ folders[g].parent = f /\ folders[g].scope = s
  BY DEF Children
<1>7. \A g \in kids : g \in Nodes(folders) /\ g # 0 /\ ParentOf(g) = f /\ d[g] = d[f] + 1
  BY <1>2, <1>6
<1>8. \A x \in Nodes(folders) : 0 \in Line(x)
  BY <1>3 DEF OnLine
<1>9. \A r \in FolderRecords, g \in Nodes(folders) :
        r \in Under(s, g) <=> scopeOf[r] = s /\ g \in Line(InFolder(s, r))
  BY <1>4, <1>8 DEF Under
<1>10. \A r \in FolderRecords : r \in Direct(s, f) <=> scopeOf[r] = s /\ InFolder(s, r) = f
  <2>1. \A x \in Nodes(folders) : x \in Line(x)
    BY <1>3 DEF OnLine
  <2> QED
    BY <1>4, <1>5, <1>9, <2>1 DEF Direct
<1>11. \A g \in Nodes(folders) : Under(s, g) \subseteq FolderRecords /\ Direct(s, g) \subseteq FolderRecords
  BY DEF Under, Direct
<1> HIDE DEF kids
<1>12. ASSUME NEW r \in Under(s, f), r \notin Direct(s, f)  PROVE \E g \in kids : r \in Under(s, g)
  <2> DEFINE x == InFolder(s, r)
  <2>1. r \in FolderRecords /\ scopeOf[r] = s /\ f \in Line(x) /\ x \in Nodes(folders) /\ f # x
    BY <1>4, <1>5, <1>9, <1>10, <1>11, <1>12
  <2>2. x # 0 => folders[x].scope = s
    BY <1>4, <2>1
  <2> HIDE DEF x
  <2>3. PICK k \in Line(x) : k \in DOMAIN folders /\ ParentOf(k) = f
    BY <1>3, <2>1 DEF OnLine
  <2>4. k # 0 /\ k \in Nodes(folders) /\ folders[k].parent = f
    BY <1>2, <2>3
  <2>5. x # 0 /\ folders[k].scope = folders[x].scope
    BY <1>3, <2>1, <2>3, <2>4 DEF OnLine
  <2>6. k \in kids
    BY <2>2, <2>3, <2>4, <2>5 DEF kids, Children
  <2>7. r \in Under(s, k)
    BY <1>9, <2>1, <2>3, <2>4 DEF x
  <2> QED
    BY <2>6, <2>7
<1>13. ASSUME NEW g \in kids, NEW r \in Under(s, g)  PROVE r \in Under(s, f)
  <2>1. r \in FolderRecords /\ scopeOf[r] = s /\ g \in Line(InFolder(s, r)) /\ InFolder(s, r) \in Nodes(folders)
    BY <1>4, <1>7, <1>9, <1>11, <1>13
  <2>2. Line(g) \subseteq Line(InFolder(s, r))
    BY <1>3, <2>1 DEF OnLine
  <2>3. f \in Line(g)
    <3>1. Line(g) = {g} \cup Line(f)
      BY <1>6, <1>7, LineSteps
    <3> QED
      BY <1>3, <1>5, <3>1 DEF OnLine
  <2> QED
    BY <1>5, <1>9, <2>1, <2>2, <2>3
<1>14. ASSUME NEW r \in Direct(s, f)  PROVE r \in Under(s, f)
  BY <1>14 DEF Direct
<1>15. ASSUME NEW g \in kids, NEW r \in Under(s, g), r \in Direct(s, f)  PROVE FALSE
  <2>1. r \in FolderRecords /\ g \in Line(f)
    BY <1>7, <1>9, <1>10, <1>11, <1>15
  <2>2. d[g] <= d[f]
    BY <1>3, <1>5, <2>1 DEF OnLine
  <2> QED
    BY <1>2, <1>5, <1>7, <2>2
<1>16. ASSUME NEW g \in kids, NEW h \in kids \ {g}, NEW r \in Under(s, g), r \in Under(s, h)  PROVE FALSE
  <2>1. /\ r \in FolderRecords /\ InFolder(s, r) \in Nodes(folders)
        /\ g \in Line(InFolder(s, r)) /\ h \in Line(InFolder(s, r))
    BY <1>4, <1>7, <1>9, <1>11, <1>16
  <2>2. d[g] = d[h]
    BY <1>7
  <2> QED
    BY <1>3, <2>1, <2>2 DEF OnLine
<1>17. Under(s, f) = Direct(s, f) \cup UNION {Under(s, g) : g \in kids}
  BY <1>12, <1>13, <1>14
<1> QED
  BY <1>15, <1>16, <1>17 DEF kids

LEMMA FoldersInvIsSound ==
    ASSUME FoldersInv
    PROVE  FoldersSound
<1>1. ~lapse => Dangling = {} /\ Misplaced = {}
  <2>1. SUFFICES ASSUME ~lapse  PROVE Dangling = {} /\ Misplaced = {}
    OBVIOUS
  <2>2. FiledRight(folders, member, scopeOf)
    BY <2>1 DEF FoldersInv
  <2>3. \A g \in DOMAIN folders : folders[g].scope \in Scopes
    BY DEF FoldersInv, IsForest, Folder
  <2>4. ASSUME NEW r \in FolderRecords, member[r] # 0
        PROVE  member[r] \in DOMAIN folders /\ scopeOf[r] = folders[member[r]].scope /\ scopeOf[r] # NoScope
    BY <2>2, <2>3, <2>4, NoScopeIsNone DEF FiledRight
  <2>5. 0 \notin DOMAIN folders
    BY DEF FoldersInv, IsForest
  <2> QED
    BY <2>4, <2>5 DEF Dangling, Misplaced
<1> QED
  BY <1>1, TreeHolds, ViewHolds DEF FoldersSound

----------------------------------------------------------------------------
(* Folders: what the operations leave of a forest.                         *)

\* A forest is one under higher bounds as well ...
LEMMA ForestRaised ==
    ASSUME NEW fs, NEW top \in Nat, NEW cap \in Nat, IsForest(fs, top, cap),
           NEW more \in Nat, NEW wider \in Nat, top <= more, cap <= wider
    PROVE  IsForest(fs, more, wider) /\ Ranks(fs, cap) \subseteq Ranks(fs, wider)
<1>1. PICK d \in Ranks(fs, cap) : TRUE
  BY DEF IsForest
<1>2. Ranks(fs, cap) \subseteq Ranks(fs, wider)
  <2> SUFFICES ASSUME NEW e \in Ranks(fs, cap)  PROVE e \in Ranks(fs, wider)
    OBVIOUS
  <2>1. e \in [Nodes(fs) -> 0..cap]
    BY DEF Ranks
  <2>2. e \in [Nodes(fs) -> 0..wider]
    BY <2>1
  <2> QED
    BY <2>2 DEF Ranks
<1>3. DOMAIN fs \subseteq 1..more
  <2>1. DOMAIN fs \subseteq 1..top
    BY DEF IsForest
  <2> QED
    BY <2>1
<1> QED
  BY <1>1, <1>2, <1>3 DEF IsForest

\* ... and without folders whose children go as well.
LEMMA ForestPruned ==
    ASSUME NEW fs, NEW top, NEW cap, IsForest(fs, top, cap), NEW kept \in SUBSET DOMAIN fs,
           \A f \in kept : fs[f].parent \in {0} \cup kept
    PROVE  IsForest([f \in kept |-> fs[f]], top, cap)
<1> DEFINE gs == [f \in kept |-> fs[f]]
<1>1. DOMAIN gs = kept /\ \A f \in kept : gs[f] = fs[f] /\ f \in DOMAIN fs
  OBVIOUS
<1> HIDE DEF gs
<1>2. gs \in [DOMAIN gs -> Folder] /\ DOMAIN gs \subseteq 1..top
  <2>1. \A f \in kept : fs[f] \in Folder /\ f \in 1..top
    BY <1>1 DEF IsForest
  <2>2. gs = [f \in kept |-> fs[f]]
    BY DEF gs
  <2> QED
    BY <1>1, <2>1, <2>2
<1>3. \A f \in DOMAIN gs : /\ gs[f].parent \in Nodes(gs)
                           /\ gs[f].parent # 0 => gs[gs[f].parent].scope = gs[f].scope
  BY <1>1 DEF IsForest, Nodes
<1>4. \A f, g \in DOMAIN gs : gs[f] = gs[g] => f = g
  BY <1>1 DEF IsForest
<1>5. PICK d \in Ranks(fs, cap) : TRUE
  BY DEF IsForest
<1> DEFINE e == [f \in Nodes(gs) |-> d[f]]
<1>6. /\ d \in [Nodes(fs) -> 0..cap] /\ d[0] = 0 /\ Nodes(gs) \subseteq Nodes(fs)
      /\ \A f \in DOMAIN fs : d[f] = d[fs[f].parent] + 1
  BY <1>1, <1>5 DEF Ranks, Nodes
<1>7. e \in [Nodes(gs) -> 0..cap] /\ e[0] = 0
  BY <1>6 DEF Nodes
<1>8. \A f \in DOMAIN gs : e[f] = e[gs[f].parent] + 1
  BY <1>1, <1>3, <1>6 DEF Nodes
<1>9. e \in Ranks(gs, cap)
  <2> HIDE DEF e
  <2> QED
    BY <1>7, <1>8 DEF Ranks
<1>10. IsForest(gs, top, cap)
  BY <1>2, <1>3, <1>4, <1>9 DEF IsForest
<1> QED
  BY <1>10 DEF gs

LEMMA FoldersStart ==
    ASSUME FoldersInit
    PROVE  FoldersInv
<1>1. DOMAIN folders = {} /\ folders \in [DOMAIN folders -> Folder]
  BY DEF FoldersInit
<1>2. depthLimit \in 1..Ceiling /\ deepest = depthLimit /\ Ceiling \in Nat
  BY FoldersAssumption DEF FoldersInit
<1>3. IsForest(folders, handed, deepest)
  <2>1. [f \in Nodes(folders) |-> 0] \in Ranks(folders, deepest)
    BY <1>1, <1>2 DEF Ranks, Nodes
  <2> QED
    BY <1>1, <2>1 DEF IsForest
<1>4. FoldersTypeOK
  <2>1. deepest \in depthLimit..Ceiling
    BY <1>2
  <2>2. handed \in Nat /\ triggers \in BOOLEAN /\ lapse \in BOOLEAN
    BY DEF FoldersInit
  <2>3. 0 \in 0..handed /\ member \in [FolderRecords -> 0..handed]
    BY DEF FoldersInit
  <2>4. scopeOf \in [FolderRecords -> Scopes \cup {NoScope}]
    BY DEF FoldersInit
  <2> QED
    BY <1>2, <2>1, <2>2, <2>3, <2>4 DEF FoldersTypeOK
<1> QED
  BY <1>3, <1>4 DEF FoldersInv, FoldersInit, FiledRight

\* What every operation that leaves the tree alone has to show.
LEMMA TreeUntouched ==
    ASSUME FoldersInv, FoldersTypeOK', folders' = folders, handed' = handed, deepest <= deepest',
           ~lapse' => triggers' /\ FiledRight(folders, member', scopeOf')
    PROVE  FoldersInv'
<1>1. handed \in Nat /\ deepest \in Nat /\ deepest' \in Nat
  BY FoldersAssumption DEF FoldersInv, FoldersTypeOK
<1>2. IsForest(folders, handed, deepest')
  BY <1>1, ForestRaised DEF FoldersInv
<1> QED
  BY <1>2 DEF FoldersInv

\* A path that is not empty names a folder of its scope.
LEMMA PathNames ==
    ASSUME FoldersInv, NEW d \in Ranks(folders, deepest),
           NEW s, NEW path \in Paths, NEW f \in Resolve(folders, s, path)
    PROVE  /\ path \in Seq(FolderNames) /\ Len(path) \in 0..Ceiling
           /\ f \in Nodes(folders) /\ d[f] = Len(path)
           /\ f # 0 => f \in DOMAIN folders /\ folders[f].scope = s
           /\ path # <<>> => f # 0 /\ f \in DOMAIN folders /\ folders[f].scope = s
           /\ Resolve(folders, s, path) = {f}
<1>1. path \in Seq(FolderNames) /\ Len(path) \in 0..Ceiling
  BY FoldersAssumption DEF Paths
<1>2. Len(path) \in 0..Len(path) /\ Resolve(folders, s, SubSeq(path, 1, Len(path))) = Resolve(folders, s, path)
  BY <1>1, ResolveSteps
<1>3. /\ f \in Nodes(folders) /\ d[f] = Len(path)
      /\ f # 0 => f \in DOMAIN folders /\ folders[f].scope = s
      /\ \A g \in Resolve(folders, s, path) : g = f
  BY <1>1, <1>2, ResolveFacts
<1>4. d[0] = 0
  BY RankFacts
<1>5. path # <<>> => Len(path) # 0
  BY <1>1
<1> QED
  BY <1>1, <1>3, <1>4, <1>5

LEMMA FileRecordKeeps ==
    ASSUME FoldersInv, NEW s \in Scopes, NEW r \in FolderRecords, NEW path \in Paths,
           FileRecord(s, r, path)
    PROVE  FoldersInv'
<1>1. PICK f \in Resolve(folders, s, path) : member' = [member EXCEPT ![r] = f]
  BY DEF FileRecord
<1>2. PICK d \in Ranks(folders, deepest) : TRUE
  BY DEF FoldersInv, IsForest
<1>3. f \in DOMAIN folders /\ folders[f].scope = s
  BY <1>1, <1>2, PathNames DEF FileRecord, Filable
<1>4. f \in 0..handed /\ handed \in Nat
  BY <1>3 DEF FoldersInv, IsForest, FoldersTypeOK
<1>5. FoldersTypeOK'
  BY <1>1, <1>4 DEF FoldersInv, FoldersTypeOK, FileRecord
<1>6. ~lapse' => triggers' /\ FiledRight(folders, member', scopeOf')
  <2>1. scopeOf[r] = s /\ scopeOf' = scopeOf /\ lapse' = lapse /\ triggers' = triggers
    BY DEF FileRecord, Filable
  <2> QED
    BY <1>1, <1>3, <2>1 DEF FiledRight, FoldersInv, FoldersTypeOK
<1> QED
  BY <1>5, <1>6, TreeUntouched DEF FileRecord, FoldersInv, FoldersTypeOK

\* Records filed nowhere or where they were, of scopes they had.
LEMMA StillFiledRight ==
    ASSUME NEW fs, NEW m, NEW sc, FiledRight(fs, m, sc), NEW n, NEW tc,
           \A r \in FolderRecords : n[r] = 0 \/ (n[r] = m[r] /\ tc[r] = sc[r])
    PROVE  FiledRight(fs, n, tc)
BY DEF FiledRight

LEMMA RecordStepsKeep ==
    ASSUME FoldersInv,
           \/ \E s \in Scopes, r \in FolderRecords : Unfile(s, r) \/ StoreRecord(s, r)
           \/ \E r \in FolderRecords : DeleteRecord(r)
           \/ \E limit \in Limits : RestartFolders(limit)
           \/ LoseTriggers
           \/ RepairFolders
           \/ UNCHANGED folderVars
    PROVE  FoldersInv'
<1>1. FoldersTypeOK /\ 0 \in 0..handed /\ (~lapse => triggers /\ FiledRight(folders, member, scopeOf))
  BY DEF FoldersInv, FoldersTypeOK
<1>2. ASSUME NEW s \in Scopes, NEW r \in FolderRecords, Unfile(s, r)  PROVE FoldersInv'
  <2>1. member' = [member EXCEPT ![r] = 0] /\ UNCHANGED <<folders, handed, scopeOf, depthLimit, deepest, triggers, lapse>>
    BY <1>2 DEF Unfile
  <2>2. FoldersTypeOK'
    BY <1>1, <2>1 DEF FoldersTypeOK
  <2>3. \A q \in FolderRecords : member'[q] = 0 \/ (member'[q] = member[q] /\ scopeOf'[q] = scopeOf[q])
    BY <1>1, <2>1 DEF FoldersTypeOK
  <2>4. deepest <= deepest'
    BY <1>1, <2>1 DEF FoldersTypeOK
  <2> QED
    BY <1>1, <2>1, <2>2, <2>3, <2>4, StillFiledRight, TreeUntouched
<1>3. ASSUME NEW s \in Scopes, NEW r \in FolderRecords, StoreRecord(s, r)  PROVE FoldersInv'
  <2>1. /\ member[r] = 0 /\ scopeOf' = [scopeOf EXCEPT ![r] = s]
        /\ UNCHANGED <<folders, handed, member, depthLimit, deepest, triggers, lapse>>
    BY <1>3 DEF StoreRecord
  <2>2. FoldersTypeOK'
    BY <1>1, <2>1 DEF FoldersTypeOK
  <2>3. ASSUME NEW q \in FolderRecords  PROVE member'[q] = 0 \/ (member'[q] = member[q] /\ scopeOf'[q] = scopeOf[q])
    <3>1. CASE q = r
      BY <2>1, <3>1
    <3>2. CASE q # r
      BY <1>1, <2>1, <3>2 DEF FoldersTypeOK
    <3> QED
      BY <3>1, <3>2
  <2>4. deepest <= deepest'
    BY <1>1, <2>1 DEF FoldersTypeOK
  <2> QED
    BY <1>1, <2>1, <2>2, <2>3, <2>4, StillFiledRight, TreeUntouched
<1>4. ASSUME NEW r \in FolderRecords, DeleteRecord(r)  PROVE FoldersInv'
  <2>1. /\ scopeOf' = [scopeOf EXCEPT ![r] = NoScope] /\ member' = Unfiled({r})
        /\ UNCHANGED <<folders, handed, depthLimit, deepest, triggers, lapse>>
    BY <1>4 DEF DeleteRecord
  <2>2. member' = [q \in FolderRecords |-> IF triggers /\ q \in {r} THEN 0 ELSE member[q]]
    BY <2>1 DEF Unfiled
  <2>3. FoldersTypeOK'
    BY <1>1, <2>1, <2>2 DEF FoldersTypeOK
  <2>4. ASSUME NEW q \in FolderRecords, triggers
        PROVE  member'[q] = 0 \/ (member'[q] = member[q] /\ scopeOf'[q] = scopeOf[q])
    <3>1. CASE q = r
      BY <2>2, <2>4, <3>1
    <3>2. CASE q # r
      BY <1>1, <2>1, <2>2, <3>2 DEF FoldersTypeOK
    <3> QED
      BY <3>1, <3>2
  <2>5. deepest <= deepest'
    BY <1>1, <2>1 DEF FoldersTypeOK
  <2>6. ~lapse' => triggers' /\ FiledRight(folders, member', scopeOf')
    <3>1. SUFFICES ASSUME ~lapse  PROVE triggers /\ FiledRight(folders, member', scopeOf')
      BY <2>1
    <3>2. triggers /\ FiledRight(folders, member, scopeOf)
      BY <1>1, <3>1
    <3> QED
      BY <2>4, <3>2, StillFiledRight
  <2> QED
    BY <2>1, <2>3, <2>5, <2>6, TreeUntouched
<1>5. ASSUME NEW limit \in Limits, RestartFolders(limit)  PROVE FoldersInv'
  <2>1. /\ depthLimit' = limit /\ deepest' = Tallest({deepest, limit}) /\ triggers' = TRUE
        /\ UNCHANGED <<folders, handed, member, scopeOf, lapse>>
    BY <1>5 DEF RestartFolders
  <2>2. limit \in 1..Ceiling /\ deepest \in 1..Ceiling /\ Ceiling \in Nat
    BY <1>1, FoldersAssumption DEF FoldersTypeOK
  <2>3. deepest' \in {deepest, limit} /\ deepest <= deepest' /\ limit <= deepest'
    <3>1. \E n \in {deepest, limit} : \A k \in {deepest, limit} : k <= n
      BY <2>2
    <3> QED
      BY <2>1, <3>1 DEF Tallest
  <2>4. FoldersTypeOK'
    <3>1. depthLimit' \in 1..Ceiling /\ deepest' \in depthLimit'..Ceiling
      BY <2>1, <2>2, <2>3
    <3> QED
      BY <1>1, <2>1, <3>1 DEF FoldersTypeOK
  <2> QED
    BY <1>1, <2>1, <2>3, <2>4, TreeUntouched
<1>6. CASE LoseTriggers
  <2>1. triggers' = FALSE /\ lapse' = TRUE /\ UNCHANGED <<folders, handed, member, scopeOf, depthLimit, deepest>>
    BY <1>6 DEF LoseTriggers
  <2>2. FoldersTypeOK' /\ deepest <= deepest'
    <3>1. FoldersTypeOK'
      BY <1>1, <2>1 DEF FoldersTypeOK
    <3>2. deepest \in Nat /\ deepest' = deepest
      BY <1>1, <2>1, FoldersAssumption DEF FoldersTypeOK
    <3> QED
      BY <3>1, <3>2
  <2> QED
    BY <2>1, <2>2, TreeUntouched
<1>7. CASE RepairFolders
  <2>1. /\ triggers' = TRUE /\ lapse' = FALSE
        /\ member' = [r \in FolderRecords |-> IF r \in Dangling \cup Misplaced THEN 0 ELSE member[r]]
        /\ UNCHANGED <<folders, handed, scopeOf, depthLimit, deepest>>
    BY <1>7 DEF RepairFolders
  <2>2. FoldersTypeOK' /\ deepest <= deepest'
    <3>1. FoldersTypeOK'
      BY <1>1, <2>1 DEF FoldersTypeOK
    <3>2. deepest \in Nat /\ deepest' = deepest
      BY <1>1, <2>1, FoldersAssumption DEF FoldersTypeOK
    <3> QED
      BY <3>1, <3>2
  <2>3. FiledRight(folders, member', scopeOf)
    BY <2>1 DEF FiledRight, Dangling, Misplaced
  <2> QED
    BY <2>1, <2>2, <2>3, TreeUntouched
<1>8. CASE UNCHANGED folderVars
  BY <1>8 DEF folderVars, FoldersInv, FoldersTypeOK
<1> QED
  BY <1>2, <1>3, <1>4, <1>5, <1>6, <1>7, <1>8

----------------------------------------------------------------------------
(* Folders: the operations on the tree.                                    *)

\* A branch of K new folders under p, each below the one before.
Branched(fs, top, s, p, K, names) ==
    [f \in DOMAIN fs \cup (top + 1)..(top + K) |->
       IF f \in (top + 1)..(top + K)
       THEN [scope |-> s, parent |-> IF f = top + 1 THEN p ELSE f - 1, name |-> names[f - top]]
       ELSE fs[f]]

LEMMA BranchAdded ==
    ASSUME NEW fs, NEW top \in Nat, NEW cap \in Nat, IsForest(fs, top, cap), NEW d \in Ranks(fs, cap),
           NEW s \in Scopes, NEW p \in Nodes(fs), p # 0 => fs[p].scope = s,
           NEW K \in Nat, NEW names, \A k \in 1..K : names[k] \in FolderNames,
           d[p] + K <= cap, K > 0 => Child(fs, s, p, names[1]) = {}
    PROVE  IsForest(Branched(fs, top, s, p, K, names), top + K, cap)
<1> DEFINE gs   == Branched(fs, top, s, p, K, names)
           made == (top + 1)..(top + K)
           above(f) == IF f = top + 1 THEN p ELSE f - 1
<1>1. /\ fs \in [DOMAIN fs -> Folder] /\ DOMAIN fs \subseteq 1..top
      /\ \A f \in DOMAIN fs : /\ fs[f].parent \in Nodes(fs)
                              /\ fs[f].parent # 0 => fs[fs[f].parent].scope = fs[f].scope
      /\ \A f, g \in DOMAIN fs : fs[f] = fs[g] => f = g
  BY DEF IsForest
<1>2. Nodes(fs) \subseteq 0..top /\ p \in Nat /\ p <= top
  BY <1>1 DEF Nodes
<1>3. \A f \in made : /\ f \in Nat /\ f # 0 /\ f \notin DOMAIN fs /\ f \notin Nodes(fs)
                      /\ f - top \in 1..K /\ names[f - top] \in FolderNames
                      /\ f # top + 1 => f - 1 \in made
                      /\ above(f) \in Nat /\ above(f) < f
  <2> TAKE f \in made
  <2>1. f \in Nat /\ f # 0 /\ f \notin 0..top /\ f - top \in 1..K /\ (f # top + 1 => f - 1 \in made)
    OBVIOUS
  <2>2. above(f) \in Nat /\ above(f) < f
    BY <2>1, <1>2
  <2>3. f \notin DOMAIN fs /\ f \notin Nodes(fs)
    BY <2>1, <1>1, <1>2
  <2> QED
    BY <2>1, <2>2, <2>3
<1>4. /\ DOMAIN gs = DOMAIN fs \cup made /\ gs = [f \in DOMAIN gs |-> gs[f]]
      /\ \A f \in made : gs[f] = [scope |-> s, parent |-> above(f), name |-> names[f - top]]
      /\ \A f \in DOMAIN fs : gs[f] = fs[f]
  BY <1>3 DEF Branched
<1> HIDE DEF gs
<1>5. \A f \in made : gs[f].scope = s /\ gs[f].parent = above(f) /\ gs[f].name = names[f - top]
  <2> HIDE DEF made, above
  <2> TAKE f \in made
  <2>1. gs[f] = [scope |-> s, parent |-> above(f), name |-> names[f - top]]
    BY <1>4
  <2> QED
    BY <2>1
<1>6. Nodes(gs) = Nodes(fs) \cup made
  BY <1>4 DEF Nodes
<1>7. gs \in [DOMAIN gs -> Folder]
  <2> HIDE DEF made, above
  <2>1. \A f \in made : gs[f] \in Folder
    BY <1>3, <1>4 DEF Folder
  <2> QED
    BY <1>1, <1>4, <2>1
<1>8. DOMAIN gs \subseteq 1..(top + K)
  <2>1. 1..top \subseteq 1..(top + K) /\ made \subseteq 1..(top + K)
    OBVIOUS
  <2> HIDE DEF made
  <2> QED
    BY <1>1, <1>4, <2>1
<1>9. \A f \in made : above(f) \in Nodes(gs) /\ (above(f) # 0 => gs[above(f)].scope = s)
  <2> TAKE f \in made
  <2>1. CASE f = top + 1
    BY <2>1, <1>4, <1>6 DEF Nodes
  <2>2. CASE f # top + 1
    BY <2>2, <1>3, <1>5, <1>6
  <2> QED
    BY <2>1, <2>2
<1>10. ASSUME NEW f \in DOMAIN gs
       PROVE  gs[f].parent \in Nodes(gs) /\ (gs[f].parent # 0 => gs[gs[f].parent].scope = gs[f].scope)
  <2>1. CASE f \in made
    <3> HIDE DEF above, made
    <3> QED
      BY <2>1, <1>5, <1>9
  <2>2. CASE f \notin made
    <3> HIDE DEF above, made
    <3> QED
      BY <2>2, <1>1, <1>4, <1>6 DEF Nodes
  <2> QED
    BY <2>1, <2>2
<1>11. ASSUME NEW f \in DOMAIN gs, NEW g \in DOMAIN gs, gs[f] = gs[g]  PROVE f = g
  <2>1. ASSUME NEW x \in made, NEW y \in DOMAIN fs, gs[x] = gs[y]  PROVE FALSE
    <3>1. fs[y] = [scope |-> s, parent |-> above(x), name |-> names[x - top]] /\ fs[y].parent = above(x)
      BY <2>1, <1>4, <1>5
    <3>2. above(x) \in Nodes(fs)
      BY <1>1, <3>1
    <3>3. x = top + 1
      BY <1>3, <3>2
    <3>4. K > 0 /\ x - top = 1
      BY <3>3
    <3>5. y \in Child(fs, s, p, names[1])
      BY <3>1, <3>3, <3>4 DEF Child
    <3> QED
      BY <3>4, <3>5
  <2>2. ASSUME NEW x \in made, NEW y \in made, gs[x] = gs[y]  PROVE x = y
    <3>1. above(x) = above(y)
      BY <2>2, <1>5
    <3>2. x \in Nat /\ y \in Nat /\ (x # top + 1 => x > top + 1) /\ (y # top + 1 => y > top + 1)
      OBVIOUS
    <3>3. (x # top + 1 => above(x) > top) /\ (y # top + 1 => above(y) > top)
      BY <3>2
    <3> QED
      BY <3>1, <3>2, <3>3, <1>2
  <2> HIDE DEF made
  <2> QED
    BY <1>1, <1>4, <1>11, <2>1, <2>2
<1> DEFINE e == [f \in Nodes(gs) |-> IF f \in made THEN d[p] + (f - top) ELSE d[f]]
<1>12. /\ d \in [Nodes(fs) -> 0..cap] /\ d[0] = 0
       /\ \A f \in DOMAIN fs : d[f] = d[fs[f].parent] + 1
  BY DEF Ranks
<1>13. d[p] \in Nat /\ \A f \in made : d[p] + (f - top) \in 0..cap
  <2>1. d[p] \in Nat
    BY <1>12
  <2>2. \A k \in 1..K : d[p] + k \in 0..cap
    BY <2>1
  <2> QED
    BY <2>1, <2>2, <1>3
<1>14. e \in [Nodes(gs) -> 0..cap] /\ e[0] = 0
  <2>1. 0 \notin made /\ 0 \in Nodes(gs)
    BY <1>3 DEF Nodes
  <2> HIDE DEF made
  <2> QED
    BY <2>1, <1>6, <1>12, <1>13
<1>15. ASSUME NEW f \in DOMAIN gs  PROVE e[f] = e[gs[f].parent] + 1
  <2>1. f \in Nodes(gs) /\ gs[f].parent \in Nodes(gs)
    BY <1>10 DEF Nodes
  <2>2. CASE f \in made
    <3>1. gs[f].parent = above(f) /\ e[f] = d[p] + (f - top) /\ f \in Nat
      BY <2>1, <2>2, <1>3, <1>5
    <3>2. CASE f = top + 1
      <4>1. above(f) = p /\ p \notin made
        BY <3>2, <1>3
      <4>2. e[above(f)] = d[p]
        BY <2>1, <3>1, <4>1
      <4> QED
        BY <3>1, <3>2, <4>2, <1>13
    <3>3. CASE f # top + 1
      <4>1. above(f) = f - 1 /\ f - 1 \in made
        BY <2>2, <3>3, <1>3
      <4>2. e[above(f)] = d[p] + ((f - 1) - top)
        BY <2>1, <3>1, <4>1
      <4> HIDE DEF e, above
      <4> QED
        BY <3>1, <4>1, <4>2, <1>13
    <3> QED
      BY <3>2, <3>3
  <2>3. CASE f \notin made
    <3>1. f \in DOMAIN fs /\ gs[f] = fs[f] /\ fs[f].parent \in Nodes(fs)
      BY <2>3, <1>1, <1>4
    <3>2. fs[f].parent \notin made
      BY <3>1, <1>3
    <3> HIDE DEF made
    <3> QED
      BY <2>1, <2>3, <3>1, <3>2, <1>12
  <2> QED
    BY <2>2, <2>3
<1>16. e \in Ranks(gs, cap)
  <2> HIDE DEF e
  <2> QED
    BY <1>14, <1>15 DEF Ranks
<1>17. IsForest(gs, top + K, cap)
  BY <1>7, <1>8, <1>10, <1>11, <1>16 DEF IsForest
<1> QED
  BY <1>17 DEF gs

LEMMA CreateKeeps ==
    ASSUME FoldersInv, NEW s \in Scopes, NEW path \in Paths, CreateFolder(s, path)
    PROVE  FoldersInv'
<1> DEFINE n == Len(path)
<1>1. PICK p \in Resolve(folders, s, SubSeq(path, 1, n - 1)) :
          /\ Child(folders, s, p, path[n]) = {}
          /\ folders' = WithFolder(folders, handed + 1, s, p, path[n])
  BY DEF CreateFolder
<1>2. /\ n \in 1..depthLimit /\ handed' = handed + 1
      /\ UNCHANGED <<member, scopeOf, depthLimit, deepest, triggers, lapse>>
  BY DEF CreateFolder
<1>3. PICK d \in Ranks(folders, deepest) : TRUE
  BY DEF FoldersInv, IsForest
<1>4. /\ handed \in Nat /\ deepest \in Nat /\ depthLimit \in Nat /\ depthLimit <= deepest /\ n \in Nat
      /\ FoldersTypeOK /\ IsForest(folders, handed, deepest)
  BY <1>2, FoldersAssumption DEF FoldersInv, FoldersTypeOK
<1>5. path \in Seq(FolderNames) /\ n - 1 \in 0..Len(path) /\ path[n] \in FolderNames
  BY <1>2, <1>4 DEF Paths
<1>6. p \in Nodes(folders) /\ d[p] = n - 1 /\ (p # 0 => folders[p].scope = s)
  BY <1>1, <1>3, <1>5, ResolveFacts
<1>7. d[p] + 1 <= deepest
  BY <1>2, <1>4, <1>6
<1>8. IsForest(folders', handed', deepest)
  <2> DEFINE names == [k \in 1..1 |-> path[n]]
  <2>1. names[1] = path[n] /\ \A k \in 1..1 : names[k] \in FolderNames
    BY <1>5
  <2>2. (handed + 1)..(handed + 1) = {handed + 1} /\ (handed + 1) - handed = 1
    BY <1>4
  <2>3. folders' = Branched(folders, handed, s, p, 1, names)
    BY <1>1, <2>1, <2>2 DEF WithFolder, Branched
  <2> HIDE DEF n, names
  <2> QED
    BY <1>1, <1>2, <1>3, <1>4, <1>6, <1>7, <2>1, <2>3, BranchAdded
<1>9. FoldersTypeOK'
  <2>1. \A r \in FolderRecords : member[r] \in 0..handed'
    BY <1>2, <1>4 DEF FoldersTypeOK
  <2> QED
    BY <1>2, <1>4, <2>1 DEF FoldersTypeOK
<1>10. ~lapse' => triggers' /\ FiledRight(folders', member', scopeOf')
  <2>1. \A f \in DOMAIN folders : f \in DOMAIN folders' /\ folders'[f] = folders[f]
    <3>1. handed + 1 \notin DOMAIN folders
      BY <1>4 DEF IsForest
    <3> QED
      BY <1>1, <3>1 DEF WithFolder
  <2> QED
    BY <1>2, <2>1 DEF FoldersInv, FiledRight
<1> QED
  BY <1>2, <1>8, <1>9, <1>10 DEF FoldersInv

\* The folders of which one changes its name or its parent are filed in as before.
LEMMA FiledAsBefore ==
    ASSUME NEW fs, NEW gs, NEW m, NEW sc, FiledRight(fs, m, sc), DOMAIN gs = DOMAIN fs,
           \A f \in DOMAIN fs : gs[f].scope = fs[f].scope
    PROVE  FiledRight(gs, m, sc)
BY DEF FiledRight

LEMMA RenameKeeps ==
    ASSUME FoldersInv, NEW s \in Scopes, NEW path \in Paths, NEW name \in FolderNames,
           RenameFolder(s, path, name)
    PROVE  FoldersInv'
<1>1. PICK f \in Resolve(folders, s, path) :
          /\ Child(folders, s, folders[f].parent, name) \subseteq {f}
          /\ folders' = [folders EXCEPT ![f].name = name]
  BY DEF RenameFolder
<1>2. PICK d \in Ranks(folders, deepest) : TRUE
  BY DEF FoldersInv, IsForest
<1>3. f \in DOMAIN folders /\ folders[f].scope = s
  BY <1>1, <1>2, PathNames DEF RenameFolder
<1>4. /\ folders \in [DOMAIN folders -> Folder] /\ DOMAIN folders \subseteq 1..handed
      /\ \A g \in DOMAIN folders : /\ folders[g].parent \in Nodes(folders)
                                   /\ folders[g].parent # 0 => folders[folders[g].parent].scope = folders[g].scope
      /\ \A g, h \in DOMAIN folders : folders[g] = folders[h] => g = h
  BY DEF FoldersInv, IsForest
<1>5. /\ DOMAIN folders' = DOMAIN folders /\ folders' = [g \in DOMAIN folders |-> folders'[g]]
      /\ \A g \in DOMAIN folders : g # f => folders'[g] = folders[g]
      /\ folders'[f] = [folders[f] EXCEPT !.name = name]
  BY <1>1, <1>3, <1>4
<1>6. /\ \A g \in DOMAIN folders : folders'[g].parent = folders[g].parent /\ folders'[g].scope = folders[g].scope
      /\ folders'[f] = [scope |-> s, parent |-> folders[f].parent, name |-> name]
      /\ \A g \in DOMAIN folders : folders'[g] \in Folder
  <2>1. folders[f] \in Folder /\ \A g \in DOMAIN folders : folders[g] \in Folder
    BY <1>3, <1>4
  <2>2. /\ folders'[f] = [scope |-> s, parent |-> folders[f].parent, name |-> name]
        /\ folders'[f] \in Folder
    BY <1>3, <1>5, <2>1 DEF Folder
  <2> QED
    BY <1>3, <1>5, <2>1, <2>2
<1>7. \A g, h \in DOMAIN folders : folders'[g] = folders'[h] => g = h
  <2>1. \A g \in DOMAIN folders : g # f => folders[g] # folders'[f]
    BY <1>1, <1>6 DEF Child
  <2> QED
    BY <1>4, <1>5, <2>1
<1>8. d \in Ranks(folders', deepest)
  <2>1. Nodes(folders') = Nodes(folders)
    BY <1>5 DEF Nodes
  <2> QED
    BY <1>2, <1>5, <1>6, <2>1 DEF Ranks
<1>9. IsForest(folders', handed, deepest)
  <2>1. \A g \in DOMAIN folders : /\ folders'[g].parent \in Nodes(folders')
                                  /\ folders'[g].parent # 0 => folders'[folders'[g].parent].scope = folders'[g].scope
    BY <1>4, <1>5, <1>6 DEF Nodes
  <2>2. folders' \in [DOMAIN folders' -> Folder]
    BY <1>5, <1>6
  <2> QED
    BY <1>4, <1>5, <1>7, <1>8, <2>1, <2>2 DEF IsForest
<1>10. UNCHANGED <<handed, member, scopeOf, depthLimit, deepest, triggers, lapse>>
  BY DEF RenameFolder
<1>11. ~lapse' => triggers' /\ FiledRight(folders', member', scopeOf')
  BY <1>5, <1>6, <1>10, FiledAsBefore DEF FoldersInv
<1> QED
  BY <1>9, <1>10, <1>11 DEF FoldersInv, FoldersTypeOK

LEMMA DeleteFolderKeeps ==
    ASSUME FoldersInv, NEW s \in Scopes, NEW path \in Paths, DeleteFolder(s, path)
    PROVE  FoldersInv'
<1>1. PICK f \in Resolve(folders, s, path) :
          /\ Children(f) = {} /\ \A r \in FolderRecords : member[r] # f
          /\ folders' = [g \in DOMAIN folders \ {f} |-> folders[g]] /\ member' = Emptied({f})
  BY DEF DeleteFolder
<1>2. UNCHANGED <<handed, scopeOf, depthLimit, deepest, triggers, lapse>>
  BY DEF DeleteFolder
<1>3. FoldersTypeOK /\ IsForest(folders, handed, deepest)
  BY DEF FoldersInv
<1>4. IsForest(folders', handed, deepest)
  <2>1. \A g \in DOMAIN folders \ {f} : folders[g].parent \in {0} \cup (DOMAIN folders \ {f})
    BY <1>1, <1>3 DEF Children, IsForest, Nodes
  <2> QED
    BY <1>1, <1>3, <2>1, ForestPruned
<1>5. member' = member
  BY <1>1, <1>3 DEF Emptied, FoldersTypeOK
<1>6. FoldersTypeOK'
  BY <1>2, <1>3, <1>5 DEF FoldersTypeOK
<1>7. ~lapse' => triggers' /\ FiledRight(folders', member', scopeOf')
  BY <1>1, <1>2, <1>5 DEF FoldersInv, FiledRight
<1> QED
  BY <1>2, <1>4, <1>6, <1>7 DEF FoldersInv

LEMMA WipeKeeps ==
    ASSUME FoldersInv, NEW a \in FolderAgents, WipeFolders(a)
    PROVE  FoldersInv'
<1> DEFINE gone   == {r \in FolderRecords : scopeOf[r] # NoScope /\ scopeOf[r][1] = a}
           felled == {f \in DOMAIN folders : folders[f].scope[1] = a}
<1>1. /\ scopeOf' = [r \in FolderRecords |-> IF r \in gone THEN NoScope ELSE scopeOf[r]]
      /\ folders' = [f \in DOMAIN folders \ felled |-> folders[f]]
      /\ member' = [r \in FolderRecords |->
                      IF triggers /\ (r \in gone \/ member[r] \in felled) THEN 0 ELSE member[r]]
      /\ UNCHANGED <<handed, depthLimit, deepest, triggers, lapse>>
  BY DEF WipeFolders
<1>2. FoldersTypeOK /\ IsForest(folders, handed, deepest)
  BY DEF FoldersInv
<1>3. IsForest(folders', handed, deepest)
  <2>1. \A g \in DOMAIN folders \ felled : folders[g].parent \in {0} \cup (DOMAIN folders \ felled)
    BY <1>2 DEF IsForest, Nodes
  <2> HIDE DEF felled
  <2> QED
    BY <1>1, <1>2, <2>1, ForestPruned
<1>4. FoldersTypeOK'
  <2>1. member' \in [FolderRecords -> 0..handed] /\ scopeOf' \in [FolderRecords -> Scopes \cup {NoScope}]
    <3> HIDE DEF gone, felled
    <3> QED
      BY <1>1, <1>2 DEF FoldersTypeOK
  <2> QED
    BY <1>1, <1>2, <2>1 DEF FoldersTypeOK
<1>5. ~lapse' => triggers' /\ FiledRight(folders', member', scopeOf')
  <2>1. SUFFICES ASSUME ~lapse, NEW r \in FolderRecords, member'[r] # 0
                 PROVE  member'[r] \in DOMAIN folders' /\ scopeOf'[r] = folders'[member'[r]].scope
    BY <1>1 DEF FoldersInv, FiledRight
  <2>2. triggers /\ FiledRight(folders, member, scopeOf)
    BY <2>1 DEF FoldersInv
  <2> HIDE DEF gone, felled
  <2>3. r \notin gone /\ member[r] \notin felled /\ member'[r] = member[r] /\ scopeOf'[r] = scopeOf[r]
    BY <1>1, <2>1, <2>2
  <2> QED
    BY <1>1, <2>1, <2>2, <2>3 DEF FiledRight
<1> QED
  BY <1>1, <1>3, <1>4, <1>5 DEF FoldersInv

\* A folder that moves takes along what is below it, which is the folders it is on the
\* line of: they are as far below it as they were, and the others where they were.
LEMMA MoveKeeps ==
    ASSUME FoldersInv, NEW s \in Scopes, NEW path \in Paths, NEW target \in Paths,
           MoveFolder(s, path, target)
    PROVE  FoldersInv'
<1>1. PICK f \in Resolve(folders, s, path), t \in Resolve(folders, s, target) :
          Movable(f, t, target, s) /\ folders' = [folders EXCEPT ![f].parent = t]
  BY DEF MoveFolder
<1>2. PICK d \in Ranks(folders, deepest) : TRUE
  BY DEF FoldersInv, IsForest
<1>3. /\ f \in DOMAIN folders /\ folders[f].scope = s /\ f \in Nodes(folders) /\ f # 0
      /\ t \in Nodes(folders) /\ d[t] = Len(target) /\ (t # 0 => folders[t].scope = s)
  BY <1>1, <1>2, PathNames DEF MoveFolder
<1>4. /\ folders \in [DOMAIN folders -> Folder] /\ DOMAIN folders \subseteq 1..handed
      /\ \A g \in DOMAIN folders : /\ folders[g].parent \in Nodes(folders)
                                   /\ folders[g].parent # 0 => folders[folders[g].parent].scope = folders[g].scope
      /\ \A g, h \in DOMAIN folders : folders[g] = folders[h] => g = h
  BY DEF FoldersInv, IsForest
<1>5. /\ DOMAIN folders' = DOMAIN folders /\ folders' = [g \in DOMAIN folders |-> folders'[g]]
      /\ \A g \in DOMAIN folders : g # f => folders'[g] = folders[g]
      /\ folders'[f] = [folders[f] EXCEPT !.parent = t]
  BY <1>1, <1>3, <1>4
<1>6. /\ \A g \in DOMAIN folders : folders'[g] \in Folder /\ folders'[g].scope = folders[g].scope
      /\ folders'[f] = [scope |-> s, parent |-> t, name |-> folders[f].name]
  <2>1. folders[f] \in Folder /\ \A g \in DOMAIN folders : folders[g] \in Folder
    BY <1>3, <1>4
  <2>2. t \in Nat
    BY <1>3, <1>4, handed \in Nat DEF Nodes, FoldersInv, FoldersTypeOK
  <2>3. /\ folders'[f] = [scope |-> s, parent |-> t, name |-> folders[f].name]
        /\ folders'[f] \in Folder
    BY <1>3, <1>5, <2>1, <2>2 DEF Folder
  <2> QED
    BY <1>3, <1>5, <2>1, <2>3
<1>7. folders'[f].parent = t /\ \A g \in DOMAIN folders : g # f => folders'[g].parent = folders[g].parent
  BY <1>5, <1>6
<1>8. Nodes(folders') = Nodes(folders)
  BY <1>5 DEF Nodes
<1>9. \A g, h \in DOMAIN folders : folders'[g] = folders'[h] => g = h
  <2>1. \A g \in DOMAIN folders : g # f => folders[g] # folders'[f]
    BY <1>1, <1>6 DEF Child, Movable
  <2> QED
    BY <1>4, <1>5, <2>1
<1>10. /\ d[0] = 0
       /\ \A g \in Nodes(folders) : d[g] \in Nat /\ d[g] <= deepest
       /\ \A g \in DOMAIN folders : /\ ParentOf(g) = folders[g].parent /\ ParentOf(g) \in Nodes(folders)
                                    /\ d[g] = d[ParentOf(g)] + 1 /\ g # 0 /\ g \in Nodes(folders)
       /\ 0 \in Nodes(folders) /\ 0 \notin DOMAIN folders
  BY <1>2, RankFacts
<1>11. \A g \in Nodes(folders) : OnLine(g, d)
  BY <1>2, LineFacts
<1>12. Line(0) = {0} /\ \A g \in DOMAIN folders : Line(g) = {g} \cup Line(folders[g].parent)
  BY <1>10, LineSteps
<1>13. f \notin Line(t) /\ f \notin Line(0)
  BY <1>1, <1>3, <1>12 DEF Movable
<1>14. deepest \in Nat /\ depthLimit \in Nat /\ depthLimit <= deepest
  BY FoldersAssumption DEF FoldersInv, FoldersTypeOK
<1>15. ASSUME NEW g \in DOMAIN folders, f \in Line(g)
       PROVE  d[g] - d[f] \in Nat /\ d[t] + 1 + (d[g] - d[f]) <= deepest
  <2> DEFINE Hs == {Depth(h) - Depth(f) : h \in Below(f)}
  <2>1. \A h \in Nodes(folders) : Depth(h) = d[h]
    BY <1>11 DEF OnLine, Depth
  <2>2. \A h \in Below(f) : h \in DOMAIN folders /\ f \in Line(h)
    BY DEF Below
  <2>3. \A h \in Below(f) : Depth(h) - Depth(f) = d[h] - d[f] /\ d[h] - d[f] \in 0..deepest
    <3> TAKE h \in Below(f)
    <3>1. h \in Nodes(folders) /\ d[f] <= d[h]
      BY <1>10, <1>11, <2>2 DEF OnLine
    <3>2. Depth(h) = d[h] /\ Depth(f) = d[f]
      BY <1>3, <2>1, <3>1
    <3>3. d[h] \in Nat /\ d[f] \in Nat /\ d[h] <= deepest
      BY <1>3, <1>10, <3>1
    <3> QED
      BY <3>1, <3>2, <3>3, <1>14
  <2>4. g \in Below(f)
    BY <1>15 DEF Below
  <2>5. Hs \subseteq 0..deepest /\ Hs # {} /\ d[g] - d[f] \in Hs
    BY <2>3, <2>4
  <2>6. \E n \in Hs : \A k \in Hs : k <= n
    <3> DEFINE Rs == {deepest - n : n \in Hs}
    <3> HIDE DEF Hs
    <3>1. Rs \subseteq Nat /\ Rs # {}
      <4>1. \A n \in Hs : n \in 0..deepest /\ deepest - n \in Nat
        BY <2>5, <1>14
      <4> QED
        BY <2>5, <4>1
    <3>2. PICK m \in Rs : \A k \in Rs : m <= k
      <4> HIDE DEF Rs
      <4> QED
        BY <3>1, LeastNumber
    <3>3. PICK n \in Hs : m = deepest - n
      BY <3>2
    <3>4. \A k \in Hs : m <= deepest - k
      BY <3>2
    <3>5. ASSUME NEW k \in Hs  PROVE k <= n
      <4>1. k \in 0..deepest /\ n \in 0..deepest /\ deepest - n <= deepest - k
        BY <2>5, <3>3, <3>4
      <4> QED
        BY <4>1, <1>14
    <3> QED
      BY <3>5
  <2>7. Height(f) \in Hs /\ \A k \in Hs : k <= Height(f)
    <3>1. Height(f) = Tallest(Hs)
      BY DEF Height
    <3> HIDE DEF Hs
    <3> QED
      BY <3>1, <2>6 DEF Tallest
  <2>8. Height(f) \in 0..deepest /\ d[g] - d[f] <= Height(f) /\ d[g] - d[f] \in Nat
    <3> DEFINE h == Height(f)
               x == d[g] - d[f]
    <3>1. h \in Hs /\ x \in Hs /\ \A k \in Hs : k \in 0..deepest /\ k <= h
      <4> HIDE DEF Hs
      <4> QED
        BY <2>5, <2>7
    <3> HIDE DEF Hs, h, x
    <3>2. h \in 0..deepest /\ x <= h /\ x \in 0..deepest
      BY <3>1
    <3>3. x \in Nat
      BY <3>2
    <3> QED
      BY <3>2, <3>3 DEF h, x
  <2>9. Len(target) + 1 + Height(f) <= depthLimit
    BY <1>1 DEF Movable
  <2>10. d[t] \in Nat
    BY <1>3, <1>10
  <2> DEFINE x == d[g] - d[f]
  <2>11. x \in Nat /\ x <= Height(f)
    BY <2>8
  <2> HIDE DEF x
  <2>12. d[t] + 1 + x <= deepest
    BY <1>3, <1>14, <2>8, <2>9, <2>10, <2>11
  <2> QED
    BY <2>11, <2>12 DEF x
<1> DEFINE e == [g \in Nodes(folders) |-> IF f \in Line(g) THEN d[t] + 1 + (d[g] - d[f]) ELSE d[g]]
<1>16. e \in [Nodes(folders) -> 0..deepest]
  <2> SUFFICES ASSUME NEW g \in Nodes(folders)  PROVE e[g] \in 0..deepest
    OBVIOUS
  <2>1. CASE f \in Line(g)
    <3>1. g \in DOMAIN folders
      BY <2>1, <1>13 DEF Nodes
    <3>2. d[g] - d[f] \in Nat /\ d[t] + 1 + (d[g] - d[f]) <= deepest /\ d[t] \in Nat
      BY <2>1, <3>1, <1>3, <1>10, <1>15
    <3>3. d[t] + 1 + (d[g] - d[f]) \in 0..deepest
      BY <3>2, <1>14
    <3> QED
      BY <2>1, <3>3
  <2>2. CASE f \notin Line(g)
    <3>1. d[g] \in 0..deepest
      BY <1>10, <1>14
    <3> QED
      BY <2>2, <3>1
  <2> QED
    BY <2>1, <2>2
<1>17. e[0] = 0
  BY <1>10, <1>13
<1>18. ASSUME NEW g \in DOMAIN folders  PROVE e[g] = e[folders'[g].parent] + 1
  <2>1. g \in Nodes(folders) /\ folders[g].parent \in Nodes(folders) /\ d[g] = d[folders[g].parent] + 1
    BY <1>10
  <2>2. CASE g = f
    <3>1. f \in Line(g) /\ d[g] \in Nat /\ d[t] \in Nat
      BY <2>1, <2>2, <1>3, <1>10, <1>11 DEF OnLine
    <3>2. e[g] = d[t] + 1 + (d[g] - d[g])
      BY <2>1, <2>2, <3>1
    <3>3. e[t] = d[t]
      BY <1>3, <1>13
    <3> HIDE DEF e
    <3> QED
      BY <2>2, <3>1, <3>2, <3>3, <1>7
  <2>3. CASE g # f
    <3> DEFINE p == folders[g].parent
    <3>1. folders'[g].parent = p /\ (f \in Line(g) <=> f \in Line(p))
      BY <2>3, <1>7, <1>12
    <3>2. e[g] = (IF f \in Line(g) THEN d[t] + 1 + (d[g] - d[f]) ELSE d[g])
      BY <2>1
    <3>3. e[p] = (IF f \in Line(g) THEN d[t] + 1 + (d[p] - d[f]) ELSE d[p])
      BY <2>1, <3>1
    <3>4. d[t] \in Nat /\ d[f] \in Nat /\ d[p] \in Nat /\ d[g] = d[p] + 1
      BY <2>1, <1>3, <1>10
    <3> HIDE DEF e, p
    <3> QED
      BY <3>1, <3>2, <3>3, <3>4
  <2> QED
    BY <2>2, <2>3
<1>19. e \in Ranks(folders', deepest)
  <2> HIDE DEF e
  <2> QED
    BY <1>5, <1>8, <1>16, <1>17, <1>18 DEF Ranks
<1>20. \A g \in DOMAIN folders : /\ folders'[g].parent \in Nodes(folders')
                                 /\ folders'[g].parent # 0 => folders'[folders'[g].parent].scope = folders'[g].scope
  <2> TAKE g \in DOMAIN folders
  <2>1. CASE g = f
    BY <2>1, <1>3, <1>6, <1>7, <1>8 DEF Nodes
  <2>2. CASE g # f
    BY <2>2, <1>4, <1>6, <1>7, <1>8 DEF Nodes
  <2> QED
    BY <2>1, <2>2
<1>21. IsForest(folders', handed, deepest)
  <2>1. folders' \in [DOMAIN folders' -> Folder]
    BY <1>5, <1>6
  <2> QED
    BY <1>4, <1>5, <1>9, <1>19, <1>20, <2>1 DEF IsForest
<1>22. UNCHANGED <<handed, member, scopeOf, depthLimit, deepest, triggers, lapse>>
  BY DEF MoveFolder
<1>23. ~lapse' => triggers' /\ FiledRight(folders', member', scopeOf')
  BY <1>5, <1>6, <1>22, FiledAsBefore DEF FoldersInv
<1> QED
  BY <1>21, <1>22, <1>23 DEF FoldersInv, FoldersTypeOK

\* Numbers of which each but 1 has its predecessor among them are the first so many.
LEMMA FirstSoMany ==
    ASSUME NEW N \in Nat, NEW K, K \subseteq 1..N, \A n \in K : n # 1 => n - 1 \in K
    PROVE  Cardinality(K) \in 0..N /\ K = 1..Cardinality(K)
<1> DEFINE out == {n \in 1..(N + 1) : n \notin K}
<1>1. out \subseteq Nat /\ N + 1 \in out
  OBVIOUS
<1>2. PICK m \in out : \A n \in out : m <= n
  <2> HIDE DEF out
  <2> QED
    BY <1>1, LeastNumber
<1>3. m \in 1..(N + 1) /\ m \notin K
  OBVIOUS
<1>4. \A n \in 1..(m - 1) : n \in K
  <2> TAKE n \in 1..(m - 1)
  <2>1. n \in 1..(N + 1) /\ ~(m <= n)
    BY <1>3
  <2> QED
    BY <1>2, <2>1
<1>5. \A n \in m..N : n \notin K
  <2> DEFINE none == {k \in 0..(N - m) : m + k \notin K}
  <2>1. N - m \in Nat \/ m = N + 1
    BY <1>3
  <2>2. CASE m = N + 1
    BY <2>2
  <2>3. CASE N - m \in Nat
    <3>1. 0 \in none
      BY <1>3, <2>3
    <3>2. ASSUME NEW k \in 1..(N - m), k - 1 \in none  PROVE k \in none
      <4>1. k \in 0..(N - m) /\ m + k # 1 /\ (m + k) - 1 = m + (k - 1)
        BY <1>3, <2>3
      <4> QED
        BY <3>2, <4>1
    <3>3. \A k \in 0..(N - m) : k \in none
      <4> HIDE DEF none
      <4> QED
        BY <2>3, <3>1, <3>2, StepByStep
    <3>4. \A n \in m..N : n - m \in 0..(N - m) /\ m + (n - m) = n
      BY <1>3
    <3> QED
      BY <3>3, <3>4
  <2> QED
    BY <2>1, <2>2, <2>3
<1>6. K = 1..(m - 1)
  <2>1. \A n \in 1..N : n \in 1..(m - 1) \/ n \in m..N
    BY <1>3
  <2> QED
    BY <1>4, <1>5, <2>1
<1>7. Cardinality(1..(m - 1)) = m - 1
  BY <1>3, FS_Interval
<1> QED
  BY <1>3, <1>6, <1>7

LEMMA CarryKeeps ==
    ASSUME FoldersInv, NEW s \in Scopes, NEW path \in Paths, NEW r \in FolderRecords, Carry(s, path, r)
    PROVE  FoldersInv'
<1> DEFINE N        == Len(path)
           known(n) == Resolve(folders, s, SubSeq(path, 1, n))
           K        == {n \in 1..N : known(n) # {}}
           held     == Cardinality(K)
           id(n)    == IF known(n) # {} THEN CHOOSE f \in known(n) : TRUE ELSE handed + n - held
           made     == {handed + n - held : n \in (held + 1)..N}
           at(f)    == f - handed + held
           new      == N - held
           names    == [k \in 1..new |-> path[held + k]]
           p        == id(held)
<1>1. /\ path # <<>> /\ handed' = handed + N - held /\ deepest' = Tallest({deepest, N})
      /\ folders' = [f \in DOMAIN folders \cup made |->
                       IF f \in made
                       THEN [scope |-> s, parent |-> id(at(f) - 1), name |-> path[at(f)]]
                       ELSE folders[f]]
      /\ member' = (IF scopeOf[r] = s /\ member[r] = 0 THEN [member EXCEPT ![r] = id(N)] ELSE member)
      /\ UNCHANGED <<scopeOf, depthLimit, triggers, lapse>>
  BY DEF Carry
<1>2. PICK d \in Ranks(folders, deepest) : TRUE
  BY DEF FoldersInv, IsForest
<1>3. path \in Seq(FolderNames) /\ N \in 1..Ceiling /\ N \in Nat
  BY <1>1, FoldersAssumption DEF Paths
<1>4. /\ known(0) = {0}
      /\ \A n \in 1..N : known(n) = Named(folders, s, known(n - 1), path[n])
  BY <1>3, ResolveSteps
<1>5. \A n \in 0..N : \A f \in known(n) : /\ f \in Nodes(folders) /\ d[f] = n
                                          /\ f # 0 => f \in DOMAIN folders /\ folders[f].scope = s
  BY <1>2, <1>3, ResolveFacts
<1> HIDE DEF known
<1>6. held \in 0..N /\ K = 1..held
  <2>1. \A n \in K : n # 1 => n - 1 \in K
    <3>1. \A n \in 1..N : known(n) # {} => known(n - 1) # {}
      BY <1>4 DEF Named
    <3> QED
      BY <3>1, <1>3
  <2>2. K \subseteq 1..N
    OBVIOUS
  <2> HIDE DEF K
  <2> QED
    BY <1>3, <2>1, <2>2, FirstSoMany
<1>7. \A n \in 1..N : known(n) # {} <=> n <= held
  BY <1>3, <1>6
<1> HIDE DEF K, held, N
<1>8. held \in Nat /\ new \in Nat /\ handed \in Nat /\ held + new = N
  BY <1>3, <1>6 DEF FoldersInv, FoldersTypeOK
<1>9. p \in known(held)
  <2>1. known(held) # {}
    <3>1. CASE held = 0
      BY <1>4, <3>1
    <3>2. CASE held # 0
      <4>1. held \in 1..N /\ held <= held
        BY <1>6, <1>8, <3>2
      <4> QED
        BY <1>7, <4>1
    <3> QED
      BY <3>1, <3>2
  <2> QED
    BY <2>1
<1>10. p \in Nodes(folders) /\ d[p] = held /\ (p # 0 => p \in DOMAIN folders /\ folders[p].scope = s)
  BY <1>5, <1>6, <1>9
<1>11. \A n \in (held + 1)..N : n \in 1..N /\ known(n) = {} /\ id(n) = handed + n - held
  <2> TAKE n \in (held + 1)..N
  <2>1. n \in 1..N /\ ~(n <= held)
    BY <1>8
  <2>2. known(n) = {}
    BY <1>7, <2>1
  <2> QED
    BY <2>1, <2>2
<1>12. new > 0 => Child(folders, s, p, path[held + 1]) = {}
  <2>1. SUFFICES ASSUME new > 0  PROVE Child(folders, s, p, path[held + 1]) = {}
    OBVIOUS
  <2>2. held + 1 \in (held + 1)..N /\ held + 1 \in 1..N /\ (held + 1) - 1 = held
    BY <1>8, <2>1
  <2>3. Named(folders, s, known(held), path[held + 1]) = {}
    BY <1>4, <1>11, <2>2
  <2> HIDE DEF p
  <2> QED
    BY <1>9, <2>3 DEF Named
<1>13. made = (handed + 1)..(handed + new)
  <2>1. \A n \in (held + 1)..N : handed + n - held \in (handed + 1)..(handed + new)
    BY <1>8
  <2>2. \A f \in (handed + 1)..(handed + new) : /\ f - handed + held \in (held + 1)..N
                                                /\ handed + (f - handed + held) - held = f
    BY <1>8
  <2> QED
    BY <2>1, <2>2
<1>14. \A f \in made : /\ path[at(f)] = names[f - handed]
                       /\ id(at(f) - 1) = IF f = handed + 1 THEN p ELSE f - 1
  <2> TAKE f \in made
  <2>1. f \in (handed + 1)..(handed + new)
    BY <1>13
  <2>2. at(f) = held + (f - handed) /\ f - handed \in 1..new /\ at(f) - 1 \in held..N
    BY <1>8, <2>1
  <2>3. CASE f = handed + 1
    <3>1. at(f) - 1 = held
      BY <1>8, <2>3
    <3>2. id(at(f) - 1) = p
      <4> HIDE DEF id, at
      <4> QED
        BY <3>1
    <3>3. path[at(f)] = names[f - handed]
      <4> HIDE DEF id, at, p
      <4> QED
        BY <2>2
    <3> HIDE DEF id, at, p, names
    <3> QED
      BY <2>3, <3>2, <3>3
  <2>4. CASE f # handed + 1
    <3>1. at(f) - 1 \in (held + 1)..N /\ handed + (at(f) - 1) - held = f - 1
      BY <1>8, <2>1, <2>4
    <3>2. id(at(f) - 1) = handed + (at(f) - 1) - held
      BY <1>11, <3>1
    <3> HIDE DEF id, at
    <3> QED
      BY <2>2, <2>4, <3>1, <3>2
  <2> QED
    BY <2>3, <2>4
<1>15. folders' = Branched(folders, handed, s, p, new, names)
  <2> HIDE DEF id, at, names, new, p
  <2> QED
    BY <1>1, <1>13, <1>14 DEF Branched
<1>16. /\ deepest \in Nat /\ deepest' \in Nat /\ deepest <= deepest' /\ N <= deepest'
       /\ deepest' <= Ceiling /\ Ceiling \in Nat /\ depthLimit \in 1..Ceiling /\ depthLimit <= deepest
  <2>1. deepest \in Nat /\ deepest <= Ceiling /\ Ceiling \in Nat /\ depthLimit \in 1..Ceiling /\ depthLimit <= deepest
    BY FoldersAssumption DEF FoldersInv, FoldersTypeOK
  <2>2. \E n \in {deepest, N} : \A k \in {deepest, N} : k <= n
    BY <1>3, <2>1
  <2>3. deepest' \in {deepest, N} /\ \A k \in {deepest, N} : k <= deepest'
    BY <1>1, <2>2 DEF Tallest
  <2> QED
    BY <1>3, <2>1, <2>3
<1>17. IsForest(folders', handed', deepest')
  <2>1. IsForest(folders, handed, deepest') /\ d \in Ranks(folders, deepest')
    BY <1>2, <1>8, <1>16, ForestRaised DEF FoldersInv
  <2>2. \A k \in 1..new : names[k] \in FolderNames
    <3>1. \A k \in 1..new : held + k \in 1..N
      BY <1>8
    <3> QED
      BY <1>3, <3>1 DEF N
  <2>3. new > 0 => names[1] = path[held + 1]
    BY <1>8
  <2>4. d[p] + new <= deepest' /\ handed' = handed + new
    <3> HIDE DEF p
    <3> QED
      BY <1>1, <1>8, <1>10, <1>16
  <2> HIDE DEF p, new, names
  <2> QED
    BY <1>8, <1>10, <1>12, <1>15, <1>16, <2>1, <2>2, <2>3, <2>4, BranchAdded
<1>18. DOMAIN folders' = DOMAIN folders \cup made /\ \A f \in DOMAIN folders : folders'[f] = folders[f]
  <2>1. \A f \in DOMAIN folders : f \notin made
    <3>1. DOMAIN folders \subseteq 1..handed
      BY DEF FoldersInv, IsForest
    <3>2. \A f \in (handed + 1)..(handed + new) : f \notin 1..handed
      BY <1>8
    <3> HIDE DEF made, new
    <3> QED
      BY <1>13, <3>1, <3>2
  <2> HIDE DEF made, id, at
  <2> QED
    BY <1>1, <2>1
<1>19. id(N) \in DOMAIN folders' /\ folders'[id(N)].scope = s
  <2>1. CASE new = 0
    <3>1. N = held /\ id(N) = p /\ p # 0
      <4>1. N = held
        BY <1>8, <2>1
      <4>2. d[0] = 0
        BY <1>2, RankFacts
      <4> HIDE DEF p, id
      <4> QED
        BY <1>3, <1>10, <4>1, <4>2 DEF p
    <3> HIDE DEF p, id, made
    <3> QED
      BY <3>1, <1>10, <1>18
  <2>2. CASE new # 0
    <3>1. N \in (held + 1)..N /\ handed + N - held = handed + new /\ handed + new \in (handed + 1)..(handed + new)
      BY <1>8, <2>2
    <3>2. id(N) = handed + new /\ id(N) \in made
      BY <1>11, <1>13, <3>1
    <3>3. id(N) \in DOMAIN folders' /\ folders'[id(N)] = [scope |-> s, parent |-> id(at(id(N)) - 1), name |-> path[at(id(N))]]
      <4> HIDE DEF id, at, made, new
      <4> QED
        BY <1>1, <3>2
    <3> HIDE DEF id, at, made, new
    <3> QED
      BY <3>3
  <2> QED
    BY <2>1, <2>2
<1> HIDE DEF id, at, made, new, names, p
<1>20. FoldersTypeOK'
  <2>1. handed' \in Nat /\ handed <= handed' /\ deepest' \in depthLimit'..Ceiling
    BY <1>1, <1>8, <1>16 DEF new
  <2>2. id(N) \in 0..handed'
    <3>1. DOMAIN folders' \subseteq 1..handed'
      BY <1>17 DEF IsForest
    <3> QED
      BY <1>19, <2>1, <3>1
  <2>3. member' \in [FolderRecords -> 0..handed']
    <3>1. member \in [FolderRecords -> 0..handed] /\ 0..handed \subseteq 0..handed'
      BY <1>8, <2>1 DEF FoldersInv, FoldersTypeOK
    <3>2. member \in [FolderRecords -> 0..handed']
      BY <3>1
    <3> QED
      BY <1>1, <2>2, <3>2
  <2> QED
    BY <1>1, <2>1, <2>3 DEF FoldersInv, FoldersTypeOK
<1>21. ~lapse' => triggers' /\ FiledRight(folders', member', scopeOf')
  <2>1. SUFFICES ASSUME ~lapse, NEW q \in FolderRecords, member'[q] # 0
                 PROVE  triggers /\ member'[q] \in DOMAIN folders' /\ scopeOf[q] = folders'[member'[q]].scope
    BY <1>1 DEF FiledRight, FoldersInv
  <2>2. triggers /\ FiledRight(folders, member, scopeOf) /\ member \in [FolderRecords -> 0..handed]
    BY <2>1 DEF FoldersInv, FoldersTypeOK
  <2>3. CASE q = r /\ scopeOf[r] = s /\ member[r] = 0
    BY <1>1, <1>19, <2>2, <2>3
  <2>4. CASE ~(q = r /\ scopeOf[r] = s /\ member[r] = 0)
    <3>1. member'[q] = member[q]
      BY <1>1, <2>2, <2>4
    <3> QED
      BY <1>18, <2>1, <2>2, <3>1 DEF FiledRight
  <2> QED
    BY <2>3, <2>4
<1> QED
  BY <1>17, <1>20, <1>21 DEF FoldersInv

\* However folders are created, renamed, moved, carried in and deleted beside records that
\* come and go (_apply, carry, the triggers): the tree stays a tree, records stay filed in
\* their own scope, and the view counts each once (FoldersSound), for any names, limits,
\* records and number of folders.
THEOREM FoldersStaySound == FoldersSpec => []FoldersSound
<1>1. FoldersInit => FoldersInv
  BY FoldersStart
<1>2. FoldersInv /\ [FoldersNext]_folderVars => FoldersInv'
  <2> SUFFICES ASSUME FoldersInv, [FoldersNext]_folderVars  PROVE FoldersInv'
    OBVIOUS
  <2>1. CASE UNCHANGED folderVars
    BY <2>1, RecordStepsKeep
  <2>2. CASE FoldersNext
    BY <2>2, RecordStepsKeep, FileRecordKeeps, CarryKeeps, CreateKeeps, DeleteFolderKeeps, RenameKeeps,
       MoveKeeps, WipeKeeps DEF FoldersNext
  <2> QED
    BY <2>1, <2>2
<1>3. FoldersInv => FoldersSound
  BY FoldersInvIsSound
<1> QED
  BY <1>1, <1>2, <1>3, PTL DEF FoldersSpec

----------------------------------------------------------------------------
(* Recall: lists                                                           *)

\* A list that has nothing twice.
Once(list) == \A j, k \in DOMAIN list : list[j] = list[k] => j = k

\* A list that has every element of S once, and no other.
Lists(list, S) ==
    /\ list \in Seq(S) /\ Len(list) = Cardinality(S) /\ DOMAIN list = 1..Cardinality(S)
    /\ Once(list)
    /\ \A x \in S : \E k \in DOMAIN list : list[k] = x

\* Sorting by keys that differ lists the set.
LEMMA KeyedFacts ==
    ASSUME NEW S, IsFiniteSet(S), NEW key \in [S -> Int], \A x, y \in S : key[x] = key[y] => x = y
    PROVE  Lists(ByKey(S, key), S) /\ Cardinality(S) \in Nat
<1> DEFINE R == {p \in S \X S : key[p[1]] < key[p[2]]}
           list == ByKey(S, key)
<1>1. \A x, y \in S : <<x, y>> \in R <=> key[x] < key[y]
  OBVIOUS
<1>2. IsStrictOrder(S, R)
  <2> HIDE DEF R
  <2>1. \A x \in S : key[x] \in Int
    OBVIOUS
  <2>2. \A x \in S : <<x, x>> \notin R
    BY <1>1, <2>1
  <2>3. ASSUME NEW x \in S, NEW y \in S, NEW z \in S, <<x, y>> \in R, <<y, z>> \in R  PROVE <<x, z>> \in R
    <3>1. key[x] < key[y] /\ key[y] < key[z] /\ key[x] \in Int /\ key[y] \in Int /\ key[z] \in Int
      BY <1>1, <2>1, <2>3
    <3>2. key[x] < key[z]
      BY <3>1
    <3> QED
      BY <1>1, <3>2
  <2>4. ASSUME NEW x \in S, NEW y \in S  PROVE x = y \/ <<x, y>> \in R \/ <<y, x>> \in R
    <3>1. key[x] = key[y] \/ key[x] < key[y] \/ key[y] < key[x]
      BY <2>1
    <3> QED
      BY <1>1, <3>1
  <2> QED
    BY <2>2, <2>3, <2>4 DEF IsStrictOrder
<1>3. list = InOrder(S, R)
  <2> DEFINE early(x) == Cardinality({y \in S : key[y] < key[x]})
  <2>1. \A x \in S : early(x) = PlaceOf(S, R, x)
    <3> TAKE x \in S
    <3>1. {y \in S : key[y] < key[x]} = Ahead(S, R, x)
      BY <1>1 DEF Ahead
    <3> QED
      BY <3>1 DEF PlaceOf
  <2>2. list = [k \in 1..Cardinality(S) |-> CHOOSE x \in S : early(x) = k - 1]
    BY DEF ByKey
  <2>3. ASSUME NEW k
        PROVE  (CHOOSE x \in S : early(x) = k - 1) = CHOOSE x \in S : PlaceOf(S, R, x) = k - 1
    <3> HIDE DEF early, R
    <3> QED
      BY <2>1
  <2> QED
    BY <2>2, <2>3 DEF InOrder
<1> HIDE DEF R, list
<1>4. /\ Cardinality(S) \in Nat /\ list \in [1..Cardinality(S) -> S]
      /\ \A k \in 1..Cardinality(S) : PlaceOf(S, R, list[k]) = k - 1
      /\ \A x \in S : \E k \in 1..Cardinality(S) : list[k] = x
  BY <1>2, <1>3, InOrderFacts
<1>5. list \in Seq(S) /\ Len(list) = Cardinality(S) /\ DOMAIN list = 1..Cardinality(S)
  BY <1>4, AsList
<1>6. Once(list)
  <2> SUFFICES ASSUME NEW j \in DOMAIN list, NEW k \in DOMAIN list, list[j] = list[k]  PROVE j = k
    BY DEF Once
  <2>1. j - 1 = k - 1 /\ j \in Int /\ k \in Int
    BY <1>4, <1>5
  <2> QED
    BY <2>1
<1> QED
  BY <1>4, <1>5, <1>6 DEF Lists, list

\* A list is as long as its positions, and what it lists are its elements.
LEMMA ListElements ==
    ASSUME NEW S, NEW list, Lists(list, S)
    PROVE  ToSet(list) = S
<1>1. \A k \in DOMAIN list : list[k] \in S
  BY ElementOfSeq DEF Lists
<1> QED
  BY <1>1 DEF Lists, ToSet

\* The positions of a list, as many as its elements and in their order.
LEMMA PositionsFacts ==
    ASSUME NEW n \in Nat, NEW kept, kept \subseteq 1..n
    PROVE  /\ Lists(ByKey(kept, [k \in kept |-> k]), kept)
           /\ IsFiniteSet(kept) /\ Cardinality(kept) \in Nat /\ Cardinality(kept) <= n
<1> DEFINE key == [k \in kept |-> k]
<1>1. IsFiniteSet(1..n) /\ Cardinality(1..n) = n
  <2>1. 1 \in Int /\ n \in Int
    OBVIOUS
  <2>2. Cardinality(1..n) = IF 1 > n THEN 0 ELSE n - 1 + 1
    BY <2>1, FS_Interval
  <2> QED
    BY <2>1, <2>2, FS_Interval
<1>2. IsFiniteSet(kept) /\ Cardinality(kept) <= n
  BY <1>1, FS_Subset
<1>3. key \in [kept -> Int] /\ \A x, y \in kept : key[x] = key[y] => x = y
  OBVIOUS
<1>4. Lists(ByKey(kept, key), kept) /\ Cardinality(kept) \in Nat
  <2> HIDE DEF key
  <2> QED
    BY <1>2, <1>3, KeyedFacts
<1> QED
  BY <1>2, <1>4

\* What is kept of a list: as many elements as positions, each of one of them, in one
\* place each.
LEMMA KeptFacts ==
    ASSUME NEW T, NEW list \in Seq(T), NEW kept, kept \subseteq DOMAIN list
    PROVE  /\ Keeping(list, kept) \in Seq(T)
           /\ Len(Keeping(list, kept)) = Cardinality(kept) /\ Cardinality(kept) \in Nat
           /\ Cardinality(kept) <= Len(list)
           /\ DOMAIN Keeping(list, kept) = 1..Cardinality(kept)
           /\ \E pos \in [1..Cardinality(kept) -> kept] :
                 /\ \A n \in 1..Cardinality(kept) : Keeping(list, kept)[n] = list[pos[n]]
                 /\ Once(pos)
                 /\ \A k \in kept : \E n \in 1..Cardinality(kept) : pos[n] = k
<1> DEFINE pos == ByKey(kept, [k \in kept |-> k])
           N == Cardinality(kept)
           part == Keeping(list, kept)
<1>1. DOMAIN list = 1..Len(list) /\ Len(list) \in Nat
  BY LenProperties
<1>2. Lists(pos, kept) /\ N \in Nat /\ N <= Len(list)
  <2>1. kept \subseteq 1..Len(list)
    BY <1>1
  <2> QED
    BY <1>1, <2>1, PositionsFacts
<1>3. part = [n \in 1..N |-> list[pos[n]]]
  BY DEF Keeping
<1> HIDE DEF pos, N, part
<1>4. /\ pos \in [1..N -> kept] /\ DOMAIN pos = 1..N /\ Once(pos)
      /\ \A k \in kept : \E n \in 1..N : pos[n] = k
  <2>1. pos \in Seq(kept) /\ Len(pos) = N /\ DOMAIN pos = 1..N
    BY <1>2 DEF Lists, N
  <2>2. pos \in [1..N -> kept]
    BY <2>1, LenProperties
  <2> QED
    BY <1>2, <2>1, <2>2 DEF Lists
<1>5. \A n \in 1..N : list[pos[n]] \in T
  <2> TAKE n \in 1..N
  <2>1. pos[n] \in DOMAIN list
    BY <1>4
  <2> QED
    BY <1>1, <2>1, ElementOfSeq
<1>6. part \in [1..N -> T]
  BY <1>3, <1>5
<1>7. part \in Seq(T) /\ Len(part) = N /\ DOMAIN part = 1..N
  BY <1>2, <1>6, AsList
<1>8. \A n \in 1..N : part[n] = list[pos[n]]
  BY <1>3
<1> QED
  BY <1>2, <1>4, <1>7, <1>8 DEF part, N

\* A cut is the beginning of the list, no longer than it was asked for.
LEMMA TakeFacts ==
    ASSUME NEW T, NEW list \in Seq(T), NEW n \in Nat
    PROVE  /\ Take(list, n) \in Seq(T)
           /\ Len(Take(list, n)) \in Nat /\ Len(Take(list, n)) <= n /\ Len(Take(list, n)) <= Len(list)
           /\ DOMAIN Take(list, n) = 1..Len(Take(list, n)) /\ DOMAIN Take(list, n) \subseteq DOMAIN list
           /\ \A k \in DOMAIN Take(list, n) : Take(list, n)[k] = list[k]
           /\ n > 0 /\ list # <<>> => Take(list, n) # <<>>
<1> DEFINE m == Lesser(n, Len(list))
           cut == Take(list, n)
<1>1. Len(list) \in Nat /\ DOMAIN list = 1..Len(list) /\ (Len(list) = 0 => list = <<>>)
  BY LenProperties, EmptySeq
<1>2. m \in Nat /\ m <= n /\ m <= Len(list) /\ (n > 0 /\ Len(list) # 0 => m # 0)
  BY <1>1 DEF Lesser
<1>3. cut = [k \in 1..m |-> list[k]]
  BY DEF Take
<1> HIDE DEF m, cut
<1>4. \A k \in 1..m : k \in DOMAIN list /\ list[k] \in T
  <2> TAKE k \in 1..m
  <2>1. k \in 1..Len(list)
    BY <1>1, <1>2
  <2> QED
    BY <1>1, <2>1, ElementOfSeq
<1>5. cut \in [1..m -> T]
  BY <1>3, <1>4
<1>6. cut \in Seq(T) /\ Len(cut) = m /\ DOMAIN cut = 1..m
  BY <1>2, <1>5, AsList
<1>7. \A k \in 1..m : cut[k] = list[k]
  BY <1>3
<1>8. m # 0 => cut # <<>>
  <2>1. cut = <<>> => Len(cut) = 0
    BY EmptySeq
  <2> QED
    BY <1>6, <2>1
<1> QED
  BY <1>1, <1>2, <1>4, <1>6, <1>7, <1>8 DEF cut

----------------------------------------------------------------------------
(* Recall: what the arms find                                              *)

\* Two keys over one another: the first decides, the second stays under it.
LEMMA TwoKeys ==
    ASSUME NEW m \in Nat, NEW a \in Int, NEW b \in Int, NEW j \in Int, NEW k \in Int,
           j - k <= m, k - j <= m, a * (m + 1) + j = b * (m + 1) + k
    PROVE  a = b /\ j = k
<1>1. CASE a = b
  BY <1>1
<1>2. ASSUME NEW x \in Int, NEW y \in Int, x < y  PROVE x * (m + 1) + (m + 1) <= y * (m + 1)
  <2>1. y - x - 1 \in Nat
    BY <1>2
  <2>2. \A p \in Nat : p * (m + 1) >= 0
    OBVIOUS
  <2>3. (y - x - 1) * (m + 1) >= 0
    BY <2>1, <2>2
  <2>4. (y - x - 1) * (m + 1) = y * (m + 1) - x * (m + 1) - (m + 1)
    OBVIOUS
  <2>5. x * (m + 1) \in Int /\ y * (m + 1) \in Int
    OBVIOUS
  <2> QED
    BY <2>3, <2>4, <2>5
<1>3. a * (m + 1) \in Int /\ b * (m + 1) \in Int
  OBVIOUS
<1>4. ~(a < b) /\ ~(b < a)
  BY <1>2, <1>3
<1> QED
  BY <1>1, <1>4

\* Records in a list, none twice.
IdList(ids) == ids \in Seq(RIds) /\ Once(ids)

\* The store as the arms may find it.
StoreOK == rstore \in [RIds -> Profiles \cup {NoRow}]

LEMMA NoIds == IdList(<<>>) /\ ToSet(<<>>) = {}
<1>1. <<>> \in Seq(RIds) /\ Len(<<>>) = 0
  BY EmptySeq
<1>2. DOMAIN <<>> = 1..0
  BY <1>1, LenProperties
<1>3. DOMAIN <<>> = {}
  BY <1>2
<1> QED
  BY <1>1, <1>3 DEF IdList, Once, ToSet

\* Some records by their key, as a list.
LEMMA IdsByKey ==
    ASSUME NEW S, S \subseteq RIds, NEW key \in [S -> Int], \A x, y \in S : key[x] = key[y] => x = y
    PROVE  IdList(ByKey(S, key)) /\ ToSet(ByKey(S, key)) = S
<1>1. IsFiniteSet(S)
  BY RecallConstants, FS_Subset DEF RecallConstants
<1>2. Lists(ByKey(S, key), S)
  BY <1>1, KeyedFacts
<1>3. ByKey(S, key) \in Seq(RIds)
  BY <1>2, SeqMonotonic DEF Lists
<1> QED
  BY <1>2, <1>3, ListElements DEF IdList, Lists

\* The records and their number.
LEMMA RecordNumbers == Cardinality(RIds) \in Nat /\ Many \in Nat /\ \A i \in RIds : i \in Int /\ 1 <= i /\ i < Many
<1>1. Cardinality(RIds) \in Nat /\ RIds = 1..Cardinality(RIds)
  BY RecallConstants, FS_CardinalityType DEF RecallConstants
<1> QED
  BY <1>1 DEF Many

LEMMA IdsByAge ==
    ASSUME NEW S, S \subseteq RIds
    PROVE  IdList(ByAge(S)) /\ ToSet(ByAge(S)) = S
<1> DEFINE key == [i \in S |-> i]
<1>1. key \in [S -> Int] /\ \A x, y \in S : key[x] = key[y] => x = y
  BY RecordNumbers
<1>2. ByAge(S) = ByKey(S, key)
  BY DEF ByAge
<1> HIDE DEF key
<1> QED
  BY <1>1, <1>2, IdsByKey

\* Whatever the first keys are, the records' numbers under them keep the keys apart.
LEMMA IdsApart ==
    ASSUME NEW x \in RIds, NEW y \in RIds, NEW a \in Int, NEW b \in Int,
           a * Many - x = b * Many - y \/ a * Many + x = b * Many + y
    PROVE  x = y
<1>1. Cardinality(RIds) \in Nat /\ Many = Cardinality(RIds) + 1 /\ x \in Int /\ y \in Int
      /\ x - y <= Cardinality(RIds) /\ y - x <= Cardinality(RIds)
  BY RecordNumbers DEF Many
<1> DEFINE m == Cardinality(RIds)
<1> HIDE DEF m
<1>2. m \in Nat /\ Many = m + 1 /\ x - y <= m /\ y - x <= m
  BY <1>1 DEF m
<1>3. CASE a * Many - x = b * Many - y
  <2>1. -x \in Int /\ -y \in Int /\ (-x) - (-y) <= m /\ (-y) - (-x) <= m
    BY <1>1, <1>2
  <2>2. a * (m + 1) \in Int /\ b * (m + 1) \in Int
    BY <1>2
  <2>3. a * (m + 1) + (-x) = b * (m + 1) + (-y)
    BY <1>1, <1>2, <1>3, <2>2
  <2>4. -x = -y
    BY <1>2, <2>1, <2>3, TwoKeys
  <2> QED
    BY <1>1, <2>4
<1>4. CASE a * Many + x = b * Many + y
  BY <1>1, <1>2, <1>4, TwoKeys, ZenonT(30)
<1> QED
  BY <1>3, <1>4

LEMMA IdsByCosine ==
    ASSUME StoreOK, NEW S, S \subseteq Vectored
    PROVE  IdList(Cosines(S)) /\ ToSet(Cosines(S)) = S
<1> DEFINE key == [i \in S |-> (2 - rstore[i].cos) * Many - i]
<1>1. S \subseteq RIds /\ \A i \in S : 2 - rstore[i].cos \in Int /\ i \in Int /\ Many \in Int
  <2>1. \A i \in S : i \in RIds /\ rstore[i] \in Profiles
    BY DEF StoreOK, Vectored, InScope_
  <2>2. \A i \in S : rstore[i].cos \in 0..3
    BY <2>1, RecallConstants DEF RecallConstants
  <2> QED
    BY <2>1, <2>2, RecordNumbers
<1>2. \A i \in S : (2 - rstore[i].cos) * Many - i \in Int
  <2> TAKE i \in S
  <2>1. PICK a \in Int : a = 2 - rstore[i].cos
    BY <1>1
  <2>2. a * Many - i \in Int
    BY <1>1
  <2> QED
    BY <2>1, <2>2
<1>3. key \in [S -> Int]
  BY <1>2
<1>4. ASSUME NEW x \in S, NEW y \in S, key[x] = key[y]  PROVE x = y
  <2>1. PICK a \in Int, b \in Int : a = 2 - rstore[x].cos /\ b = 2 - rstore[y].cos
    BY <1>1
  <2>2. a * Many - x = b * Many - y
    BY <1>4, <2>1
  <2> QED
    BY <1>1, <2>2, IdsApart
<1>5. Cosines(S) = ByKey(S, key)
  BY DEF Cosines
<1> HIDE DEF key
<1> QED
  BY <1>1, <1>3, <1>4, <1>5, IdsByKey

\* A part of such a list.
LEMMA IdsKept ==
    ASSUME NEW ids, IdList(ids), NEW kept, kept \subseteq DOMAIN ids
    PROVE  IdList(Keeping(ids, kept)) /\ ToSet(Keeping(ids, kept)) = {ids[k] : k \in kept}
<1> DEFINE part == Keeping(ids, kept)
           N == Cardinality(kept)
<1>1. part \in Seq(RIds) /\ DOMAIN part = 1..N
  BY KeptFacts DEF IdList
<1>2. PICK pos \in [1..N -> kept] :
          /\ \A n \in 1..N : part[n] = ids[pos[n]]
          /\ Once(pos)
          /\ \A k \in kept : \E n \in 1..N : pos[n] = k
  BY KeptFacts DEF IdList
<1> HIDE DEF part, N
<1>3. Once(part)
  BY <1>1, <1>2 DEF IdList, Once
<1>4. ToSet(part) = {ids[k] : k \in kept}
  BY <1>1, <1>2 DEF ToSet
<1> QED
  BY <1>1, <1>3, <1>4 DEF IdList, part

LEMMA IdsTaken ==
    ASSUME NEW ids, IdList(ids), NEW n \in Nat
    PROVE  /\ IdList(Take(ids, n)) /\ ToSet(Take(ids, n)) \subseteq ToSet(ids)
           /\ Len(Take(ids, n)) \in Nat /\ Len(Take(ids, n)) <= n
<1>1. /\ Take(ids, n) \in Seq(RIds) /\ Len(Take(ids, n)) \in Nat /\ Len(Take(ids, n)) <= n
      /\ DOMAIN Take(ids, n) \subseteq DOMAIN ids
      /\ \A k \in DOMAIN Take(ids, n) : Take(ids, n)[k] = ids[k]
  BY TakeFacts DEF IdList
<1> QED
  BY <1>1 DEF IdList, Once, ToSet

\* What the arms read, each for itself: a list of records.
LEMMA ArmsRead ==
    ASSUME StoreOK, NEW depth \in Nat, NEW exclude
    PROVE  /\ IdList(NearList(depth)) /\ IdList(FarList(depth)) /\ IdList(WordList(depth))
           /\ IdList(Take(ByAge({i \in RIds \ exclude : InScope_(i) /\ rstore[i].block}), depth))
           /\ ToSet(Take(ByAge({i \in RIds \ exclude : InScope_(i) /\ rstore[i].block}), depth)) \cap exclude = {}
           /\ IdList(Cosines({i \in Vectored : Newer(i) >= Reach /\ rstore[i].cos > 0}))
<1> DEFINE near == {i \in Vectored : Newer(i) < Window /\ rstore[i].cos > 0}
           far == {i \in Vectored : Newer(i) \in Window..(Reach - 1) /\ rstore[i].cos > 0}
           past == {i \in Vectored : Newer(i) >= Reach /\ rstore[i].cos > 0}
           lex == {i \in RIds : InScope_(i) /\ rstore[i].lex}
           block == {i \in RIds \ exclude : InScope_(i) /\ rstore[i].block}
<1>1. near \subseteq Vectored /\ far \subseteq Vectored /\ past \subseteq Vectored
  OBVIOUS
<1>2. lex \subseteq RIds /\ block \subseteq RIds /\ block \cap exclude = {}
  OBVIOUS
<1>3. /\ NearList(depth) = Take(Cosines(near), depth) /\ FarList(depth) = Take(Cosines(far), depth)
      /\ WordList(depth) = Take(ByAge(lex), depth)
  BY DEF NearList, FarList, WordList
<1> HIDE DEF near, far, past, lex, block
<1>4. IdList(Cosines(near)) /\ IdList(Cosines(far)) /\ IdList(Cosines(past))
  BY <1>1, IdsByCosine
<1>5. IdList(ByAge(lex)) /\ IdList(ByAge(block)) /\ ToSet(ByAge(block)) = block
  BY <1>2, IdsByAge
<1>6. IdList(Take(Cosines(near), depth)) /\ IdList(Take(Cosines(far), depth)) /\ IdList(Take(ByAge(lex), depth))
  BY <1>4, <1>5, IdsTaken
<1>7. IdList(Take(ByAge(block), depth)) /\ ToSet(Take(ByAge(block), depth)) \subseteq block
  BY <1>5, IdsTaken
<1> QED
  BY <1>2, <1>3, <1>4, <1>6, <1>7 DEF block, past

\* A vote is a whole number.
LEMMA VotesAreWhole ==
    ASSUME NEW list, IdList(list), NEW i
    PROVE  VoteOf(list, i) \in Int
<1>1. CASE i \in ToSet(list)
  <2>1. \E k \in DOMAIN list : list[k] = i
    BY <1>1 DEF ToSet
  <2>2. Rank(list, i) \in DOMAIN list
    BY <2>1 DEF Rank
  <2>3. Rank(list, i) \in Nat
    BY <2>2, LenProperties DEF IdList
  <2>4. PICK r \in Nat : r = Rank(list, i)
    BY <2>3
  <2>5. VoteUnit \in Nat
    BY RecallConstants DEF RecallConstants
  <2>6. VoteUnit \div (60 + r) \in Int
    BY <2>5
  <2> QED
    BY <1>1, <2>4, <2>6 DEF VoteOf, Vote
<1>2. CASE i \notin ToSet(list)
  BY <1>2 DEF VoteOf
<1> QED
  BY <1>1, <1>2

----------------------------------------------------------------------------
(* Recall: the rows of the ranking                                         *)

FoundRow == [id : RIds, votes : Int, lexOnly : BOOLEAN, cos : Int, single : BOOLEAN]

\* Rows of records, none twice.
RowList(rows) == rows \in Seq(FoundRow) /\ Once(RowIds(rows))

\* What the vectors answered.
VectorAnswer == [near : Seq(RIds), far : Seq(RIds), cos : [RIds -> Int]]
VectorOK(vec) == vec \in VectorAnswer /\ Once(vec.near) /\ Once(vec.far)

LEMMA RowIdsFacts ==
    ASSUME NEW rows \in Seq(FoundRow)
    PROVE  /\ RowIds(rows) \in Seq(RIds) /\ Len(RowIds(rows)) = Len(rows)
           /\ DOMAIN RowIds(rows) = DOMAIN rows /\ DOMAIN rows = 1..Len(rows) /\ Len(rows) \in Nat
           /\ \A k \in DOMAIN rows : RowIds(rows)[k] = rows[k].id /\ rows[k] \in FoundRow /\ rows[k].id \in RIds
           /\ ToSet(RowIds(rows)) = IdsOf(rows)
<1>1. DOMAIN rows = 1..Len(rows) /\ Len(rows) \in Nat
  BY LenProperties
<1>2. \A k \in DOMAIN rows : rows[k] \in FoundRow /\ rows[k].id \in RIds
  <2>1. \A k \in DOMAIN rows : rows[k] \in FoundRow
    BY <1>1, ElementOfSeq
  <2>2. \A r \in FoundRow : r.id \in RIds
    BY DEF FoundRow
  <2> QED
    BY <2>1, <2>2
<1>3. RowIds(rows) = [k \in 1..Len(rows) |-> rows[k].id]
  BY <1>1 DEF RowIds
<1>4. RowIds(rows) \in [1..Len(rows) -> RIds]
  BY <1>1, <1>2, <1>3
<1>5. RowIds(rows) \in Seq(RIds) /\ Len(RowIds(rows)) = Len(rows) /\ DOMAIN RowIds(rows) = 1..Len(rows)
  BY <1>1, <1>4, AsList
<1>6. \A k \in DOMAIN rows : RowIds(rows)[k] = rows[k].id
  BY <1>1, <1>3
<1> QED
  BY <1>1, <1>2, <1>5, <1>6 DEF ToSet, IdsOf

\* A part of the rows.
LEMMA RowsKept ==
    ASSUME NEW rows, RowList(rows), NEW kept, kept \subseteq DOMAIN rows
    PROVE  /\ RowList(Keeping(rows, kept)) /\ Len(Keeping(rows, kept)) <= Len(rows)
           /\ IdsOf(Keeping(rows, kept)) = {rows[k].id : k \in kept}
           /\ \A n \in DOMAIN Keeping(rows, kept) : \E k \in kept : Keeping(rows, kept)[n] = rows[k]
           /\ \A k \in kept : \E n \in DOMAIN Keeping(rows, kept) : Keeping(rows, kept)[n] = rows[k]
<1> DEFINE part == Keeping(rows, kept)
           N == Cardinality(kept)
<1>1. part \in Seq(FoundRow) /\ DOMAIN part = 1..N /\ Len(part) <= Len(rows)
  <2>1. part \in Seq(FoundRow) /\ DOMAIN part = 1..N /\ Len(part) = N /\ N <= Len(rows)
    BY KeptFacts DEF RowList
  <2> QED
    BY <2>1
<1>2. PICK pos \in [1..N -> kept] :
          /\ \A n \in 1..N : part[n] = rows[pos[n]]
          /\ Once(pos)
          /\ \A k \in kept : \E n \in 1..N : pos[n] = k
  BY KeptFacts DEF RowList
<1> HIDE DEF part, N
<1>3. Once(RowIds(part))
  <2> SUFFICES ASSUME NEW j \in DOMAIN part, NEW k \in DOMAIN part, part[j].id = part[k].id  PROVE j = k
    BY <1>1, RowIdsFacts DEF Once
  <2>1. j \in 1..N /\ k \in 1..N /\ pos[j] \in DOMAIN rows /\ pos[k] \in DOMAIN rows
    BY <1>1, <1>2
  <2>2. rows[pos[j]].id = rows[pos[k]].id
    BY <1>2, <2>1
  <2>3. \A a, b \in DOMAIN rows : rows[a].id = rows[b].id => a = b
    BY RowIdsFacts DEF RowList, Once
  <2>4. pos[j] = pos[k]
    BY <2>1, <2>2, <2>3
  <2> QED
    BY <1>2, <2>1, <2>4 DEF Once
<1>4. /\ \A n \in DOMAIN part : \E k \in kept : part[n] = rows[k]
      /\ \A k \in kept : \E n \in DOMAIN part : part[n] = rows[k]
  BY <1>1, <1>2
<1>5. IdsOf(part) = {rows[k].id : k \in kept}
  BY <1>4 DEF IdsOf
<1> QED
  BY <1>1, <1>3, <1>4, <1>5 DEF RowList, part

\* A cut of the rows.
LEMMA RowsTaken ==
    ASSUME NEW rows, RowList(rows), NEW n \in Nat
    PROVE  /\ RowList(Take(rows, n)) /\ IdsOf(Take(rows, n)) \subseteq IdsOf(rows)
           /\ Len(Take(rows, n)) \in Nat /\ Len(Take(rows, n)) <= n
<1> DEFINE cut == Take(rows, n)
<1>1. /\ cut \in Seq(FoundRow) /\ Len(cut) \in Nat /\ Len(cut) <= n /\ DOMAIN cut \subseteq DOMAIN rows
      /\ \A k \in DOMAIN cut : cut[k] = rows[k]
  BY TakeFacts DEF RowList
<1> HIDE DEF cut
<1>2. Once(RowIds(cut))
  <2> SUFFICES ASSUME NEW j \in DOMAIN cut, NEW k \in DOMAIN cut, cut[j].id = cut[k].id  PROVE j = k
    BY <1>1, RowIdsFacts DEF Once
  <2>1. \A a, b \in DOMAIN rows : rows[a].id = rows[b].id => a = b
    BY RowIdsFacts DEF RowList, Once
  <2> QED
    BY <1>1, <2>1
<1>3. IdsOf(cut) \subseteq IdsOf(rows)
  BY <1>1 DEF IdsOf
<1> QED
  BY <1>1, <1>2, <1>3 DEF RowList, cut

\* The parts of the ledger move rows, and lose or repeat none.
LEMMA RowsPartsFirst ==
    ASSUME NEW rows, RowList(rows)
    PROVE  RowList(PartsFirst(rows)) /\ IdsOf(PartsFirst(rows)) = IdsOf(rows)
<1> DEFINE K == WithWords(rows)
           L == DOMAIN rows \ K
           a == Keeping(rows, K)
           b == Keeping(rows, L)
           both == a \o b
<1>1. K \subseteq DOMAIN rows /\ L \subseteq DOMAIN rows /\ K \cap L = {} /\ K \cup L = DOMAIN rows
  BY DEF WithWords
<1> HIDE DEF K, L
<1>2. /\ RowList(a) /\ RowList(b)
      /\ IdsOf(a) = {rows[k].id : k \in K} /\ IdsOf(b) = {rows[k].id : k \in L}
  BY <1>1, RowsKept
<1> HIDE DEF a, b
<1>3. /\ both \in Seq(FoundRow) /\ Len(both) = Len(a) + Len(b) /\ Len(a) \in Nat /\ Len(b) \in Nat
      /\ DOMAIN both = 1..(Len(a) + Len(b)) /\ DOMAIN a = 1..Len(a) /\ DOMAIN b = 1..Len(b)
      /\ \A k \in 1..Len(a) : both[k] = a[k]
      /\ \A k \in (Len(a) + 1)..(Len(a) + Len(b)) : both[k] = b[k - Len(a)]
  <2>1. a \in Seq(FoundRow) /\ b \in Seq(FoundRow)
    BY <1>2 DEF RowList
  <2>2. /\ both \in Seq(FoundRow) /\ Len(both) = Len(a) + Len(b)
        /\ \A k \in 1..(Len(a) + Len(b)) : both[k] = IF k <= Len(a) THEN a[k] ELSE b[k - Len(a)]
    BY <2>1, ConcatProperties
  <2>3. Len(a) \in Nat /\ Len(b) \in Nat /\ DOMAIN a = 1..Len(a) /\ DOMAIN b = 1..Len(b) /\ DOMAIN both = 1..Len(both)
    BY <2>1, <2>2, LenProperties
  <2> HIDE DEF both
  <2> QED
    BY <2>2, <2>3
<1> HIDE DEF both
<1>4. \A k \in DOMAIN both : \/ k \in DOMAIN a /\ both[k] = a[k]
                             \/ k - Len(a) \in DOMAIN b /\ both[k] = b[k - Len(a)] /\ k \notin DOMAIN a
  BY <1>3
<1>5. IdsOf(a) \cap IdsOf(b) = {}
  <2>1. \A j, k \in DOMAIN rows : rows[j].id = rows[k].id => j = k
    BY RowIdsFacts DEF RowList, Once
  <2> QED
    BY <1>1, <1>2, <2>1
<1>6. Once(RowIds(both))
  <2> SUFFICES ASSUME NEW j \in DOMAIN both, NEW k \in DOMAIN both, both[j].id = both[k].id  PROVE j = k
    BY <1>3, RowIdsFacts DEF Once
  <2>1. /\ \A m, n \in DOMAIN a : a[m].id = a[n].id => m = n
        /\ \A m, n \in DOMAIN b : b[m].id = b[n].id => m = n
    BY <1>2, RowIdsFacts DEF RowList, Once
  <2>2. \A m \in DOMAIN a, n \in DOMAIN b : a[m].id # b[n].id
    BY <1>5 DEF IdsOf
  <2>3. j \in Int /\ k \in Int /\ Len(a) \in Int
    BY <1>3
  <2>4. CASE j \in DOMAIN a /\ k \in DOMAIN a /\ both[j] = a[j] /\ both[k] = a[k]
    BY <2>1, <2>4
  <2>5. CASE j - Len(a) \in DOMAIN b /\ k - Len(a) \in DOMAIN b /\ both[j] = b[j - Len(a)] /\ both[k] = b[k - Len(a)]
    <3>1. j - Len(a) = k - Len(a)
      BY <2>1, <2>5
    <3> QED
      BY <2>3, <3>1
  <2> QED
    BY <1>4, <2>2, <2>4, <2>5
<1>7. IdsOf(both) = IdsOf(a) \cup IdsOf(b)
  <2>1. \A k \in DOMAIN a : k \in DOMAIN both /\ both[k] = a[k]
    BY <1>3
  <2>2. \A k \in DOMAIN b : Len(a) + k \in DOMAIN both /\ both[Len(a) + k] = b[k]
    <3> TAKE k \in DOMAIN b
    <3>1. k \in Nat /\ 1 <= k /\ k <= Len(b)
      BY <1>3
    <3>2. Len(a) + k \in (Len(a) + 1)..(Len(a) + Len(b)) /\ Len(a) + k - Len(a) = k /\ Len(a) + k \in 1..(Len(a) + Len(b))
      BY <1>3, <3>1
    <3> QED
      BY <1>3, <3>2
  <2> QED
    BY <1>4, <2>1, <2>2 DEF IdsOf
<1>8. IdsOf(both) = IdsOf(rows)
  BY <1>1, <1>2, <1>7 DEF IdsOf
<1>9. PartsFirst(rows) = both
  BY DEF PartsFirst, both, a, b, K, L
<1> QED
  BY <1>3, <1>6, <1>8, <1>9 DEF RowList

\* The lift moves rows, and loses or repeats none.
LEMMA RowsLifted ==
    ASSUME NEW rows, RowList(rows), NEW cueList, IdList(cueList), NEW bound \in Nat
    PROVE  /\ RowList(Lifted(rows, cueList, bound)) /\ Len(Lifted(rows, cueList, bound)) = Len(rows)
           /\ IdsOf(Lifted(rows, cueList, bound)) = IdsOf(rows)
<1> DEFINE L == Len(rows)
           key == [k \in DOMAIN rows |-> LiftKey(rows, cueList, bound, k)]
           order == LiftOrder(rows, cueList, bound)
           lifted == Lifted(rows, cueList, bound)
<1>1. rows \in Seq(FoundRow) /\ L \in Nat /\ DOMAIN rows = 1..L
  BY LenProperties DEF RowList
<1>2. \A k \in DOMAIN rows : \E a \in Int : LiftKey(rows, cueList, bound, k) = a * (L + 1) + k
  <2> TAKE k \in DOMAIN rows
  <2>0. k \in Nat /\ VoteUnit \in Nat /\ bound * VoteUnit * 61 \in Nat /\ k * VoteUnit \in Nat
    BY <1>1, RecallConstants DEF RecallConstants
  <2>1. ASSUME rows[k].id \in ToSet(cueList)
        PROVE  (bound * VoteUnit * 61) \div (60 + Rank(cueList, rows[k].id)) \in Int
    <3>1. \E n \in DOMAIN cueList : cueList[n] = rows[k].id
      BY <2>1 DEF ToSet
    <3>2. Rank(cueList, rows[k].id) \in DOMAIN cueList
      BY <3>1 DEF Rank
    <3>3. Rank(cueList, rows[k].id) \in Nat
      BY <3>2, LenProperties DEF IdList
    <3>4. PICK r \in Nat, v \in Nat : r = Rank(cueList, rows[k].id) /\ v = bound * VoteUnit * 61
      BY <2>0, <3>3
    <3>5. v \div (60 + r) \in Int
      OBVIOUS
    <3> QED
      BY <3>4, <3>5
  <2> DEFINE found == rows[k].id \in ToSet(cueList)
             moved == IF found THEN (bound * VoteUnit * 61) \div (60 + Rank(cueList, rows[k].id)) ELSE 0
             last == IF found THEN 0 ELSE 1
             first == 2 * (k * VoteUnit - moved) + last
  <2>2. LiftKey(rows, cueList, bound, k) = first * (L + 1) + k
    BY DEF LiftKey
  <2>3. moved \in Int
    BY <2>1
  <2>4. last \in Int
    OBVIOUS
  <2>5. first \in Int
    <3> HIDE DEF moved, last
    <3> QED
      BY <2>0, <2>3, <2>4
  <2> HIDE DEF first, L
  <2> QED
    BY <2>2, <2>5
<1>3. key \in [DOMAIN rows -> Int]
  <2>1. \A k \in DOMAIN rows, a \in Int : a * (L + 1) + k \in Int
    BY <1>1
  <2> QED
    BY <1>2, <2>1
<1>4. ASSUME NEW j \in DOMAIN rows, NEW k \in DOMAIN rows, key[j] = key[k]  PROVE j = k
  <2>1. PICK a \in Int, b \in Int : key[j] = a * (L + 1) + j /\ key[k] = b * (L + 1) + k
    BY <1>2
  <2>2. j \in Int /\ k \in Int /\ j - k <= L /\ k - j <= L
    BY <1>1
  <2> HIDE DEF L, key
  <2> QED
    BY <1>1, <1>4, <2>1, <2>2, TwoKeys
<1>5. order = ByKey(DOMAIN rows, key)
  BY DEF LiftOrder
<1>6. IsFiniteSet(DOMAIN rows) /\ Cardinality(DOMAIN rows) = L
  <2>1. 1 \in Int /\ L \in Int
    BY <1>1
  <2>2. Cardinality(1..L) = IF 1 > L THEN 0 ELSE L - 1 + 1
    BY <2>1, FS_Interval
  <2> QED
    BY <1>1, <2>1, <2>2, FS_Interval
<1>7. lifted = [k \in DOMAIN rows |-> rows[order[k]]]
  BY DEF Lifted
<1> HIDE DEF L, key, order, lifted
<1>8. Lists(order, DOMAIN rows)
  BY <1>3, <1>4, <1>5, <1>6, KeyedFacts
<1>9. /\ DOMAIN order = 1..L /\ \A k \in 1..L : order[k] \in DOMAIN rows
      /\ \A k \in DOMAIN rows : \E n \in 1..L : order[n] = k
      /\ \A j, k \in 1..L : order[j] = order[k] => j = k
  <2>1. order \in Seq(DOMAIN rows) /\ DOMAIN order = 1..L
    BY <1>6, <1>8 DEF Lists
  <2>2. \A k \in 1..L : order[k] \in DOMAIN rows
    BY <2>1, LenProperties
  <2> QED
    BY <1>8, <2>1, <2>2 DEF Lists, Once
<1>10. \A k \in 1..L : rows[order[k]] \in FoundRow
  BY <1>1, <1>9, RowIdsFacts
<1>11. lifted \in [1..L -> FoundRow] /\ \A k \in 1..L : lifted[k] = rows[order[k]]
  BY <1>1, <1>7, <1>10
<1>12. lifted \in Seq(FoundRow) /\ Len(lifted) = L /\ DOMAIN lifted = 1..L
  BY <1>1, <1>11, AsList
<1>13. Once(RowIds(lifted))
  <2> SUFFICES ASSUME NEW j \in DOMAIN lifted, NEW k \in DOMAIN lifted, lifted[j].id = lifted[k].id  PROVE j = k
    BY <1>12, RowIdsFacts DEF Once
  <2>1. \A a, b \in DOMAIN rows : rows[a].id = rows[b].id => a = b
    BY RowIdsFacts DEF RowList, Once
  <2>2. order[j] = order[k]
    BY <1>9, <1>11, <1>12, <2>1
  <2> QED
    BY <1>9, <1>12, <2>2
<1>14. IdsOf(lifted) = IdsOf(rows)
  BY <1>9, <1>11, <1>12 DEF IdsOf
<1> QED
  BY <1>12, <1>13, <1>14 DEF RowList, L, lifted

\* The votes of three arms, summed.
LEMMA VotesSum ==
    ASSUME NEW vec, VectorOK(vec), NEW words, IdList(words), NEW i
    PROVE  Votes(vec, words, i) \in Int
<1>1. IdList(vec.near) /\ IdList(vec.far)
  BY DEF VectorOK, VectorAnswer, IdList
<1>2. VoteOf(vec.near, i) \in Int /\ VoteOf(vec.far, i) \in Int /\ VoteOf(words, i) \in Int
  BY <1>1, VotesAreWhole
<1> QED
  BY <1>2 DEF Votes

\* The fusion ranks each record the arms brought once, and none the caller excluded.
LEMMA RowsFused ==
    ASSUME NEW vec, VectorOK(vec), NEW words, IdList(words), NEW exclude, NEW single
    PROVE  RowList(Fused(vec, words, exclude, single)) /\ IdsOf(Fused(vec, words, exclude, single)) \cap exclude = {}
<1> DEFINE arms == Arms(vec, words)
           L == Len(arms)
           at == Firsts(arms, exclude)
           key == [k \in at |-> k - (L + 1) * Votes(vec, words, arms[k])]
           order == FusedOrder(vec, words, exclude)
           rows == Fused(vec, words, exclude, single)
           N == Cardinality(at)
<1>1. arms \in Seq(RIds)
  <2>1. vec.near \in Seq(RIds) /\ vec.far \in Seq(RIds) /\ words \in Seq(RIds)
    BY DEF VectorOK, VectorAnswer, IdList
  <2>2. vec.near \o vec.far \in Seq(RIds)
    BY <2>1, ConcatProperties
  <2> QED
    BY <2>1, <2>2, ConcatProperties DEF Arms
<1>2. L \in Nat /\ DOMAIN arms = 1..L /\ \A k \in 1..L : arms[k] \in RIds
  BY <1>1, LenProperties
<1>3. /\ at \subseteq 1..L /\ \A k \in at : arms[k] \notin exclude
      /\ \A j, k \in at : j < k => arms[j] # arms[k]
  <2>1. at \subseteq 1..L /\ \A k \in at : arms[k] \notin exclude /\ \A j \in 1..(k - 1) : arms[j] # arms[k]
    BY <1>2 DEF Firsts
  <2> HIDE DEF at, arms, L
  <2>2. \A j, k \in at : j < k => j \in 1..(k - 1)
    BY <1>2, <2>1
  <2> QED
    BY <2>1, <2>2
<1>4. order = ByKey(at, key)
  BY DEF FusedOrder
<1>5. rows = [k \in DOMAIN order |-> FusedRow(vec, words, arms[order[k]], single)]
  BY DEF Fused
<1> HIDE DEF arms, L, at, order, rows
<1>6. \A k \in at : \E a \in Int : key[k] = a * (L + 1) + k
  <2> TAKE k \in at
  <2>1. PICK v \in Int : v = Votes(vec, words, arms[k])
    BY VotesSum
  <2>2. k \in Int /\ key[k] = k - (L + 1) * v
    BY <1>3, <2>1
  <2> HIDE DEF key
  <2>3. k - (L + 1) * v = (-v) * (L + 1) + k
    BY <1>2, <2>2
  <2> QED
    BY <2>2, <2>3
<1>7. key \in [at -> Int]
  <2>1. \A k \in at, a \in Int : a * (L + 1) + k \in Int
    BY <1>2, <1>3
  <2>2. \A k \in at : key[k] \in Int
    <3> HIDE DEF key
    <3> QED
      BY <1>6, <2>1
  <2>3. key = [k \in at |-> key[k]]
    OBVIOUS
  <2> HIDE DEF key
  <2> QED
    BY <2>2, <2>3
<1> HIDE DEF key
<1>8. ASSUME NEW j \in at, NEW k \in at, key[j] = key[k]  PROVE j = k
  <2>1. PICK a \in Int, b \in Int : key[j] = a * (L + 1) + j /\ key[k] = b * (L + 1) + k
    BY <1>6
  <2>2. j \in Int /\ k \in Int /\ j - k <= L /\ k - j <= L
    BY <1>2, <1>3
  <2>3. a * (L + 1) + j = b * (L + 1) + k
    BY <1>8, <2>1
  <2>4. L \in Nat
    BY <1>2
  <2> QED
    BY <2>2, <2>3, <2>4, TwoKeys
<1>9. IsFiniteSet(at) /\ N \in Nat
  BY <1>2, <1>3, PositionsFacts
<1>10. Lists(order, at)
  BY <1>4, <1>7, <1>8, <1>9, KeyedFacts
<1>11. DOMAIN order = 1..N /\ (\A k \in 1..N : order[k] \in at) /\ \A j, k \in 1..N : order[j] = order[k] => j = k
  <2>1. order \in Seq(at) /\ DOMAIN order = 1..N
    BY <1>10 DEF Lists
  <2>2. \A k \in 1..N : order[k] \in at
    BY <2>1, LenProperties
  <2> QED
    BY <1>10, <2>1, <2>2 DEF Lists, Once
<1> HIDE DEF N
<1>12. \A i \in RIds : FusedRow(vec, words, i, single) \in FoundRow /\ FusedRow(vec, words, i, single).id = i
  <2> TAKE i \in RIds
  <2>1. Votes(vec, words, i) \in Int /\ vec.cos[i] \in Int
    BY VotesSum DEF VectorOK, VectorAnswer
  <2> QED
    BY <2>1 DEF FusedRow, FoundRow
<1>13. \A k \in 1..N : arms[order[k]] \in RIds /\ arms[order[k]] \notin exclude
  BY <1>2, <1>3, <1>11
<1>14. /\ rows \in [1..N -> FoundRow]
       /\ \A k \in 1..N : rows[k].id = arms[order[k]]
  BY <1>5, <1>11, <1>12, <1>13
<1>15. rows \in Seq(FoundRow) /\ DOMAIN rows = 1..N
  BY <1>9, <1>14, AsList
<1>16. Once(RowIds(rows))
  <2> SUFFICES ASSUME NEW j \in DOMAIN rows, NEW k \in DOMAIN rows, rows[j].id = rows[k].id  PROVE j = k
    BY <1>15, RowIdsFacts DEF Once
  <2>1. arms[order[j]] = arms[order[k]] /\ order[j] \in at /\ order[k] \in at
    BY <1>11, <1>14, <1>15
  <2>2. \A n \in at : n \in Int
    BY <1>2, <1>3
  <2>3. order[j] = order[k]
    <3>1. PICK m \in at, n \in at : m = order[j] /\ n = order[k]
      BY <2>1
    <3>2. arms[m] = arms[n] /\ m \in Int /\ n \in Int
      BY <2>1, <2>2, <3>1
    <3>3. ~(m < n) /\ ~(n < m)
      BY <1>3, <3>2
    <3> QED
      BY <3>1, <3>2, <3>3
  <2> QED
    BY <1>11, <1>15, <2>3
<1>17. IdsOf(rows) \cap exclude = {}
  BY <1>13, <1>14, <1>15 DEF IdsOf
<1> QED
  BY <1>15, <1>16, <1>17 DEF RowList, rows

\* The gate keeps some of the rows: those that pass, and no other record.
LEMMA RowsGated ==
    ASSUME NEW rows, RowList(rows), NEW deep
    PROVE  /\ RowList(Gated(rows, deep))
           /\ IdsOf(Gated(rows, deep)) \subseteq IdsOf(rows)
           /\ \A k \in DOMAIN rows : rows[k].id \in IdsOf(Gated(rows, deep)) => PassesGate(rows[k], deep)
<1> DEFINE kept == {k \in DOMAIN rows : PassesGate(rows[k], deep)}
<1>1. kept \subseteq DOMAIN rows
  OBVIOUS
<1>2. RowList(Gated(rows, deep)) /\ IdsOf(Gated(rows, deep)) = {rows[k].id : k \in kept}
  <2> HIDE DEF kept
  <2> QED
    BY <1>1, RowsKept DEF Gated, kept
<1>3. \A j, k \in DOMAIN rows : rows[j].id = rows[k].id => j = k
  BY RowIdsFacts DEF RowList, Once
<1>4. \A k \in DOMAIN rows : rows[k].id \in IdsOf(Gated(rows, deep)) => k \in kept
  BY <1>2, <1>3
<1>5. IdsOf(Gated(rows, deep)) \subseteq IdsOf(rows)
  BY <1>2 DEF IdsOf
<1> QED
  BY <1>2, <1>4, <1>5

\* The cue arm's list: records of the period, none the caller excluded.
LEMMA IdsOfCue ==
    ASSUME StoreOK, NEW cue, NEW embedded, NEW exclude
    PROVE  IdList(CueList(cue, embedded, exclude)) /\ ToSet(CueList(cue, embedded, exclude)) \cap exclude = {}
<1> DEFINE byVec == CueVectors(cue, embedded)
           byWord == CueWords(cue)
           ids == (ToSet(byVec) \cup ToSet(byWord)) \ exclude
           key == [i \in ids |-> i - Many * (VoteOf(byVec, i) + VoteOf(byWord, i))]
<1>1. IdList(byVec)
  <2> DEFINE near == {i \in CueHeld(cue) \cap Vectored : rstore[i].cos > 0}
  <2>1. near \subseteq Vectored
    OBVIOUS
  <2> HIDE DEF near
  <2>2. IdList(Cosines(near))
    BY <2>1, IdsByCosine
  <2> QED
    BY <2>2, NoIds DEF CueVectors, near
<1>2. IdList(byWord)
  <2> DEFINE lex == {i \in CueHeld(cue) : rstore[i].lex}
  <2>1. lex \subseteq RIds
    BY DEF CueHeld
  <2> HIDE DEF lex
  <2>2. IdList(ByAge(lex))
    BY <2>1, IdsByAge
  <2> QED
    BY <2>2 DEF CueWords, lex
<1>3. CueList(cue, embedded, exclude) = ByKey(ids, key)
  BY DEF CueList
<1> HIDE DEF byVec, byWord
<1>4. ids \subseteq RIds
  <2>1. \A l : IdList(l) => ToSet(l) \subseteq RIds
    <3> SUFFICES ASSUME NEW l, IdList(l)  PROVE \A k \in DOMAIN l : l[k] \in RIds
      BY DEF ToSet
    <3> QED
      BY LenProperties DEF IdList
  <2> QED
    BY <1>1, <1>2, <2>1
<1> HIDE DEF ids
<1>5. \A i \in ids : \E a \in Int : key[i] = a * Many + i
  <2> TAKE i \in ids
  <2>1. VoteOf(byVec, i) \in Int /\ VoteOf(byWord, i) \in Int
    BY <1>1, <1>2, VotesAreWhole
  <2>2. PICK v \in Int : v = VoteOf(byVec, i) + VoteOf(byWord, i)
    BY <2>1
  <2>3. key[i] = i - Many * v
    BY <2>2
  <2>4. i \in Int /\ Many \in Int
    BY <1>4, RecordNumbers
  <2> HIDE DEF key
  <2>5. i - Many * v = (-v) * Many + i
    BY <2>4
  <2> QED
    BY <2>3, <2>5
<1>6. key \in [ids -> Int]
  <2>1. \A i \in ids, a \in Int : a * Many + i \in Int
    BY <1>4, RecordNumbers
  <2>2. \A i \in ids : key[i] \in Int
    <3> HIDE DEF key
    <3> QED
      BY <1>5, <2>1
  <2>3. key = [i \in ids |-> key[i]]
    OBVIOUS
  <2> HIDE DEF key
  <2> QED
    BY <2>2, <2>3
<1> HIDE DEF key
<1>7. ASSUME NEW x \in ids, NEW y \in ids, key[x] = key[y]  PROVE x = y
  <2>1. PICK a \in Int, b \in Int : key[x] = a * Many + x /\ key[y] = b * Many + y
    BY <1>5
  <2>2. x \in RIds /\ y \in RIds /\ a * Many + x = b * Many + y
    BY <1>4, <1>7, <2>1
  <2> QED
    BY <2>2, IdsApart
<1>8. IdList(ByKey(ids, key)) /\ ToSet(ByKey(ids, key)) = ids
  BY <1>4, <1>6, <1>7, IdsByKey
<1> QED
  BY <1>3, <1>8 DEF ids

\* The vectors' answer, over any store.
LEMMA VectorsRead ==
    ASSUME StoreOK, NEW depth \in Nat, NEW embedded
    PROVE  VectorOK(VectorRead(depth, embedded))
<1> DEFINE near == IF embedded THEN NearList(depth) ELSE <<>>
           far == IF embedded THEN FarList(depth) ELSE <<>>
           cos == [i \in RIds |-> IF InScope_(i) THEN rstore[i].cos ELSE 3]
<1>1. IdList(near) /\ IdList(far)
  BY ArmsRead, NoIds
<1>2. cos \in [RIds -> Int]
  <2> SUFFICES ASSUME NEW i \in RIds, InScope_(i)  PROVE rstore[i].cos \in Int
    OBVIOUS
  <2>1. rstore[i] \in Profiles
    BY DEF StoreOK, InScope_
  <2> QED
    BY <2>1, RecallConstants DEF RecallConstants
<1>3. VectorRead(depth, embedded) = [near |-> near, far |-> far, cos |-> cos]
  BY DEF VectorRead
<1> HIDE DEF near, far, cos
<1> QED
  BY <1>1, <1>2, <1>3 DEF VectorOK, VectorAnswer, IdList

----------------------------------------------------------------------------
(* Recall: the places beside the ranking                                   *)

Ways == {"ranked", "block", "keyword", "far", "cue", "propagation", "depth"}
HeldPlace == [id : RIds, how : Ways]

\* What must hold of an answer at every stage: no record twice, none excluded, at most n
\* of them, the ranking first, and in the far and the cue places only records the gate
\* did not refuse.
AnswerOK(answer, n, ranked, exclude, unrefused) ==
    /\ answer \in Seq(HeldPlace) /\ Len(answer) <= n
    /\ Once(RowIds(answer))
    /\ \A k \in DOMAIN answer : answer[k].id \notin exclude
    /\ \A k \in DOMAIN answer : answer[k].how \in {"far", "cue"} => answer[k].id \in unrefused
    /\ \A k \in DOMAIN ranked : k \in DOMAIN answer /\ answer[k] = [id |-> ranked[k].id, how |-> "ranked"]

\* A place more, for a record not in the answer.
LEMMA OneMore ==
    ASSUME NEW answer, NEW n \in Nat, NEW ranked, NEW exclude, NEW unrefused,
           AnswerOK(answer, n, ranked, exclude, unrefused),
           NEW i \in RIds, i \notin IdsOf(answer), i \notin exclude,
           NEW how \in Ways, how \in {"far", "cue"} => i \in unrefused
    PROVE  AnswerOK(Append(answer, [id |-> i, how |-> how]), n + 1, ranked, exclude, unrefused)
<1> DEFINE place == [id |-> i, how |-> how]
           longer == Append(answer, place)
           L == Len(answer)
<1>1. answer \in Seq(HeldPlace) /\ place \in HeldPlace
  BY DEF AnswerOK, HeldPlace
<1>2. /\ longer \in Seq(HeldPlace) /\ Len(longer) = L + 1
      /\ \A k \in 1..L : longer[k] = answer[k]
      /\ longer[L + 1] = place
  BY <1>1, AppendProperties
<1>3. L \in Nat /\ DOMAIN answer = 1..L /\ DOMAIN longer = 1..(L + 1) /\ L <= n
  BY <1>1, <1>2, LenProperties DEF AnswerOK
<1> HIDE DEF longer, L
<1>4. \A k \in DOMAIN longer : \/ k \in DOMAIN answer /\ longer[k] = answer[k]
                               \/ k = L + 1 /\ longer[k] = place
  <2> HIDE DEF place
  <2> TAKE k \in DOMAIN longer
  <2>1. CASE k \in 1..L
    BY <1>2, <1>3, <2>1
  <2>2. CASE k = L + 1
    BY <1>2, <2>2
  <2> QED
    BY <1>3, <2>1, <2>2
<1>5. place.id = i /\ place.how = how /\ \A k \in DOMAIN answer : answer[k].id # i
  BY DEF IdsOf
<1> HIDE DEF place
<1>6. Once(RowIds(longer))
  <2> SUFFICES ASSUME NEW j \in DOMAIN longer, NEW k \in DOMAIN longer, longer[j].id = longer[k].id  PROVE j = k
    BY DEF Once, RowIds
  <2>1. \A a, b \in DOMAIN answer : answer[a].id = answer[b].id => a = b
    BY DEF AnswerOK, Once, RowIds
  <2> QED
    BY <1>4, <1>5, <2>1
<1>7. \A k \in DOMAIN longer : longer[k].id \notin exclude
  BY <1>4, <1>5 DEF AnswerOK
<1>8. \A k \in DOMAIN longer : longer[k].how \in {"far", "cue"} => longer[k].id \in unrefused
  BY <1>4, <1>5 DEF AnswerOK
<1>9. \A k \in DOMAIN ranked : k \in DOMAIN longer /\ longer[k] = [id |-> ranked[k].id, how |-> "ranked"]
  <2> TAKE k \in DOMAIN ranked
  <2>1. k \in DOMAIN answer /\ answer[k] = [id |-> ranked[k].id, how |-> "ranked"]
    BY DEF AnswerOK
  <2> QED
    BY <1>2, <1>3, <2>1
<1>10. Len(longer) <= n + 1
  BY <1>2, <1>3
<1> QED
  BY <1>2, <1>6, <1>7, <1>8, <1>9, <1>10 DEF AnswerOK, longer, place

\* Reserved places keep what holds of the answer before them.
LEMMA PlacesBeside ==
    ASSUME NEW answer, NEW n \in Nat, NEW ranked, NEW exclude, NEW unrefused,
           AnswerOK(answer, n, ranked, exclude, unrefused),
           NEW ids, IdList(ids), ToSet(ids) \cap exclude = {}, NEW places \in Nat,
           NEW how \in Ways, how \in {"far", "cue"} => ToSet(ids) \subseteq unrefused
    PROVE  AnswerOK(Beside(answer, ids, places, how), n + places, ranked, exclude, unrefused)
<1> DEFINE new == {k \in DOMAIN ids : ids[k] \notin IdsOf(answer)}
           part == Keeping(ids, new)
           taken == Take(part, places)
           more == [k \in DOMAIN taken |-> [id |-> taken[k], how |-> how]]
           both == answer \o more
           L == Len(answer)
           M == Len(taken)
<1>1. new \subseteq DOMAIN ids /\ \A k \in new : ids[k] \notin IdsOf(answer) /\ ids[k] \in ToSet(ids)
  BY DEF ToSet
<1> HIDE DEF new
<1>2. IdList(part) /\ ToSet(part) = {ids[k] : k \in new}
  BY <1>1, IdsKept
<1> HIDE DEF part
<1>3. IdList(taken) /\ ToSet(taken) \subseteq ToSet(part) /\ M \in Nat /\ M <= places
  BY <1>2, IdsTaken
<1> HIDE DEF taken
<1>4. /\ DOMAIN taken = 1..M /\ \A k \in 1..M : taken[k] \in RIds
      /\ \A k \in 1..M : taken[k] \notin IdsOf(answer) /\ taken[k] \in ToSet(ids)
      /\ \A j, k \in 1..M : taken[j] = taken[k] => j = k
  <2>1. taken \in Seq(RIds) /\ Once(taken)
    BY <1>3 DEF IdList
  <2>2. DOMAIN taken = 1..M /\ \A k \in 1..M : taken[k] \in RIds
    BY <2>1, LenProperties
  <2>3. \A k \in 1..M : taken[k] \in ToSet(taken)
    BY <2>2 DEF ToSet
  <2> QED
    BY <1>1, <1>2, <1>3, <2>1, <2>2, <2>3 DEF Once
<1>5. /\ more \in [1..M -> HeldPlace] /\ \A k \in 1..M : more[k].id = taken[k] /\ more[k].how = how
  BY <1>4 DEF HeldPlace
<1> HIDE DEF more
<1>6. more \in Seq(HeldPlace) /\ Len(more) = M /\ answer \in Seq(HeldPlace)
  BY <1>3, <1>5, AsList DEF AnswerOK
<1>7. /\ both \in Seq(HeldPlace) /\ Len(both) = L + M
      /\ \A k \in 1..(L + M) : both[k] = IF k <= L THEN answer[k] ELSE more[k - L]
  <2>1. /\ both \in Seq(HeldPlace) /\ Len(both) = Len(answer) + Len(more)
        /\ \A k \in 1..(Len(answer) + Len(more)) :
              both[k] = IF k <= Len(answer) THEN answer[k] ELSE more[k - Len(answer)]
    BY <1>6, ConcatProperties
  <2> HIDE DEF both
  <2> QED
    BY <1>6, <2>1
<1>8. L \in Nat /\ L <= n /\ DOMAIN answer = 1..L /\ DOMAIN both = 1..(L + M)
  BY <1>6, <1>7, LenProperties DEF AnswerOK
<1> HIDE DEF both, L, M
<1>9. \A k \in DOMAIN both : \/ k \in DOMAIN answer /\ both[k] = answer[k]
                             \/ k - L \in 1..M /\ both[k].id = taken[k - L] /\ both[k].how = how
  <2> TAKE k \in DOMAIN both
  <2>1. CASE k <= L
    BY <1>7, <1>8, <2>1
  <2>2. CASE ~(k <= L)
    <3>1. k - L \in 1..M /\ both[k] = more[k - L]
      BY <1>3, <1>7, <1>8, <2>2
    <3> QED
      BY <1>5, <3>1
  <2> QED
    BY <2>1, <2>2
<1>10. \A k \in DOMAIN answer : k \in DOMAIN both /\ both[k] = answer[k]
  BY <1>3, <1>7, <1>8
<1>11. Once(RowIds(both))
  <2> SUFFICES ASSUME NEW j \in DOMAIN both, NEW k \in DOMAIN both, both[j].id = both[k].id  PROVE j = k
    BY DEF Once, RowIds
  <2>1. \A a, b \in DOMAIN answer : answer[a].id = answer[b].id => a = b
    BY DEF AnswerOK, Once, RowIds
  <2>2. \A a \in DOMAIN answer, b \in 1..M : answer[a].id # taken[b]
    BY <1>4 DEF IdsOf
  <2>3. j \in Int /\ k \in Int /\ L \in Int
    BY <1>3, <1>8
  <2>4. CASE j \in DOMAIN answer /\ k \in DOMAIN answer /\ both[j] = answer[j] /\ both[k] = answer[k]
    BY <2>1, <2>4
  <2>5. CASE j - L \in 1..M /\ k - L \in 1..M /\ both[j].id = taken[j - L] /\ both[k].id = taken[k - L]
    <3>1. j - L = k - L
      BY <1>4, <2>5
    <3> QED
      BY <2>3, <3>1
  <2> QED
    BY <1>9, <2>2, <2>4, <2>5
<1>12. \A k \in DOMAIN both : both[k].id \notin exclude
  BY <1>4, <1>9 DEF AnswerOK
<1>13. \A k \in DOMAIN both : both[k].how \in {"far", "cue"} => both[k].id \in unrefused
  BY <1>4, <1>9 DEF AnswerOK
<1>14. \A k \in DOMAIN ranked : k \in DOMAIN both /\ both[k] = [id |-> ranked[k].id, how |-> "ranked"]
  BY <1>10 DEF AnswerOK
<1>15. Len(both) <= n + places
  BY <1>3, <1>7, <1>8
<1>16. Beside(answer, ids, places, how) = both
  BY DEF Beside, both, more, taken, part, new
<1> QED
  BY <1>7, <1>11, <1>12, <1>13, <1>14, <1>15, <1>16 DEF AnswerOK

\* The answer as the ranking gives it.
LEMMA AnswerRanked ==
    ASSUME NEW ranked, RowList(ranked), NEW n \in Nat, Len(ranked) <= n,
           NEW exclude, IdsOf(ranked) \cap exclude = {}, NEW unrefused
    PROVE  AnswerOK(AsRanked(ranked), n, ranked, exclude, unrefused)
<1> DEFINE a == AsRanked(ranked)
           L == Len(ranked)
<1>1. L \in Nat /\ DOMAIN ranked = 1..L /\ \A k \in 1..L : ranked[k].id \in RIds
  BY RowIdsFacts DEF RowList
<1>2. a = [k \in 1..L |-> [id |-> ranked[k].id, how |-> "ranked"]]
  BY <1>1 DEF AsRanked
<1> HIDE DEF a, L
<1>3. a \in [1..L -> HeldPlace] /\ \A k \in 1..L : a[k] = [id |-> ranked[k].id, how |-> "ranked"]
  <2>0. \A i \in RIds : [id |-> i, how |-> "ranked"] \in HeldPlace
    BY DEF HeldPlace, Ways
  <2>1. \A k \in 1..L : [id |-> ranked[k].id, how |-> "ranked"] \in HeldPlace
    BY <1>1, <2>0
  <2>2. \A k \in 1..L : a[k] = [id |-> ranked[k].id, how |-> "ranked"]
    BY <1>2
  <2>3. \A k \in 1..L : a[k] \in HeldPlace
    BY <2>1, <2>2
  <2>4. a = [k \in 1..L |-> a[k]]
    BY <1>2
  <2> QED
    BY <2>2, <2>3, <2>4
<1>4. a \in Seq(HeldPlace) /\ Len(a) = L /\ DOMAIN a = 1..L
  BY <1>1, <1>3, AsList
<1>5. Once(RowIds(a))
  <2> SUFFICES ASSUME NEW j \in DOMAIN a, NEW k \in DOMAIN a, a[j].id = a[k].id  PROVE j = k
    BY DEF Once, RowIds
  <2>1. \A x, y \in DOMAIN ranked : ranked[x].id = ranked[y].id => x = y
    BY DEF RowList, Once, RowIds
  <2> QED
    BY <1>1, <1>3, <1>4, <2>1
<1>6. \A k \in DOMAIN a : a[k].id \notin exclude /\ a[k].how = "ranked"
  BY <1>1, <1>3, <1>4 DEF IdsOf
<1> QED
  BY <1>1, <1>3, <1>4, <1>5, <1>6 DEF AnswerOK, a, L

----------------------------------------------------------------------------
(* Recall: the inductive invariant                                         *)

DecidedAt == {"far", "propagate", "depth", "credit", "done"}

Cues == {"sure", "likely", "vague", NoRow}

\* What the fields of a call hold: a stage, and an arm once it is read.
CallStage == {"read", "fused", "cue", "gate"} \cup DecidedAt
Ids == Seq(RIds)
ArmIds == Ids \cup {NoRow}
ArmVector == VectorAnswer \cup {NoRow}
Embedded == BOOLEAN \cup {NoRow}
FoundRows == Seq(FoundRow)
HeldPlaces == Seq(HeldPlace)
IdSets == SUBSET RIds

RecallCall ==
    [pc : CallStage, req : Requests, embedded : Embedded, vec : ArmVector, words : ArmIds, held : ArmIds,
     block : ArmIds, rows : FoundRows, reached : IdSets, admitted : FoundRows, far : Ids, cue : Cues,
     cueList : Ids, stages : Nat, ranked : FoundRows, answer : HeldPlaces]

\* What the arms have read so far has no record twice, and what is taken from the blocks,
\* the fusion and the cue none the caller excluded.
ArmsOK(c) ==
    /\ c.vec # NoRow => VectorOK(c.vec)
    /\ c.words # NoRow => IdList(c.words)
    /\ c.held # NoRow => IdList(c.held)
    /\ c.block # NoRow => IdList(c.block) /\ ToSet(c.block) \cap c.req.exclude = {}
    /\ RowList(c.rows) /\ IdsOf(c.rows) \cap c.req.exclude = {} /\ c.reached = IdsOf(c.rows)
    /\ IdList(c.far)
    /\ IdList(c.cueList) /\ ToSet(c.cueList) \cap c.req.exclude = {}

\* How many places an answer may have by then: the ranking, the blocks and the keywords;
\* far and time cue; propagation and what was asked for as well; depth.
PlacesBy(pc, req) ==
    req.limit + BLOCK_RESERVATION + req.keyword
      + (IF pc = "far" THEN 0 ELSE FAR_SEATS + SEATS("sure"))
      + (IF pc \in {"far", "propagate"} THEN 0 ELSE 1 + req.extraBlock + req.extraKeyword)
      + (IF pc \in {"far", "propagate", "depth"} THEN 0 ELSE req.depth)

\* The records of a call the far and the cue places may hold.
NotRefused(c) == {i \in RIds : i \notin c.reached \/ i \in IdsOf(c.admitted)}

\* Once the gate has decided: who was admitted, the ranking, and the answer so far.
DecisionOK(c) ==
    /\ c.admitted = Gated(c.rows, c.req.deep)
    /\ RowList(c.ranked) /\ Len(c.ranked) <= c.req.limit
    /\ IdsOf(c.ranked) = IdsOf(Take(c.admitted, c.req.limit))
    /\ AnswerOK(c.answer, PlacesBy(c.pc, c.req), c.ranked, c.req.exclude, NotRefused(c))

CallOK(c) ==
    /\ c \in RecallCall
    /\ ArmsOK(c)
    /\ c.pc \in DecidedAt => DecisionOK(c)

\* Nothing is credited before the end, and then once for a ranked record of a call that
\* was not deep.
CreditOK ==
    /\ rcounts \in [RIds -> Nat]
    /\ rcall.pc # "done" => \A i \in RIds : rcounts[i] = 0
    /\ rcall.pc = "done" => \A i \in RIds : rcounts[i] <= IF i \in IdsOf(rcall.ranked) /\ ~Req.deep THEN 1 ELSE 0

RecallInv == StoreOK /\ CreditOK /\ (rcall.pc = "idle" \/ CallOK(rcall))

\* What the requests may ask for.
LEMMA RequestFacts ==
    ASSUME NEW c, c \in RecallCall
    PROVE  /\ c.req.limit \in Nat /\ c.req.keyword \in Nat /\ c.req.extraBlock \in Nat
           /\ c.req.extraKeyword \in Nat /\ c.req.depth \in Nat /\ c.req.exclude \subseteq RIds
           /\ c.pc # "idle"
<1>1. c.req \in Requests /\ c.pc \in CallStage
  BY DEF RecallCall
<1>2. c.pc # "idle"
  BY <1>1 DEF CallStage, DecidedAt
<1> QED
  BY <1>1, <1>2, RecallConstants DEF RecallConstants

LEMMA PlacesAreCounted ==
    ASSUME NEW c, c \in RecallCall
    PROVE  /\ \A pc : PlacesBy(pc, c.req) \in Nat
           /\ PlacesBy("far", c.req) = c.req.limit + 2 + c.req.keyword
           /\ PlacesBy("propagate", c.req) = PlacesBy("far", c.req) + 2 + 3
           /\ PlacesBy("depth", c.req) = PlacesBy("propagate", c.req) + 1 + c.req.extraBlock + c.req.extraKeyword
           /\ PlacesBy("credit", c.req) = PlacesBy("depth", c.req) + c.req.depth
           /\ PlacesBy("done", c.req) = PlacesBy("credit", c.req)
<1>1. c.req.limit \in Nat /\ c.req.keyword \in Nat /\ c.req.extraBlock \in Nat
      /\ c.req.extraKeyword \in Nat /\ c.req.depth \in Nat
  BY RequestFacts
<1>2. BLOCK_RESERVATION = 2 /\ FAR_SEATS = 2 /\ SEATS("sure") = 3
  BY DEF BLOCK_RESERVATION, FAR_SEATS, SEATS, LIFT
<1> QED
  BY <1>1, <1>2 DEF PlacesBy

\* The invariant says what the property does.
LEMMA RecallInvSuffices == RecallInv => RecallIsSound
<1> SUFFICES ASSUME RecallInv, rcall.pc = "done"  PROVE RecallAnswer /\ RefusedStaysOut
  BY DEF RecallIsSound, RecallAnswer, RefusedStaysOut
<1>1. CallOK(rcall) /\ CreditOK
  BY DEF RecallInv
<1>2. rcall \in RecallCall /\ ArmsOK(rcall) /\ DecisionOK(rcall)
  BY <1>1 DEF CallOK, DecidedAt
<1>3. AnswerOK(rcall.answer, PlacesBy("done", rcall.req), rcall.ranked, rcall.req.exclude, NotRefused(rcall))
  BY <1>2 DEF DecisionOK
<1>4. Len(rcall.answer) <= Req.limit + SEATS("sure") + BLOCK_RESERVATION + FAR_SEATS + 1 + Req.keyword
                           + Req.extraBlock + Req.extraKeyword + Req.depth
  <2>1. Len(rcall.answer) \in Nat /\ Len(rcall.answer) <= PlacesBy("done", rcall.req)
    BY <1>3, LenProperties DEF AnswerOK
  <2>2. /\ rcall.req.limit \in Nat /\ rcall.req.keyword \in Nat /\ rcall.req.extraBlock \in Nat
        /\ rcall.req.extraKeyword \in Nat /\ rcall.req.depth \in Nat
    BY <1>2, RequestFacts
  <2>3. BLOCK_RESERVATION = 2 /\ FAR_SEATS = 2 /\ SEATS("sure") = 3
    BY DEF BLOCK_RESERVATION, FAR_SEATS, SEATS, LIFT
  <2>4. PlacesBy("done", rcall.req)
          = rcall.req.limit + 2 + rcall.req.keyword + 2 + 3 + 1 + rcall.req.extraBlock + rcall.req.extraKeyword
            + rcall.req.depth
    <3>1. /\ PlacesBy("far", rcall.req) = rcall.req.limit + 2 + rcall.req.keyword
          /\ PlacesBy("propagate", rcall.req) = PlacesBy("far", rcall.req) + 2 + 3
          /\ PlacesBy("depth", rcall.req)
               = PlacesBy("propagate", rcall.req) + 1 + rcall.req.extraBlock + rcall.req.extraKeyword
          /\ PlacesBy("credit", rcall.req) = PlacesBy("depth", rcall.req) + rcall.req.depth
          /\ PlacesBy("done", rcall.req) = PlacesBy("credit", rcall.req)
      BY <1>2, PlacesAreCounted
    <3> QED
      BY <2>2, <3>1
  <2>5. Len(rcall.answer)
          <= rcall.req.limit + 3 + 2 + 2 + 1 + rcall.req.keyword + rcall.req.extraBlock + rcall.req.extraKeyword
             + rcall.req.depth
    <3>1. PICK p \in Nat, l \in Nat : p = PlacesBy("done", rcall.req) /\ l = Len(rcall.answer)
      BY <1>2, <2>1, PlacesAreCounted
    <3>2. PICK a \in Nat, b \in Nat, c \in Nat, d \in Nat, e \in Nat :
              /\ a = rcall.req.limit /\ b = rcall.req.keyword /\ c = rcall.req.extraBlock
              /\ d = rcall.req.extraKeyword /\ e = rcall.req.depth
      BY <2>2
    <3>3. p = a + 2 + b + 2 + 3 + 1 + c + d + e
      BY <2>4, <3>1, <3>2
    <3>4. l <= p
      BY <2>1, <3>1
    <3>5. l <= a + 3 + 2 + 2 + 1 + b + c + d + e
      BY <3>3, <3>4
    <3> QED
      BY <3>1, <3>2, <3>5
  <2> QED
    BY <2>1, <2>2, <2>3, <2>5 DEF Req
<1>5. \A j, k \in DOMAIN rcall.answer : rcall.answer[j].id = rcall.answer[k].id => j = k
  BY <1>3 DEF AnswerOK, Once, RowIds
<1>6. IdsOf(rcall.answer) \cap Req.exclude = {}
  BY <1>3 DEF AnswerOK, IdsOf, Req
<1>7. \A k \in DOMAIN rcall.ranked : rcall.answer[k] = [id |-> rcall.ranked[k].id, how |-> "ranked"]
  BY <1>3 DEF AnswerOK
<1>8. IdsOf(rcall.ranked) = IdsOf(Take(rcall.admitted, Req.limit))
  BY <1>2 DEF DecisionOK, Req
<1>9. \A i \in RIds : rcounts[i] <= IF i \in IdsOf(rcall.ranked) /\ ~Req.deep THEN 1 ELSE 0
  BY <1>1 DEF CreditOK
<1>10. RecallAnswer
  BY <1>4, <1>5, <1>6, <1>7, <1>8, <1>9 DEF RecallAnswer
<1>11. RefusedStaysOut
  <2> SUFFICES ASSUME NEW k \in DOMAIN rcall.answer, rcall.answer[k].how \in {"far", "cue"},
                      NEW r \in ToSet(rcall.rows), r.id = rcall.answer[k].id
               PROVE  PassesGate(r, Req.deep)
    BY DEF RefusedStaysOut
  <2>1. PICK n \in DOMAIN rcall.rows : r = rcall.rows[n]
    BY DEF ToSet
  <2>2. rcall.answer[k].id \in NotRefused(rcall)
    BY <1>3 DEF AnswerOK
  <2>3. rcall.reached = IdsOf(rcall.rows) /\ RowList(rcall.rows) /\ rcall.admitted = Gated(rcall.rows, Req.deep)
    BY <1>2 DEF ArmsOK, DecisionOK, Req
  <2>4. r.id \in IdsOf(rcall.rows)
    BY <2>1 DEF IdsOf
  <2>5. rcall.rows[n].id \in IdsOf(Gated(rcall.rows, Req.deep))
    BY <2>1, <2>2, <2>3, <2>4 DEF NotRefused
  <2> QED
    BY <2>1, <2>3, <2>5, RowsGated
<1> QED
  BY <1>10, <1>11

\* Nothing in an empty list.
LEMMA NoRows == RowList(<<>>) /\ IdsOf(<<>>) = {} /\ <<>> \in Seq(HeldPlace)
<1>1. <<>> \in Seq(FoundRow) /\ Len(<<>>) = 0 /\ <<>> \in Seq(HeldPlace)
  BY EmptySeq
<1>2. DOMAIN <<>> = {}
  <2>1. DOMAIN <<>> = 1..0
    BY <1>1, LenProperties
  <2> QED
    BY <2>1
<1>3. IdsOf(<<>>) = {}
  BY <1>2 DEF IdsOf
<1>4. Once(RowIds(<<>>))
  BY <1>2 DEF Once, RowIds
<1> QED
  BY <1>1, <1>3, <1>4 DEF RowList

----------------------------------------------------------------------------
(* Recall: the steps                                                       *)

LEMMA RecallStarts == RecallInit => RecallInv
<1> SUFFICES ASSUME RecallInit  PROVE RecallInv
  OBVIOUS
<1>1. StoreOK
  BY DEF RecallInit, StoreOK
<1>2. rcall.pc = "idle" /\ rcounts \in [RIds -> Nat] /\ \A i \in RIds : rcounts[i] = 0
  BY DEF RecallInit
<1> QED
  BY <1>1, <1>2 DEF RecallInv, CreditOK

LEMMA StartKeeps ==
    ASSUME RecallInv, NEW req \in Requests, StartRecall(req)
    PROVE  RecallInv'
<1>1. StoreOK'
  BY DEF StartRecall, StoreOK
<1>2. /\ rcall' = [pc |-> "read", req |-> req, embedded |-> NoRow, vec |-> NoRow, words |-> NoRow,
                   held |-> NoRow, block |-> NoRow, rows |-> <<>>, reached |-> {}, admitted |-> <<>>, far |-> <<>>,
                   cue |-> req.cue, cueList |-> <<>>, stages |-> 0, ranked |-> <<>>, answer |-> <<>>]
      /\ rcounts' = rcounts /\ rcall.pc = "idle"
  BY DEF StartRecall
<1>3. rcall' \in RecallCall
  <2>1. req.cue \in Cues
    BY RecallConstants DEF RecallConstants, Cues
  <2>2. <<>> \in FoundRows /\ <<>> \in Ids /\ <<>> \in HeldPlaces /\ {} \in IdSets
    BY EmptySeq DEF FoundRows, Ids, HeldPlaces, IdSets
  <2>3. NoRow \in ArmIds /\ NoRow \in ArmVector /\ NoRow \in Embedded /\ "read" \in CallStage
    BY DEF ArmIds, ArmVector, Embedded, CallStage
  <2> QED
    BY <1>2, <2>1, <2>2, <2>3 DEF RecallCall
<1>4. ArmsOK(rcall')
  BY <1>2, NoIds, NoRows DEF ArmsOK
<1>5. rcall'.pc = "read" /\ "read" \notin DecidedAt
  BY <1>2 DEF DecidedAt
<1>6. CallOK(rcall')
  BY <1>3, <1>4, <1>5 DEF CallOK
<1>7. CreditOK'
  BY <1>2, <1>5 DEF RecallInv, CreditOK
<1> QED
  BY <1>1, <1>6, <1>7 DEF RecallInv, CallOK, ArmsOK

\* While the arms are read, a call that keeps what it has decided on stays as it should
\* be if what it reads is.
LEMMA ReadKeepsCall ==
    ASSUME NEW c, CallOK(c), NEW d, d \in RecallCall, ArmsOK(d), c.pc \notin DecidedAt, d.pc \notin DecidedAt
    PROVE  CallOK(d)
BY DEF CallOK

LEMMA EmbedKeeps ==
    ASSUME RecallInv, NEW embedded \in BOOLEAN, EmbedQuery(embedded)
    PROVE  CallOK(rcall')
<1>1. CallOK(rcall) /\ rcall.pc = "read" /\ rcall' = [rcall EXCEPT !.embedded = embedded]
  BY DEF RecallInv, EmbedQuery
<1>2. rcall \in RecallCall /\ ArmsOK(rcall)
  BY <1>1 DEF CallOK
<1>3. rcall' \in RecallCall /\ rcall'.pc = "read"
  <2>1. embedded \in Embedded
    BY DEF Embedded
  <2> QED
    BY <1>1, <1>2, <2>1 DEF RecallCall
<1>4. ArmsOK(rcall')
  BY <1>1, <1>2 DEF RecallCall, ArmsOK
<1> QED
  BY <1>1, <1>3, <1>4, ReadKeepsCall DEF DecidedAt

LEMMA ReadVectorKeeps == ASSUME RecallInv, ReadVector PROVE CallOK(rcall')
<1> PICK v : v = VectorRead(DepthOf(Req), rcall.embedded)
  OBVIOUS
<1>1. CallOK(rcall) /\ rcall.pc = "read" /\ rcall' = [rcall EXCEPT !.vec = v]
  BY DEF RecallInv, ReadVector
<1>2. rcall \in RecallCall /\ ArmsOK(rcall)
  BY <1>1 DEF CallOK
<1>3. VectorOK(v)
  <2>1. DepthOf(Req) \in Nat
    BY <1>2, RequestFacts DEF DepthOf, Req
  <2> QED
    BY <2>1, VectorsRead DEF RecallInv
<1>4. v \in ArmVector
  BY <1>3 DEF VectorOK, ArmVector
<1>5. rcall' \in RecallCall /\ rcall'.pc = "read"
  BY <1>1, <1>2, <1>4 DEF RecallCall
<1>6. ArmsOK(rcall')
  BY <1>1, <1>2, <1>3 DEF RecallCall, ArmsOK
<1> QED
  BY <1>1, <1>5, <1>6, ReadKeepsCall DEF DecidedAt

LEMMA ReadWordsKeeps == ASSUME RecallInv, ReadWords PROVE CallOK(rcall')
<1> PICK all : all = WordList(IF Req.depth > 0 THEN DeeperDepth ELSE DepthOf(Req))
  OBVIOUS
<1> PICK words : words = Take(all, DepthOf(Req))
  OBVIOUS
<1> PICK held : held = IF Req.depth > 0 THEN all ELSE NoRow
  OBVIOUS
<1>1. CallOK(rcall) /\ rcall.pc = "read" /\ rcall' = [rcall EXCEPT !.words = words, !.held = held]
  BY DEF RecallInv, ReadWords
<1>2. rcall \in RecallCall /\ ArmsOK(rcall)
  BY <1>1 DEF CallOK
<1>3. DepthOf(Req) \in Nat /\ DeeperDepth \in Nat
  BY <1>2, RequestFacts, RecallConstants DEF DepthOf, Req, RecallConstants
<1>4. IdList(all)
  BY <1>3, ArmsRead DEF RecallInv
<1>5. IdList(words) /\ (held # NoRow => IdList(held)) /\ held \in ArmIds /\ words \in ArmIds
  BY <1>3, <1>4, IdsTaken DEF IdList, ArmIds, Ids
<1>6. rcall' \in RecallCall /\ rcall'.pc = "read"
  BY <1>1, <1>2, <1>5 DEF RecallCall
<1>7. ArmsOK(rcall')
  BY <1>1, <1>2, <1>5 DEF RecallCall, ArmsOK
<1> QED
  BY <1>1, <1>6, <1>7, ReadKeepsCall DEF DecidedAt

LEMMA ReadBlocksKeeps == ASSUME RecallInv, ReadBlocks PROVE CallOK(rcall')
<1> DEFINE found == {i \in RIds \ Req.exclude : InScope_(i) /\ rstore[i].block}
           n == Req.limit + Req.extraBlock + BLOCK_RESERVATION
<1> PICK block : block = Take(ByAge(found), n)
  OBVIOUS
<1>1. CallOK(rcall) /\ rcall.pc \in {"read", "fused"} /\ rcall' = [rcall EXCEPT !.block = block]
  BY DEF RecallInv, ReadBlocks
<1>2. rcall \in RecallCall /\ ArmsOK(rcall)
  BY <1>1 DEF CallOK
<1>3. n \in Nat
  BY <1>2, RequestFacts DEF Req, BLOCK_RESERVATION
<1>4. IdList(block) /\ ToSet(block) \cap rcall.req.exclude = {}
  <2> HIDE DEF n
  <2>1. IdList(block) /\ ToSet(block) \cap Req.exclude = {}
    BY <1>3, ArmsRead DEF RecallInv
  <2> QED
    BY <2>1 DEF Req
<1> HIDE DEF n, found
<1>5. block \in ArmIds
  BY <1>4 DEF IdList, ArmIds, Ids
<1>6. rcall' \in RecallCall /\ rcall'.pc = rcall.pc
  BY <1>1, <1>2, <1>5 DEF RecallCall
<1>7. ArmsOK(rcall')
  BY <1>1, <1>2, <1>4 DEF RecallCall, ArmsOK
<1> QED
  BY <1>1, <1>6, <1>7, ReadKeepsCall DEF DecidedAt

LEMMA FuseKeeps == ASSUME RecallInv, FuseArms PROVE CallOK(rcall')
<1> PICK rows : rows = Fused(rcall.vec, rcall.words, Req.exclude, Single(rcall.embedded))
  OBVIOUS
<1> PICK reached : reached = IdsOf(rows)
  OBVIOUS
<1>1. /\ CallOK(rcall) /\ rcall.pc = "read" /\ rcall.vec # NoRow /\ rcall.words # NoRow
      /\ rcall' = [rcall EXCEPT !.pc = "fused", !.rows = rows, !.reached = reached]
  BY DEF RecallInv, FuseArms
<1>2. rcall \in RecallCall /\ ArmsOK(rcall)
  BY <1>1 DEF CallOK
<1>3. RowList(rows) /\ IdsOf(rows) \cap rcall.req.exclude = {}
  <2>1. VectorOK(rcall.vec) /\ IdList(rcall.words)
    BY <1>1, <1>2 DEF ArmsOK
  <2> QED
    BY <2>1, RowsFused DEF Req
<1>4. rows \in FoundRows /\ reached \in IdSets /\ "fused" \in CallStage
  <2>1. \A k \in DOMAIN rows : rows[k].id \in RIds
    BY <1>3, RowIdsFacts DEF RowList
  <2> QED
    BY <1>3, <2>1 DEF RowList, IdsOf, FoundRows, IdSets, CallStage
<1>5. rcall' \in RecallCall /\ rcall'.pc = "fused"
  BY <1>1, <1>2, <1>4 DEF RecallCall
<1>6. ArmsOK(rcall')
  BY <1>1, <1>2, <1>3 DEF RecallCall, ArmsOK
<1> QED
  BY <1>1, <1>5, <1>6, ReadKeepsCall DEF DecidedAt

LEMMA ReadFarKeeps == ASSUME RecallInv, ReadFar PROVE CallOK(rcall')
<1> DEFINE past == {i \in Vectored : Newer(i) >= Reach /\ rstore[i].cos > 0}
<1> PICK far : far = IF Req.far /\ rcall.embedded THEN Cosines(past) ELSE <<>>
  OBVIOUS
<1> PICK pc : pc = IF Req.cue # NoRow THEN "cue" ELSE "gate"
  OBVIOUS
<1>1. CallOK(rcall) /\ rcall.pc = "fused" /\ rcall' = [rcall EXCEPT !.pc = pc, !.far = far]
  BY DEF RecallInv, ReadFar
<1>2. rcall \in RecallCall /\ ArmsOK(rcall)
  BY <1>1 DEF CallOK
<1>3. IdList(far)
  <2>1. IdList(Cosines(past))
    BY ArmsRead DEF RecallInv
  <2> HIDE DEF past
  <2> QED
    BY <2>1, NoIds
<1> HIDE DEF past
<1>4. far \in Ids /\ pc \in {"cue", "gate"} /\ pc \in CallStage
  BY <1>3 DEF IdList, Ids, CallStage
<1>5. rcall' \in RecallCall /\ rcall'.pc = pc
  BY <1>1, <1>2, <1>4 DEF RecallCall
<1>6. ArmsOK(rcall')
  BY <1>1, <1>2, <1>3 DEF RecallCall, ArmsOK
<1> QED
  BY <1>1, <1>4, <1>5, <1>6, ReadKeepsCall DEF DecidedAt

LEMMA ReadCueKeeps == ASSUME RecallInv, ReadCue PROVE CallOK(rcall')
<1> DEFINE found == CueList(rcall.cue, rcall.embedded, Req.exclude)
           again == found = <<>> /\ rcall.stages = 0 /\ WIDER(rcall.cue) # NoRow
<1> PICK list : list = found
  OBVIOUS
<1> PICK cue : cue = IF again THEN WIDER(rcall.cue) ELSE rcall.cue
  OBVIOUS
<1> PICK pc : pc = IF again THEN "cue" ELSE "gate"
  OBVIOUS
<1> PICK stages : stages = rcall.stages + 1
  OBVIOUS
<1>1. /\ CallOK(rcall) /\ rcall.pc = "cue"
      /\ rcall' = [rcall EXCEPT !.cueList = list, !.stages = stages, !.cue = cue, !.pc = pc]
  BY DEF RecallInv, ReadCue
<1>2. rcall \in RecallCall /\ ArmsOK(rcall)
  BY <1>1 DEF CallOK
<1>3. IdList(list) /\ ToSet(list) \cap rcall.req.exclude = {}
  BY IdsOfCue DEF RecallInv, Req
<1>4. /\ list \in Ids /\ pc \in {"cue", "gate"} /\ pc \in CallStage /\ stages \in Nat
      /\ cue \in Cues
  <2>1. rcall.stages \in Nat /\ rcall.cue \in Cues
    BY <1>2 DEF RecallCall
  <2>2. WIDER(rcall.cue) \in Cues
    BY DEF WIDER, Cues
  <2> QED
    BY <1>3, <2>1, <2>2 DEF IdList, Ids, CallStage
<1> HIDE DEF found, again
<1>5. rcall' \in RecallCall /\ rcall'.pc = pc
  BY <1>1, <1>2, <1>4 DEF RecallCall
<1>6. ArmsOK(rcall')
  BY <1>1, <1>2, <1>3 DEF RecallCall, ArmsOK
<1> QED
  BY <1>1, <1>4, <1>5, <1>6, ReadKeepsCall DEF DecidedAt

\* The lift finds a bound for every cue it is asked for.
LEMMA LiftIsBounded == \A cue : LIFT(cue) \in Nat /\ SEATS(cue) \in Nat /\ SEATS(cue) <= 3
BY DEF LIFT, SEATS

\* What the cut and the lift make of the admitted rows.
LEMMA RankedFacts ==
    ASSUME NEW rows, RowList(rows), rcall \in RecallCall, ArmsOK(rcall)
    PROVE  /\ RowList(RankedOf(rows)) /\ Len(RankedOf(rows)) <= Req.limit
           /\ IdsOf(RankedOf(rows)) = IdsOf(Take(Gated(rows, Req.deep), Req.limit))
           /\ IdsOf(RankedOf(rows)) \subseteq IdsOf(rows)
<1> DEFINE cut == Take(Gated(rows, Req.deep), Req.limit)
           up == Lifted(cut, rcall.cueList, LIFT(rcall.cue))
<1>1. Req.limit \in Nat
  BY RequestFacts DEF Req
<1>2. RowList(Gated(rows, Req.deep)) /\ IdsOf(Gated(rows, Req.deep)) \subseteq IdsOf(rows)
  BY RowsGated
<1>3. RowList(cut) /\ Len(cut) <= Req.limit /\ IdsOf(cut) \subseteq IdsOf(rows)
  BY <1>1, <1>2, RowsTaken
<1> HIDE DEF cut
<1>4. RowList(up) /\ Len(up) = Len(cut) /\ IdsOf(up) = IdsOf(cut)
  <2>1. IdList(rcall.cueList)
    BY DEF ArmsOK
  <2> QED
    BY <1>3, <2>1, LiftIsBounded, RowsLifted
<1>5. RankedOf(rows) = cut \/ RankedOf(rows) = up
  BY DEF RankedOf, cut
<1> HIDE DEF up
<1>6. RowList(RankedOf(rows)) /\ Len(RankedOf(rows)) <= Req.limit /\ IdsOf(RankedOf(rows)) = IdsOf(cut)
  BY <1>3, <1>4, <1>5
<1> QED
  BY <1>3, <1>6 DEF cut

\* The blocks a call has read, if any.
LEMMA BlocksFacts ==
    ASSUME ArmsOK(rcall)
    PROVE  IdList(BlocksRead) /\ ToSet(BlocksRead) \cap Req.exclude = {}
BY NoIds DEF ArmsOK, BlocksRead, Req

\* The rows of a place list, in the ledger's order.
LEMMA RowsForPlaces ==
    ASSUME NEW rows, RowList(rows), NEW kept, kept \subseteq DOMAIN rows
    PROVE  /\ IdList(RowIds(PartsFirst(Keeping(rows, kept))))
           /\ ToSet(RowIds(PartsFirst(Keeping(rows, kept)))) \subseteq IdsOf(rows)
<1> PICK part : part = Keeping(rows, kept)
  OBVIOUS
<1>1. RowList(part) /\ IdsOf(part) = {rows[k].id : k \in kept}
  BY RowsKept
<1>2. RowList(PartsFirst(part)) /\ IdsOf(PartsFirst(part)) = IdsOf(part)
  BY <1>1, RowsPartsFirst
<1>3. IdList(RowIds(PartsFirst(part))) /\ ToSet(RowIds(PartsFirst(part))) = IdsOf(PartsFirst(part))
  BY <1>2, RowIdsFacts DEF RowList, IdList
<1>4. {rows[k].id : k \in kept} \subseteq IdsOf(rows)
  BY DEF IdsOf
<1> QED
  BY <1>1, <1>2, <1>3, <1>4

LEMMA SelectKeeps == ASSUME RecallInv, Select_ PROVE CallOK(rcall')
<1> PICK ranked : ranked = RankedOf(rcall.rows)
  OBVIOUS
<1> PICK admitted : admitted = Gated(rcall.rows, Req.deep)
  OBVIOUS
<1> PICK seated : seated = Beside(AsRanked(ranked), BlocksRead, BLOCK_RESERVATION, "block")
  OBVIOUS
<1> PICK keyed : keyed = RowIds(PartsFirst(Worded(rcall.rows)))
  OBVIOUS
<1> PICK answer : answer = Beside(seated, keyed, Req.keyword, "keyword")
  OBVIOUS
<1>1. /\ CallOK(rcall) /\ rcall.pc = "gate"
      /\ rcall' = [rcall EXCEPT !.pc = "far", !.admitted = admitted, !.ranked = ranked, !.answer = answer]
  BY DEF RecallInv, Select_
<1>2. rcall \in RecallCall /\ ArmsOK(rcall)
  BY <1>1 DEF CallOK
<1>3. RowList(rcall.rows) /\ IdsOf(rcall.rows) \cap Req.exclude = {} /\ Req.limit \in Nat /\ Req.keyword \in Nat
  BY <1>2, RequestFacts DEF ArmsOK, Req
<1>4. /\ RowList(ranked) /\ Len(ranked) <= Req.limit /\ IdsOf(ranked) = IdsOf(Take(admitted, Req.limit))
      /\ IdsOf(ranked) \cap Req.exclude = {}
  <2>1. /\ RowList(ranked) /\ Len(ranked) <= Req.limit /\ IdsOf(ranked) = IdsOf(Take(admitted, Req.limit))
        /\ IdsOf(ranked) \subseteq IdsOf(rcall.rows)
    BY <1>2, <1>3, RankedFacts
  <2> QED
    BY <1>3, <2>1
<1>5. RowList(admitted)
  BY <1>3, RowsGated
<1> PICK unrefused : unrefused = {i \in RIds : i \notin rcall.reached \/ i \in IdsOf(admitted)}
  OBVIOUS
<1>6. AnswerOK(AsRanked(ranked), Req.limit, ranked, Req.exclude, unrefused)
  BY <1>3, <1>4, AnswerRanked
<1>7. AnswerOK(seated, Req.limit + 2, ranked, Req.exclude, unrefused)
  <2>1. "block" \in Ways /\ "block" \notin {"far", "cue"} /\ 2 \in Nat /\ BLOCK_RESERVATION = 2
    BY DEF Ways, BLOCK_RESERVATION
  <2> QED
    BY <1>2, <1>3, <1>6, <2>1, BlocksFacts, PlacesBeside
<1>8. IdList(keyed) /\ ToSet(keyed) \cap Req.exclude = {}
  <2> DEFINE kept == {k \in DOMAIN rcall.rows : rcall.rows[k].lexOnly}
  <2>1. kept \subseteq DOMAIN rcall.rows /\ Worded(rcall.rows) = Keeping(rcall.rows, kept)
    BY DEF Worded
  <2> HIDE DEF kept
  <2>2. IdList(keyed) /\ ToSet(keyed) \subseteq IdsOf(rcall.rows)
    BY <1>3, <2>1, RowsForPlaces
  <2> QED
    BY <1>3, <2>2
<1>9. AnswerOK(answer, Req.limit + 2 + Req.keyword, ranked, Req.exclude, unrefused)
  <2>1. "keyword" \in Ways /\ "keyword" \notin {"far", "cue"} /\ Req.limit + 2 \in Nat
    BY <1>3 DEF Ways
  <2> QED
    BY <1>3, <1>7, <1>8, <2>1, PlacesBeside
<1>10. /\ admitted \in FoundRows /\ ranked \in FoundRows /\ answer \in HeldPlaces
       /\ "far" \in DecidedAt /\ "far" \in CallStage
  BY <1>4, <1>5, <1>9 DEF RowList, AnswerOK, DecidedAt, CallStage, FoundRows, HeldPlaces
<1>11. rcall' \in RecallCall
  BY <1>1, <1>2, <1>10 DEF RecallCall
<1>12. /\ rcall'.pc = "far" /\ rcall'.admitted = admitted /\ rcall'.ranked = ranked /\ rcall'.answer = answer
       /\ rcall'.req = rcall.req /\ rcall'.rows = rcall.rows /\ rcall'.reached = rcall.reached
       /\ rcall'.vec = rcall.vec /\ rcall'.words = rcall.words /\ rcall'.held = rcall.held /\ rcall'.block = rcall.block
       /\ rcall'.far = rcall.far /\ rcall'.cueList = rcall.cueList
  BY <1>1, <1>2 DEF RecallCall
<1>13. ArmsOK(rcall')
  BY <1>2, <1>12 DEF ArmsOK
<1>14. DecisionOK(rcall')
  <2>1. PlacesBy("far", rcall'.req) = Req.limit + 2 + Req.keyword
    BY <1>11, <1>12, PlacesAreCounted DEF Req
  <2>2. NotRefused(rcall') = unrefused
    BY <1>12 DEF NotRefused
  <2> QED
    BY <1>4, <1>9, <1>12, <2>1, <2>2 DEF DecisionOK, Req
<1> QED
  BY <1>11, <1>13, <1>14 DEF CallOK

\* After the gate only the stage and the answer change: what else was decided stays.
LEMMA PlacesKeepCall ==
    ASSUME CallOK(rcall), rcall.pc \in DecidedAt, NEW pc \in DecidedAt, NEW answer,
           rcall' = [rcall EXCEPT !.pc = pc, !.answer = answer],
           AnswerOK(answer, PlacesBy(pc, rcall.req), rcall.ranked, rcall.req.exclude, NotRefused(rcall))
    PROVE  CallOK(rcall') /\ rcall'.pc = pc /\ rcall'.ranked = rcall.ranked /\ rcall'.req = rcall.req
<1>1. rcall \in RecallCall /\ ArmsOK(rcall) /\ DecisionOK(rcall)
  BY DEF CallOK
<1>2. answer \in HeldPlaces /\ pc \in CallStage
  BY DEF AnswerOK, HeldPlaces, CallStage
<1>3. rcall' \in RecallCall
  BY <1>1, <1>2 DEF RecallCall
<1>4. /\ rcall'.pc = pc /\ rcall'.answer = answer /\ rcall'.admitted = rcall.admitted /\ rcall'.ranked = rcall.ranked
      /\ rcall'.req = rcall.req /\ rcall'.rows = rcall.rows /\ rcall'.reached = rcall.reached
      /\ rcall'.vec = rcall.vec /\ rcall'.words = rcall.words /\ rcall'.held = rcall.held /\ rcall'.block = rcall.block
      /\ rcall'.far = rcall.far /\ rcall'.cueList = rcall.cueList
  BY <1>1 DEF RecallCall
<1>5. ArmsOK(rcall')
  BY <1>1, <1>4 DEF ArmsOK
<1>6. NotRefused(rcall') = NotRefused(rcall)
  BY <1>4 DEF NotRefused
<1>7. DecisionOK(rcall')
  BY <1>1, <1>4, <1>6 DEF DecisionOK
<1> QED
  BY <1>3, <1>4, <1>5, <1>7 DEF CallOK

\* A call whose gate has decided, as the steps after it find it.
LEMMA DecidedCall ==
    ASSUME RecallInv, rcall.pc \in DecidedAt
    PROVE  /\ CallOK(rcall) /\ rcall \in RecallCall /\ ArmsOK(rcall) /\ DecisionOK(rcall)
           /\ Req = rcall.req /\ PlacesBy(rcall.pc, Req) \in Nat
           /\ AnswerOK(rcall.answer, PlacesBy(rcall.pc, Req), rcall.ranked, Req.exclude, NotRefused(rcall))
           /\ Req.keyword \in Nat /\ Req.extraBlock \in Nat /\ Req.extraKeyword \in Nat /\ Req.depth \in Nat
<1>1. rcall.pc # "idle"
  BY DEF DecidedAt
<1>2. CallOK(rcall)
  BY <1>1 DEF RecallInv
<1>3. rcall \in RecallCall /\ ArmsOK(rcall) /\ DecisionOK(rcall) /\ Req = rcall.req
  BY <1>2 DEF CallOK, Req
<1> QED
  BY <1>2, <1>3, RequestFacts, PlacesAreCounted DEF DecisionOK

LEMMA SeatFarKeeps == ASSUME RecallInv, SeatFar PROVE CallOK(rcall')
<1> PICK withFar : withFar = Beside(rcall.answer, FarEligible, FAR_SEATS, "far")
  OBVIOUS
<1> PICK cued : cued = Beside(withFar, CueEligible, SEATS(rcall.cue), "cue")
  OBVIOUS
<1> PICK answer : answer = IF Req.cue = NoRow THEN withFar ELSE cued
  OBVIOUS
<1>1. rcall.pc = "far" /\ rcall' = [rcall EXCEPT !.pc = "propagate", !.answer = answer] /\ rcall.pc \in DecidedAt
      /\ "propagate" \in DecidedAt
  BY DEF SeatFar, DecidedAt
<1>2. /\ CallOK(rcall) /\ rcall \in RecallCall /\ ArmsOK(rcall) /\ Req = rcall.req
      /\ PlacesBy("far", Req) \in Nat
      /\ AnswerOK(rcall.answer, PlacesBy("far", Req), rcall.ranked, Req.exclude, NotRefused(rcall))
  BY <1>1, DecidedCall
<1>3. \A i \in RIds : Unrefused(i) => i \in NotRefused(rcall)
  BY DEF Unrefused, NotRefused
<1>4. IdList(FarEligible) /\ ToSet(FarEligible) \cap Req.exclude = {} /\ ToSet(FarEligible) \subseteq NotRefused(rcall)
  <2> DEFINE kept == {k \in DOMAIN rcall.far :
                         InScope_(rcall.far[k]) /\ rcall.far[k] \notin Req.exclude /\ Unrefused(rcall.far[k])}
  <2>1. IdList(rcall.far) /\ \A k \in DOMAIN rcall.far : rcall.far[k] \in RIds
    BY <1>2, LenProperties DEF ArmsOK, IdList
  <2>2. /\ kept \subseteq DOMAIN rcall.far
        /\ \A k \in kept : rcall.far[k] \notin Req.exclude /\ rcall.far[k] \in NotRefused(rcall)
    BY <1>3, <2>1
  <2>3. FarEligible = Keeping(rcall.far, kept)
    BY DEF FarEligible
  <2> HIDE DEF kept
  <2>4. IdList(FarEligible) /\ ToSet(FarEligible) = {rcall.far[k] : k \in kept}
    BY <2>1, <2>2, <2>3, IdsKept
  <2> QED
    BY <2>2, <2>4
<1>5. IdList(CueEligible) /\ ToSet(CueEligible) \cap Req.exclude = {} /\ ToSet(CueEligible) \subseteq NotRefused(rcall)
  <2> DEFINE kept == {k \in DOMAIN rcall.cueList : Unrefused(rcall.cueList[k])}
  <2>1. /\ IdList(rcall.cueList)
        /\ \A k \in DOMAIN rcall.cueList : rcall.cueList[k] \in RIds /\ rcall.cueList[k] \notin Req.exclude
    BY <1>2, LenProperties DEF ArmsOK, IdList, ToSet
  <2>2. /\ kept \subseteq DOMAIN rcall.cueList
        /\ \A k \in kept : rcall.cueList[k] \notin Req.exclude /\ rcall.cueList[k] \in NotRefused(rcall)
    BY <1>3, <2>1
  <2>3. CueEligible = Keeping(rcall.cueList, kept)
    BY DEF CueEligible
  <2> HIDE DEF kept
  <2>4. IdList(CueEligible) /\ ToSet(CueEligible) = {rcall.cueList[k] : k \in kept}
    BY <2>1, <2>2, <2>3, IdsKept
  <2> QED
    BY <2>2, <2>4
<1> PICK n \in Nat : n = PlacesBy("far", Req)
  BY <1>2
<1>6. "far" \in Ways /\ "cue" \in Ways /\ FAR_SEATS = 2
  BY DEF Ways, FAR_SEATS
<1>7. AnswerOK(withFar, n + 2, rcall.ranked, Req.exclude, NotRefused(rcall))
  BY <1>2, <1>4, <1>6, PlacesBeside
<1>8. AnswerOK(cued, n + 2 + SEATS(rcall.cue), rcall.ranked, Req.exclude, NotRefused(rcall))
  <2>1. SEATS(rcall.cue) \in Nat /\ n + 2 \in Nat
    BY LiftIsBounded
  <2> QED
    BY <1>5, <1>6, <1>7, <2>1, PlacesBeside
<1>9. AnswerOK(answer, n + 2 + 3, rcall.ranked, Req.exclude, NotRefused(rcall))
  <2>1. SEATS(rcall.cue) \in Nat /\ SEATS(rcall.cue) <= 3
    BY LiftIsBounded
  <2>2. \A a, b, c \in Nat : a <= b /\ b <= c => a <= c
    OBVIOUS
  <2>3. Len(withFar) \in Nat /\ Len(cued) \in Nat
    BY <1>7, <1>8, LenProperties DEF AnswerOK
  <2>4. Len(withFar) <= n + 2 + 3 /\ Len(cued) <= n + 2 + 3
    <3>1. Len(withFar) <= n + 2 /\ Len(cued) <= n + 2 + SEATS(rcall.cue)
      BY <1>7, <1>8 DEF AnswerOK
    <3> QED
      BY <2>1, <2>3, <3>1
  <2>5. answer = withFar \/ answer = cued
    OBVIOUS
  <2> QED
    BY <1>7, <1>8, <2>4, <2>5 DEF AnswerOK
<1>10. PlacesBy("propagate", rcall.req) = n + 2 + 3
  BY <1>2, PlacesAreCounted
<1> QED
  BY <1>1, <1>2, <1>9, <1>10, PlacesKeepCall

\* The deeper order: under the same gate, and none the caller excluded.
LEMMA DeeperFacts ==
    ASSUME StoreOK, rcall \in RecallCall, ArmsOK(rcall), NEW embedded
    PROVE  RowList(Deeper(embedded)) /\ IdsOf(Deeper(embedded)) \cap Req.exclude = {}
<1> PICK vec : vec = VectorRead(DeeperDepth, embedded)
  OBVIOUS
<1> PICK words : words = IF rcall.held = NoRow THEN WordList(DeeperDepth) ELSE rcall.held
  OBVIOUS
<1> PICK rows : rows = Fused(vec, words, Req.exclude, Single(embedded))
  OBVIOUS
<1>1. VectorOK(vec)
  BY VectorsRead, RecallConstants DEF RecallConstants
<1>2. IdList(words)
  BY ArmsRead, RecallConstants DEF RecallConstants, ArmsOK
<1>3. RowList(rows) /\ IdsOf(rows) \cap Req.exclude = {}
  BY <1>1, <1>2, RowsFused
<1>4. RowList(Gated(rows, Req.deep)) /\ IdsOf(Gated(rows, Req.deep)) \subseteq IdsOf(rows)
  BY <1>3, RowsGated
<1>5. Deeper(embedded) = Gated(rows, Req.deep)
  BY DEF Deeper
<1> QED
  BY <1>3, <1>4, <1>5

\* The blocks and the refused keyword rows asked for as well.
LEMMA RestFacts ==
    ASSUME rcall \in RecallCall, ArmsOK(rcall), NEW n \in Nat, NEW answer, NEW unrefused,
           AnswerOK(answer, n, rcall.ranked, Req.exclude, unrefused)
    PROVE  AnswerOK(Rest(answer), n + Req.extraBlock + Req.extraKeyword, rcall.ranked, Req.exclude, unrefused)
<1> PICK first : first = Beside(answer, BlocksRead, Req.extraBlock, "block")
  OBVIOUS
<1> PICK words : words = RowIds(PartsFirst(Refused(rcall.rows, Req.deep)))
  OBVIOUS
<1>1. /\ Req.extraBlock \in Nat /\ Req.extraKeyword \in Nat
      /\ "block" \in Ways /\ "keyword" \in Ways
      /\ "block" \notin {"far", "cue"} /\ "keyword" \notin {"far", "cue"}
  BY RequestFacts DEF Req, Ways
<1>2. AnswerOK(first, n + Req.extraBlock, rcall.ranked, Req.exclude, unrefused)
  BY <1>1, BlocksFacts, PlacesBeside
<1>3. IdList(words) /\ ToSet(words) \cap Req.exclude = {}
  <2> DEFINE kept == {k \in DOMAIN rcall.rows : rcall.rows[k].lexOnly /\ ~PassesGate(rcall.rows[k], Req.deep)}
  <2>1. kept \subseteq DOMAIN rcall.rows /\ Refused(rcall.rows, Req.deep) = Keeping(rcall.rows, kept)
    BY DEF Refused
  <2>2. RowList(rcall.rows) /\ IdsOf(rcall.rows) \cap Req.exclude = {}
    BY DEF ArmsOK, Req
  <2> HIDE DEF kept
  <2>3. IdList(words) /\ ToSet(words) \subseteq IdsOf(rcall.rows)
    BY <2>1, <2>2, RowsForPlaces
  <2> QED
    BY <2>2, <2>3
<1>4. n + Req.extraBlock \in Nat
  BY <1>1
<1>5. AnswerOK(Beside(first, words, Req.extraKeyword, "keyword"), n + Req.extraBlock + Req.extraKeyword,
               rcall.ranked, Req.exclude, unrefused)
  BY <1>1, <1>2, <1>3, <1>4, PlacesBeside
<1>6. Rest(answer) = Beside(first, words, Req.extraKeyword, "keyword")
  BY DEF Rest
<1> QED
  BY <1>5, <1>6

\* An answer that has fewer places has no more than it may have.
LEMMA MorePlaces ==
    ASSUME NEW answer, NEW n \in Nat, NEW m \in Nat, n <= m, NEW ranked, NEW exclude, NEW unrefused,
           AnswerOK(answer, n, ranked, exclude, unrefused)
    PROVE  AnswerOK(answer, m, ranked, exclude, unrefused)
<1>1. Len(answer) \in Nat /\ Len(answer) <= n
  BY LenProperties DEF AnswerOK
<1>2. Len(answer) <= m
  BY <1>1
<1> QED
  BY <1>2 DEF AnswerOK

LEMMA PropagateKeeps == ASSUME RecallInv, Propagate PROVE CallOK(rcall')
<1>1. rcall.pc = "propagate" /\ rcall.pc \in DecidedAt /\ "depth" \in DecidedAt
  BY DEF Propagate, DecidedAt
<1>2. /\ CallOK(rcall) /\ rcall \in RecallCall /\ ArmsOK(rcall) /\ Req = rcall.req
      /\ PlacesBy("propagate", Req) \in Nat
      /\ AnswerOK(rcall.answer, PlacesBy("propagate", Req), rcall.ranked, Req.exclude, NotRefused(rcall))
      /\ Req.extraBlock \in Nat /\ Req.extraKeyword \in Nat
  BY <1>1, DecidedCall
<1> PICK n \in Nat : n = PlacesBy("propagate", Req)
  BY <1>2
<1>3. PICK embedded \in BOOLEAN :
          \/ \E i \in IdsOf(Deeper(embedded)) \ IdsOf(rcall.answer) :
                rcall' = [rcall EXCEPT !.pc = "depth",
                             !.answer = Rest(Append(rcall.answer, [id |-> i, how |-> "propagation"]))]
          \/ rcall' = [rcall EXCEPT !.pc = "depth", !.answer = Rest(rcall.answer)]
  <2>1. PICK embedded \in BOOLEAN :
            LET anchored == rcall.admitted # <<>> /\ rcall.admitted[1].id \in Vectored
                near     == IdsOf(Deeper(embedded)) \ IdsOf(rcall.answer)
            IN  IF Req.propagation /\ anchored /\ near # {}
                THEN \E i \in near :
                        rcall' = [rcall EXCEPT !.pc = "depth",
                                     !.answer = Rest(Append(rcall.answer, [id |-> i, how |-> "propagation"]))]
                ELSE rcall' = [rcall EXCEPT !.pc = "depth", !.answer = Rest(rcall.answer)]
    BY DEF Propagate
  <2> QED
    BY <2>1, Zenon
<1>4. PICK answer : /\ AnswerOK(answer, n + 1, rcall.ranked, Req.exclude, NotRefused(rcall))
                    /\ rcall' = [rcall EXCEPT !.pc = "depth", !.answer = Rest(answer)]
  <2>1. RowList(Deeper(embedded)) /\ IdsOf(Deeper(embedded)) \cap Req.exclude = {}
    BY <1>2, DeeperFacts DEF RecallInv
  <2>2. IdsOf(Deeper(embedded)) \subseteq RIds
    BY <2>1, RowIdsFacts DEF RowList, IdsOf
  <2>3. ASSUME NEW i \in IdsOf(Deeper(embedded)) \ IdsOf(rcall.answer)
        PROVE  AnswerOK(Append(rcall.answer, [id |-> i, how |-> "propagation"]), n + 1, rcall.ranked, Req.exclude,
                        NotRefused(rcall))
    <3>1. "propagation" \in Ways /\ "propagation" \notin {"far", "cue"}
      BY DEF Ways
    <3>2. i \in RIds /\ i \notin IdsOf(rcall.answer) /\ i \notin Req.exclude
      BY <2>1, <2>2
    <3> QED
      BY <1>2, <3>1, <3>2, OneMore
  <2>4. AnswerOK(rcall.answer, n + 1, rcall.ranked, Req.exclude, NotRefused(rcall))
    <3>1. n + 1 \in Nat /\ n <= n + 1
      OBVIOUS
    <3> QED
      BY <1>2, <3>1, MorePlaces
  <2> QED
    BY <1>3, <2>3, <2>4
<1>5. AnswerOK(Rest(answer), n + 1 + Req.extraBlock + Req.extraKeyword, rcall.ranked, Req.exclude, NotRefused(rcall))
  BY <1>2, <1>4, RestFacts
<1>6. PlacesBy("depth", rcall.req) = n + 1 + rcall.req.extraBlock + rcall.req.extraKeyword
  BY <1>2, PlacesAreCounted
<1>7. AnswerOK(Rest(answer), PlacesBy("depth", rcall.req), rcall.ranked, rcall.req.exclude, NotRefused(rcall))
  BY <1>2, <1>5, <1>6
<1> QED
  BY <1>1, <1>2, <1>4, <1>7, PlacesKeepCall

LEMMA SeatDepthKeeps == ASSUME RecallInv, SeatDepth PROVE CallOK(rcall')
<1>1. rcall.pc = "depth" /\ rcall.pc \in DecidedAt /\ "credit" \in DecidedAt
  BY DEF SeatDepth, DecidedAt
<1>2. /\ CallOK(rcall) /\ rcall \in RecallCall /\ ArmsOK(rcall) /\ Req = rcall.req
      /\ PlacesBy("depth", Req) \in Nat
      /\ AnswerOK(rcall.answer, PlacesBy("depth", Req), rcall.ranked, Req.exclude, NotRefused(rcall))
      /\ Req.depth \in Nat
  BY <1>1, DecidedCall
<1> PICK n \in Nat : n = PlacesBy("depth", Req)
  BY <1>2
<1>3. PICK embedded \in BOOLEAN :
          rcall' = [rcall EXCEPT !.pc = "credit",
                       !.answer = IF Req.depth = 0 THEN rcall.answer
                                  ELSE Beside(rcall.answer, RowIds(PartsFirst(Deeper(embedded))), Req.depth, "depth")]
  BY DEF SeatDepth
<1> PICK rows : rows = Deeper(embedded)
  OBVIOUS
<1> PICK more : more = Beside(rcall.answer, RowIds(PartsFirst(rows)), Req.depth, "depth")
  OBVIOUS
<1> PICK answer : answer = IF Req.depth = 0 THEN rcall.answer ELSE more
  OBVIOUS
<1>4. rcall' = [rcall EXCEPT !.pc = "credit", !.answer = answer]
  BY <1>3
<1>5. RowList(rows) /\ IdsOf(rows) \cap Req.exclude = {}
  BY <1>2, DeeperFacts DEF RecallInv
<1>6. IdList(RowIds(PartsFirst(rows))) /\ ToSet(RowIds(PartsFirst(rows))) \cap Req.exclude = {}
  <2>1. RowList(PartsFirst(rows)) /\ IdsOf(PartsFirst(rows)) = IdsOf(rows)
    BY <1>5, RowsPartsFirst
  <2>2. IdList(RowIds(PartsFirst(rows))) /\ ToSet(RowIds(PartsFirst(rows))) = IdsOf(PartsFirst(rows))
    BY <2>1, RowIdsFacts DEF RowList, IdList
  <2> QED
    BY <1>5, <2>1, <2>2
<1>7. AnswerOK(more, n + Req.depth, rcall.ranked, Req.exclude, NotRefused(rcall))
  <2>1. "depth" \in Ways /\ "depth" \notin {"far", "cue"}
    BY DEF Ways
  <2> QED
    BY <1>2, <1>6, <2>1, PlacesBeside
<1>8. AnswerOK(rcall.answer, n + Req.depth, rcall.ranked, Req.exclude, NotRefused(rcall))
  <2>1. n + Req.depth \in Nat /\ n <= n + Req.depth
    BY <1>2
  <2> QED
    BY <1>2, <2>1, MorePlaces
<1>9. AnswerOK(answer, n + Req.depth, rcall.ranked, Req.exclude, NotRefused(rcall))
  BY <1>7, <1>8
<1>10. PlacesBy("credit", rcall.req) = n + rcall.req.depth
  BY <1>2, PlacesAreCounted
<1>11. AnswerOK(answer, PlacesBy("credit", rcall.req), rcall.ranked, rcall.req.exclude, NotRefused(rcall))
  BY <1>2, <1>9, <1>10
<1> QED
  BY <1>1, <1>2, <1>4, <1>11, PlacesKeepCall

\* The credit ends the call, and counts each ranked record once at most.
LEMMA CreditKeeps == ASSUME RecallInv, Credit PROVE CallOK(rcall') /\ CreditOK'
<1>1. /\ rcall.pc = "credit" /\ rcall.pc \in DecidedAt /\ "done" \in DecidedAt
      /\ rcall' = [rcall EXCEPT !.pc = "done"]
      /\ rcounts' = [i \in RIds |-> IF ~Req.deep /\ ~rpaused /\ i \in IdsOf(rcall.ranked) /\ InScope_(i)
                                    THEN rcounts[i] + 1 ELSE rcounts[i]]
  BY DEF Credit, DecidedAt
<1>2. /\ CallOK(rcall) /\ rcall \in RecallCall /\ Req = rcall.req
      /\ AnswerOK(rcall.answer, PlacesBy("credit", Req), rcall.ranked, Req.exclude, NotRefused(rcall))
  BY <1>1, DecidedCall
<1>3. AnswerOK(rcall.answer, PlacesBy("done", rcall.req), rcall.ranked, rcall.req.exclude, NotRefused(rcall))
  BY <1>2, PlacesAreCounted
<1>4. rcall' = [rcall EXCEPT !.pc = "done", !.answer = rcall.answer]
  BY <1>1, <1>2 DEF RecallCall
<1>5. CallOK(rcall') /\ rcall'.pc = "done" /\ rcall'.ranked = rcall.ranked /\ rcall'.req = rcall.req
  BY <1>1, <1>2, <1>3, <1>4, PlacesKeepCall
<1>6. \A i \in RIds : rcounts[i] = 0
  BY <1>1 DEF RecallInv, CreditOK
<1>7. /\ rcounts' \in [RIds -> Nat]
      /\ \A i \in RIds : rcounts'[i] <= IF i \in IdsOf(rcall.ranked) /\ ~Req.deep THEN 1 ELSE 0
  BY <1>1, <1>6
<1>8. IdsOf(rcall'.ranked) = IdsOf(rcall.ranked) /\ Req' = Req
  BY <1>5 DEF Req
<1> QED
  BY <1>5, <1>7, <1>8 DEF CreditOK

LEMMA RecallStepHolds == RecallInv /\ [RecallNext]_recallVars => RecallInv'
<1> SUFFICES ASSUME RecallInv, [RecallNext]_recallVars  PROVE RecallInv'
  OBVIOUS
<1>0. /\ StoreOK /\ CreditOK
      /\ rcall.pc # "idle" => CallOK(rcall) /\ rcall \in RecallCall
  BY DEF RecallInv, CallOK
\* A step of the call other than the first and the last leaves the store and the counters.
<1>1. ASSUME CallOK(rcall'), rcall'.pc # "done", rcall.pc # "done", rstore' = rstore, rcounts' = rcounts
      PROVE  RecallInv'
  <2>1. StoreOK'
    BY <1>0, <1>1 DEF StoreOK
  <2>2. CreditOK'
    BY <1>0, <1>1 DEF CreditOK
  <2> QED
    BY <1>1, <2>1, <2>2 DEF RecallInv, CallOK, ArmsOK
<1>2. CASE \E req \in Requests : StartRecall(req)
  BY <1>2, StartKeeps
<1>3. CASE \E embedded \in BOOLEAN : EmbedQuery(embedded)
  <2>1. PICK embedded \in BOOLEAN : EmbedQuery(embedded)
    BY <1>3
  <2>2. CallOK(rcall')
    BY <2>1, EmbedKeeps
  <2>3. rcall.pc = "read" /\ rcall' = [rcall EXCEPT !.embedded = embedded] /\ rstore' = rstore /\ rcounts' = rcounts
    BY <2>1 DEF EmbedQuery
  <2> QED
    BY <1>0, <1>1, <2>2, <2>3 DEF RecallCall
<1>4. CASE ReadVector
  <2>1. CallOK(rcall')
    BY <1>4, ReadVectorKeeps
  <2>2. rcall.pc = "read" /\ rcall'.pc = "read" /\ rstore' = rstore /\ rcounts' = rcounts
    BY <1>0, <1>4 DEF ReadVector, RecallCall
  <2> QED
    BY <1>1, <2>1, <2>2
<1>5. CASE ReadWords
  <2>1. CallOK(rcall')
    BY <1>5, ReadWordsKeeps
  <2>2. rcall.pc = "read" /\ rcall'.pc = "read" /\ rstore' = rstore /\ rcounts' = rcounts
    BY <1>0, <1>5 DEF ReadWords, RecallCall
  <2> QED
    BY <1>1, <2>1, <2>2
<1>6. CASE ReadBlocks
  <2>1. CallOK(rcall')
    BY <1>6, ReadBlocksKeeps
  <2>2. rcall.pc \in {"read", "fused"} /\ rcall'.pc = rcall.pc /\ rstore' = rstore /\ rcounts' = rcounts
    BY <1>0, <1>6 DEF ReadBlocks, RecallCall
  <2> QED
    BY <1>1, <2>1, <2>2
<1>7. CASE FuseArms
  <2>1. CallOK(rcall')
    BY <1>7, FuseKeeps
  <2>2. rcall.pc = "read" /\ rcall'.pc = "fused" /\ rstore' = rstore /\ rcounts' = rcounts
    BY <1>0, <1>7 DEF FuseArms, RecallCall
  <2> QED
    BY <1>1, <2>1, <2>2
<1>8. CASE ReadFar
  <2>1. CallOK(rcall')
    BY <1>8, ReadFarKeeps
  <2>2. rcall.pc = "fused" /\ rcall'.pc \in {"cue", "gate"} /\ rstore' = rstore /\ rcounts' = rcounts
    BY <1>0, <1>8 DEF ReadFar, RecallCall
  <2> QED
    BY <1>1, <2>1, <2>2
<1>9. CASE ReadCue
  <2>1. CallOK(rcall')
    BY <1>9, ReadCueKeeps
  <2>2. rcall.pc = "cue" /\ rcall'.pc \in {"cue", "gate"} /\ rstore' = rstore /\ rcounts' = rcounts
    BY <1>0, <1>9 DEF ReadCue, RecallCall
  <2> QED
    BY <1>1, <2>1, <2>2
<1>10. CASE Select_
  <2>1. CallOK(rcall')
    BY <1>10, SelectKeeps
  <2>2. rcall.pc = "gate" /\ rcall'.pc = "far" /\ rstore' = rstore /\ rcounts' = rcounts
    BY <1>0, <1>10 DEF Select_, RecallCall
  <2> QED
    BY <1>1, <2>1, <2>2
<1>11. CASE SeatFar
  <2>1. CallOK(rcall')
    BY <1>11, SeatFarKeeps
  <2>2. rcall.pc = "far" /\ rcall'.pc = "propagate" /\ rstore' = rstore /\ rcounts' = rcounts
    BY <1>0, <1>11 DEF SeatFar, RecallCall
  <2> QED
    BY <1>1, <2>1, <2>2
<1>12. CASE Propagate
  <2>1. CallOK(rcall')
    BY <1>12, PropagateKeeps
  <2>2. rcall.pc = "propagate" /\ rcall'.pc = "depth" /\ rstore' = rstore /\ rcounts' = rcounts
    BY <1>0, <1>12 DEF Propagate, RecallCall
  <2> QED
    BY <1>1, <2>1, <2>2
<1>13. CASE SeatDepth
  <2>1. CallOK(rcall')
    BY <1>13, SeatDepthKeeps
  <2>2. rcall.pc = "depth" /\ rcall'.pc = "credit" /\ rstore' = rstore /\ rcounts' = rcounts
    BY <1>0, <1>13 DEF SeatDepth, RecallCall
  <2> QED
    BY <1>1, <2>1, <2>2
<1>14. CASE Credit
  <2>1. CallOK(rcall') /\ CreditOK'
    BY <1>14, CreditKeeps
  <2>2. StoreOK'
    BY <1>0, <1>14 DEF Credit, StoreOK
  <2> QED
    BY <2>1, <2>2 DEF RecallInv, CallOK, ArmsOK
<1>15. CASE \E i \in RIds : Leave(i)
  <2>1. PICK i \in RIds : rstore' = [rstore EXCEPT ![i] = NoRow] /\ UNCHANGED <<rcall, rcounts>>
    BY <1>15 DEF Leave
  <2>2. StoreOK'
    BY <1>0, <2>1 DEF StoreOK
  <2>3. CreditOK' /\ (rcall'.pc = "idle" \/ CallOK(rcall'))
    BY <1>0, <2>1 DEF CreditOK, Req
  <2> QED
    BY <2>2, <2>3 DEF RecallInv, CallOK, ArmsOK
<1>16. CASE PauseCaller \/ UNCHANGED recallVars
  <2>1. UNCHANGED <<rstore, rcall, rcounts>>
    BY <1>16 DEF PauseCaller, recallVars
  <2>2. StoreOK' /\ CreditOK' /\ (rcall'.pc = "idle" \/ CallOK(rcall'))
    BY <1>0, <2>1 DEF StoreOK, CreditOK, Req
  <2> QED
    BY <2>2 DEF RecallInv, CallOK, ArmsOK
<1> QED
  BY <1>2, <1>3, <1>4, <1>5, <1>6, <1>7, <1>8, <1>9, <1>10, <1>11, <1>12, <1>13, <1>14, <1>15, <1>16 DEF RecallNext

\* Whatever is stored, asked, deleted meanwhile and embedded or not, an answer of
\* do_recall names no record twice and none excluded, has the ranking first and complete
\* and no more than its places, credits only ranked records, and holds in a far or a time
\* cue place no record the gate refused (memory_handlers.py, _do_recall).
THEOREM RecallsStaySound == RecallSpec => []RecallIsSound
<1>1. RecallInv /\ [RecallNext]_recallVars => RecallInv'
  BY RecallStepHolds
<1> QED
  BY RecallStarts, <1>1, RecallInvSuffices, PTL DEF RecallSpec

-----------------------------------------------------------------------------
(* Segments: the nodes of a text                                            *)

\* A walk of N steps from a.
IsWalk(w, D, a, N, step) == w \in [0..N -> D] /\ w[0] = a /\ \A n \in 1..N : w[n] = step[n][w[n - 1]]
StepsOf(N, D) == [1..N -> [D -> D]]

LEMMA WalkIs ==
    ASSUME NEW D, NEW a \in D, NEW N \in Nat, NEW step \in StepsOf(N, D)
    PROVE  \E w : IsWalk(w, D, a, N, step)
<1>1. step \in [1..N -> [D -> D]]
  BY DEF StepsOf
<1>2. PICK w \in [0..N -> D] : w[0] = a /\ \A n \in 1..N : w[n] = step[n][w[n - 1]]
  BY <1>1, WalkExists
<1>3. IsWalk(w, D, a, N, step)
  BY <1>2 DEF IsWalk
<1> QED
  BY <1>3

\* What the place n of a table of N + 1 places is to hold, given the table: a rule for each.
RulesOf(N, D) == [0..N -> [[0..N -> D] -> D]]

\* A rule looks only at the places below its own.
LooksBelow(N, D, rule) ==
    \A n \in 0..N : \A f, g \in [0..N -> D] : (\A m \in 0..N : m < n => f[m] = g[m]) => rule[n][f] = rule[n][g]

\* The tables on the way, one more place filled in each.
Filling(w, N, D, rule) ==
    /\ w \in [0..(N + 1) -> [0..N -> D]]
    /\ \A k \in 1..(N + 1) : w[k] = [w[k - 1] EXCEPT ![k - 1] = rule[k - 1][w[k - 1]]]

\* A table can be filled place by place, whatever the rule of each place.
LEMMA FillingExists ==
    ASSUME NEW D, NEW d \in D, NEW N \in Nat, NEW rule \in RulesOf(N, D)
    PROVE  \E w : Filling(w, N, D, rule)
<1> DEFINE T == [0..N -> D]
           empty == [n \in 0..N |-> d]
           M == N + 1
           step == [k \in 1..M |-> [f \in T |-> [f EXCEPT ![k - 1] = rule[k - 1][f]]]]
<1>1. empty \in T /\ M \in Nat
  OBVIOUS
<1>2. ASSUME NEW k \in 1..M, NEW f \in T
      PROVE  step[k][f] = [f EXCEPT ![k - 1] = rule[k - 1][f]] /\ [f EXCEPT ![k - 1] = rule[k - 1][f]] \in T
  <2>1. k - 1 \in 0..N
    OBVIOUS
  <2>2. rule[k - 1] \in [T -> D]
    BY <2>1 DEF RulesOf
  <2>3. rule[k - 1][f] \in D
    BY <2>2
  <2> QED
    BY <2>1, <2>3
<1>3. step \in StepsOf(M, T)
  BY <1>2 DEF StepsOf
<1>4. PICK w : IsWalk(w, T, empty, M, step)
  <2> HIDE DEF T, empty, step, M
  <2> QED
    BY <1>1, <1>3, WalkIs
<1>5. ASSUME NEW k \in 1..M  PROVE w[k] = [w[k - 1] EXCEPT ![k - 1] = rule[k - 1][w[k - 1]]]
  <2>1. k - 1 \in 0..M
    BY <1>1
  <2>2. w[k - 1] \in T /\ w[k] = step[k][w[k - 1]]
    BY <1>4, <2>1 DEF IsWalk
  <2> HIDE DEF step, T
  <2> QED
    BY <1>2, <2>2
<1> QED
  BY <1>4, <1>5 DEF Filling, IsWalk

\* Each place holds what its rule makes of the table.
IsTable(f, N, D, rule) == f \in [0..N -> D] /\ \A n \in 0..N : f[n] = rule[n][f]

\* A table of N + 1 places in which each follows from the places below it exists.
LEMMA TableExists ==
    ASSUME NEW D, NEW d \in D, NEW N \in Nat, NEW rule \in RulesOf(N, D), LooksBelow(N, D, rule)
    PROVE  \E f : IsTable(f, N, D, rule)
<1> DEFINE T == [0..N -> D]
<1>4. PICK w : Filling(w, N, D, rule)
  BY FillingExists
<1> DEFINE filled == {k \in 0..(N + 1) : \A m \in 0..N : m < k => w[k][m] = rule[m][w[k]]}
<1>5. 0 \in filled
  OBVIOUS
<1>6. ASSUME NEW k \in 1..(N + 1), k - 1 \in filled  PROVE k \in filled
  <2>1. k - 1 \in 0..(N + 1) /\ k \in 0..(N + 1) /\ w[k - 1] \in T /\ w[k] \in T
    BY <1>4 DEF Filling
  <2>2. k - 1 \in 0..N /\ w[k] = [w[k - 1] EXCEPT ![k - 1] = rule[k - 1][w[k - 1]]]
    <3>1. k - 1 \in 0..N
      OBVIOUS
    <3>2. w[k] = [w[k - 1] EXCEPT ![k - 1] = rule[k - 1][w[k - 1]]]
      BY <1>4, Zenon DEF Filling
    <3> QED
      BY <3>1, <3>2
  <2>3. \A m \in 0..N : m < k - 1 => w[k - 1][m] = rule[m][w[k - 1]]
    BY <1>6
  <2>4. w[k][k - 1] = rule[k - 1][w[k - 1]] /\ \A m \in 0..N : m < k - 1 => w[k][m] = w[k - 1][m]
    BY <2>1, <2>2
  <2>5. \A m \in 0..N : m < k => rule[m][w[k]] = rule[m][w[k - 1]]
    <3>1. SUFFICES ASSUME NEW m \in 0..N, m < k  PROVE rule[m][w[k]] = rule[m][w[k - 1]]
      OBVIOUS
    <3>2. \A j \in 0..N : j < m => w[k][j] = w[k - 1][j]
      BY <2>4, <3>1
    <3> QED
      BY <2>1, <3>2 DEF LooksBelow
  <2>6. \A m \in 0..N : m < k => w[k][m] = rule[m][w[k]]
    <3>1. \A m \in 0..N : m < k => m < k - 1 \/ m = k - 1
      OBVIOUS
    <3> QED
      BY <3>1, <2>3, <2>4, <2>5
  <2> QED
    BY <2>1, <2>6
<1>7. N + 1 \in filled
  <2>1. \A k \in 0..(N + 1) : k \in filled
    <3>1. N + 1 \in Nat
      OBVIOUS
    <3> HIDE DEF filled
    <3> QED
      BY <1>5, <1>6, <3>1, StepByStep
  <2> QED
    BY <2>1
<1>8. w[N + 1] \in T /\ \A n \in 0..N : w[N + 1][n] = rule[n][w[N + 1]]
  BY <1>4, <1>7 DEF Filling
<1> QED
  BY <1>8 DEF IsTable

\* A piece of a text is the characters of the text at its places.
LEMMA SliceFacts ==
    ASSUME NEW n \in Nat, NEW t \in [1..n -> Chars], NEW a \in 0..n, NEW b \in a..n
    PROVE  /\ Slice(t, a, b) \in [1..(b - a) -> Chars] /\ Len(Slice(t, a, b)) = b - a
           /\ \A i \in 1..(b - a) : Slice(t, a, b)[i] = t[a + i]
<1>1. \A i \in (a + 1)..b : t[i] \in Chars
  OBVIOUS
<1>2. /\ Slice(t, a, b) \in Seq(Chars) /\ Len(Slice(t, a, b)) = b - a
      /\ \A i \in 1..(b - a) : Slice(t, a, b)[i] = t[a + i]
  <2>1. /\ SubSeq(t, a + 1, b) \in Seq(Chars)
        /\ Len(SubSeq(t, a + 1, b)) = IF a + 1 <= b THEN b - (a + 1) + 1 ELSE 0
        /\ \A i \in 1..(b - (a + 1) + 1) : SubSeq(t, a + 1, b)[i] = t[a + 1 + i - 1]
    BY <1>1, SubSeqProperties
  <2> QED
    BY <2>1 DEF Slice
<1>3. Slice(t, a, b) \in [1..(b - a) -> Chars]
  BY <1>2, LenProperties
<1> QED
  BY <1>2, <1>3

\* A piece of a piece is a piece of the text.
LEMMA SliceOfSlice ==
    ASSUME NEW n \in Nat, NEW t \in [1..n -> Chars], NEW a \in 0..n, NEW c \in 0..(n - a)
    PROVE  Slice(Slice(t, a, n), 0, c) = Slice(t, a, a + c)
<1> DEFINE r == Slice(t, a, n)
<1>1. n - a \in Nat /\ a + c \in a..n /\ n \in a..n /\ 0 \in 0..(n - a) /\ c - 0 = c /\ (a + c) - a = c
  OBVIOUS
<1>2. r \in [1..(n - a) -> Chars] /\ \A i \in 1..(n - a) : r[i] = t[a + i]
  BY <1>1, SliceFacts
<1>3. Slice(r, 0, c) \in [1..c -> Chars] /\ \A i \in 1..c : Slice(r, 0, c)[i] = r[0 + i]
  <2> HIDE DEF r
  <2>1. /\ Slice(r, 0, c) \in [1..(c - 0) -> Chars]
        /\ \A i \in 1..(c - 0) : Slice(r, 0, c)[i] = r[0 + i]
    BY <1>1, <1>2, SliceFacts
  <2> QED
    BY <1>1, <2>1
<1>4. Slice(t, a, a + c) \in [1..c -> Chars] /\ \A i \in 1..c : Slice(t, a, a + c)[i] = t[a + i]
  <2>1. /\ Slice(t, a, a + c) \in [1..((a + c) - a) -> Chars]
        /\ \A i \in 1..((a + c) - a) : Slice(t, a, a + c)[i] = t[a + i]
    BY <1>1, SliceFacts
  <2> QED
    BY <1>1, <2>1
<1>5. \A i \in 1..c : Slice(r, 0, c)[i] = Slice(t, a, a + c)[i]
  BY <1>2, <1>3, <1>4
<1> QED
  <2> DEFINE p == Slice(r, 0, c)
             q == Slice(t, a, a + c)
  <2>1. p \in [1..c -> Chars] /\ q \in [1..c -> Chars] /\ \A i \in 1..c : p[i] = q[i]
    BY <1>3, <1>4, <1>5
  <2> HIDE DEF p, q
  <2>2. p = q
    BY <2>1
  <2> QED
    BY <2>2 DEF p, q

\* A cut leaves a node of at least one character and none past the window.
LEMMA CutInWindow ==
    ASSUME NEW n \in Nat, NEW t \in [1..n -> Chars], NEW l \in 1..n
    PROVE  ChooseCut(t, l) \in 1..l
<1>1. Len(t) = n
  BY AsList
<1> DEFINE end == IF l < Len(t) THEN l ELSE Len(t)
           classes == <<AfterParagraph(t), AfterNewline(t), AfterSentence(t), AfterSpace(t)>>
           within(k) == {p \in classes[k] : p <= end}
           good == {k \in DOMAIN classes : within(k) # {} /\ Greatest(within(k)) * 2 >= end}
<1>2. end = l
  BY <1>1
<1>3. DOMAIN classes = 1..4 /\ \A k \in 1..4 : classes[k] \subseteq 1..n
  BY <1>1 DEF AfterParagraph, AfterNewline, AfterSentence, AfterSpace
<1>4. ASSUME NEW k \in good  PROVE Greatest(within(k)) \in 1..l
  <2>1. within(k) # {} /\ within(k) \subseteq 1..l
    BY <1>2, <1>3
  <2>2. \E x \in within(k) : \A y \in within(k) : x >= y
    <3> HIDE DEF within
    <3>1. within(k) \subseteq 0..l /\ l \in Nat
      BY <2>1
    <3> QED
      BY <2>1, <3>1, GreatestNumber
  <2>3. Greatest(within(k)) \in within(k)
    <3> HIDE DEF within
    <3> QED
      BY <2>1, <2>2 DEF Greatest
  <2> QED
    BY <2>1, <2>3
<1>5. ASSUME good # {}  PROVE (CHOOSE k \in good : \A j \in good : k <= j) \in good
  <2>1. good \subseteq Nat
    BY <1>3
  <2> HIDE DEF good
  <2> QED
    BY <1>5, <2>1, LeastNumber
<1>6. ChooseCut(t, l) = IF good = {} THEN end ELSE Greatest(within(CHOOSE k \in good : \A j \in good : k <= j))
  BY DEF ChooseCut
<1> HIDE DEF good, within, end
<1> QED
  BY <1>2, <1>4, <1>5, <1>6

\* A report on a piece of a text ends within it.
LEMMA ReportInText ==
    ASSUME NEW n \in 0..MaxText, NEW t \in [1..n -> Chars], NEW w \in Windows
    PROVE  Measure(t, w).end \in 0..n
BY MeasureAssumption

\* What a limit leads to, given the table of what the smaller ones lead to.
CutFor(rest, w, f, l) ==
    IF l < 1 THEN 0
    ELSE LET cut == ChooseCut(rest, l)
             info == Measure(Slice(rest, 0, cut), w)
         IN  IF ~info.truncated THEN cut ELSE f[IF info.end < cut - 1 THEN info.end ELSE cut - 1]

\* A limit leads to a cut within it, or to a smaller limit.
LEMMA LimitShrinks ==
    ASSUME NEW n \in 1..MaxText, NEW t \in [1..n -> Chars], NEW w \in Windows, NEW l \in 1..n
    PROVE  LET cut  == ChooseCut(t, l)
               info == Measure(Slice(t, 0, cut), w)
           IN  cut \in 1..l /\ (IF info.end < cut - 1 THEN info.end ELSE cut - 1) \in 0..(l - 1)
<1> DEFINE cut == ChooseCut(t, l)
           info == Measure(Slice(t, 0, cut), w)
<1>1. n \in Nat /\ MaxText \in Nat
  BY SegmentsConstants
<1>2. cut \in 1..l
  BY <1>1, CutInWindow
<1>3. cut \in 0..n /\ cut \in 0..MaxText /\ cut - 0 = cut /\ 0 \in 0..n
  BY <1>1, <1>2
<1>4. Slice(t, 0, cut) \in [1..cut -> Chars]
  <2> HIDE DEF cut
  <2>1. Slice(t, 0, cut) \in [1..(cut - 0) -> Chars]
    BY <1>1, <1>3, SliceFacts
  <2> QED
    BY <1>3, <2>1
<1>5. info.end \in 0..cut
  <2> HIDE DEF cut
  <2> QED
    BY <1>3, <1>4, ReportInText
<1> QED
  <2> HIDE DEF cut, info
  <2>1. cut \in 1..l /\ (IF info.end < cut - 1 THEN info.end ELSE cut - 1) \in 0..(l - 1)
    BY <1>1, <1>2, <1>5
  <2> QED
    BY <2>1 DEF cut, info

\* The search for a cut comes to an end: its table exists.
LEMMA CutsExist ==
    ASSUME NEW n \in 1..MaxText, NEW t \in [1..n -> Chars], NEW w \in Windows
    PROVE  \E f \in [0..n -> 0..n] : \A l \in 0..n : f[l] = CutFor(t, w, f, l)
<1> DEFINE D == 0..n
           rule == [l \in 0..n |-> [f \in [0..n -> D] |-> CutFor(t, w, f, l)]]
           next(l) == LET cut == ChooseCut(t, l) info == Measure(Slice(t, 0, cut), w)
                      IN  IF info.end < cut - 1 THEN info.end ELSE cut - 1
<1>1. n \in Nat /\ 0 \in D
  BY SegmentsConstants
<1>2. ASSUME NEW l \in 1..n  PROVE ChooseCut(t, l) \in D /\ next(l) \in 0..n /\ next(l) < l
  <2>1. ChooseCut(t, l) \in 1..l /\ next(l) \in 0..(l - 1)
    BY LimitShrinks
  <2> HIDE DEF next
  <2> QED
    BY <1>1, <2>1
<1>3. ASSUME NEW l \in 0..n, NEW f
      PROVE  CutFor(t, w, f, l) = IF l < 1 THEN 0
                                  ELSE IF ~Measure(Slice(t, 0, ChooseCut(t, l)), w).truncated THEN ChooseCut(t, l)
                                  ELSE f[next(l)]
  BY DEF CutFor
<1>4. \A l \in 0..n : l < 1 \/ l \in 1..n
  BY <1>1
<1>5. rule \in RulesOf(n, D)
  <2> SUFFICES ASSUME NEW l \in 0..n, NEW f \in [0..n -> D]  PROVE CutFor(t, w, f, l) \in D
    BY DEF RulesOf
  <2> HIDE DEF next, D
  <2>1. CASE l < 1
    BY <1>1, <1>3, <2>1
  <2>2. CASE l \in 1..n
    <3>1. f[next(l)] \in D
      BY <1>2, <2>2
    <3> QED
      BY <1>1, <1>2, <1>3, <2>2, <3>1
  <2> QED
    BY <1>4, <2>1, <2>2
<1>6. LooksBelow(n, D, rule)
  <2> SUFFICES ASSUME NEW l \in 0..n, NEW f \in [0..n -> D], NEW g \in [0..n -> D],
                      \A m \in 0..n : m < l => f[m] = g[m]
               PROVE  CutFor(t, w, f, l) = CutFor(t, w, g, l)
    BY DEF LooksBelow
  <2> HIDE DEF next, D
  <2>1. CASE l < 1
    BY <1>3, <2>1
  <2>2. CASE l \in 1..n
    <3>1. f[next(l)] = g[next(l)]
      BY <1>2, <2>2
    <3> QED
      BY <1>3, <3>1
  <2> QED
    BY <1>4, <2>1, <2>2
<1>7. PICK f : IsTable(f, n, D, rule)
  <2> HIDE DEF rule, D
  <2> QED
    BY <1>1, <1>5, <1>6, TableExists
<1>8. f \in [0..n -> D] /\ \A l \in 0..n : f[l] = CutFor(t, w, f, l)
  BY <1>7 DEF IsTable
<1> QED
  BY <1>8

\* A table of cuts that leads to none but fitting ones.
LEMMA TableFits ==
    ASSUME NEW n \in 1..MaxText, NEW t \in [1..n -> Chars], NEW w \in Windows, NEW f,
           \A l \in 0..n : f[l] = CutFor(t, w, f, l)
    PROVE  \A l \in 0..n : f[l] \in 0..n /\ (f[l] # 0 => ~Measure(Slice(t, 0, f[l]), w).truncated)
<1> DEFINE Fits(c) == c \in 0..n /\ (c # 0 => ~Measure(Slice(t, 0, c), w).truncated)
           fits == {l \in 0..n : \A k \in 0..n : k <= l => Fits(f[k])}
           next(l) == LET cut == ChooseCut(t, l) info == Measure(Slice(t, 0, cut), w)
                      IN  IF info.end < cut - 1 THEN info.end ELSE cut - 1
<1>1. n \in Nat
  BY SegmentsConstants
<1>2. f[0] = 0
  BY <1>1 DEF CutFor
<1>3. 0 \in fits
  BY <1>1, <1>2
<1>4. ASSUME NEW l \in 1..n, l - 1 \in fits  PROVE l \in fits
  <2>1. ChooseCut(t, l) \in 1..l /\ next(l) \in 0..(l - 1)
    BY LimitShrinks
  <2>2. f[l] = IF ~Measure(Slice(t, 0, ChooseCut(t, l)), w).truncated THEN ChooseCut(t, l) ELSE f[next(l)]
    <3>1. l \in 0..n /\ ~(l < 1)
      BY <1>1
    <3> QED
      BY <3>1 DEF CutFor
  <2>3. \A k \in 0..n : k <= l - 1 => Fits(f[k])
    BY <1>4
  <2>4. next(l) \in 0..n /\ next(l) <= l - 1
    <3> HIDE DEF next
    <3> QED
      BY <1>1, <2>1
  <2>5. Fits(f[l])
    <3>1. Fits(f[next(l)])
      <4> HIDE DEF next, Fits
      <4> QED
        BY <2>3, <2>4
    <3> HIDE DEF next
    <3> QED
      BY <1>1, <2>1, <2>2, <3>1
  <2>6. \A k \in 0..n : k <= l => k <= l - 1 \/ k = l
    BY <1>1
  <2> HIDE DEF Fits
  <2>7. \A k \in 0..n : k <= l => Fits(f[k])
    BY <2>3, <2>5, <2>6
  <2> QED
    BY <1>1, <2>7
<1>5. \A l \in 0..n : l \in fits
  <2> HIDE DEF fits
  <2> QED
    BY <1>1, <1>3, <1>4, StepByStep
<1> QED
  BY <1>5

\* The inner loop of divide ends, at a cut of the text that is measured to fit, or at none.
LEMMA CutsFit ==
    ASSUME NEW n \in 1..MaxText, NEW t \in [1..n -> Chars], NEW w \in Windows, NEW limit \in 0..n
    PROVE  /\ CutWithin(t, limit, w) \in 0..n
           /\ CutWithin(t, limit, w) # 0 => ~Measure(Slice(t, 0, CutWithin(t, limit, w)), w).truncated
<1> DEFINE F(g) == [l \in 0..Len(t) |-> CutFor(t, w, g, l)]
           try == CHOOSE g : g = F(g)
<1>1. n \in Nat /\ Len(t) = n
  BY SegmentsConstants, AsList
<1>2. PICK f \in [0..n -> 0..n] : \A l \in 0..n : f[l] = CutFor(t, w, f, l)
  BY CutsExist
<1>3. f = F(f)
  BY <1>1, <1>2
<1>4. try = F(try)
  <2> HIDE DEF F
  <2> QED
    BY <1>3
<1>5. CutWithin(t, limit, w) = try[limit]
  BY DEF CutWithin, CutFor
<1> HIDE DEF try
<1>6. \A l \in 0..n : try[l] = CutFor(t, w, try, l)
  BY <1>1, <1>4
<1> HIDE DEF F
<1> QED
  BY <1>5, <1>6, TableFits

\* The spans of the text from pos, given those from each later place.
DivisionFrom(text, w, f, pos) ==
    IF pos >= Len(text) THEN <<>>
    ELSE LET rest == Slice(text, pos, Len(text))
             info == Measure(rest, w)
             cut == CutWithin(rest, info.end, w)
         IN  IF ~info.truncated THEN <<Len(text)>>
             ELSE IF cut = 0 THEN TokensUnknown
             ELSE LET tail == f[pos + cut]
                  IN  IF tail = TokensUnknown THEN TokensUnknown ELSE <<pos + cut>> \o tail

RestOf(t, n, pos)   == Slice(t, pos, n)
CutAt(t, n, w, pos) == CutWithin(RestOf(t, n, pos), Measure(RestOf(t, n, pos), w).end, w)

LEMMA DivisionCases ==
    ASSUME NEW n \in 1..MaxText, NEW t \in [1..n -> Chars], NEW w \in Windows, NEW f, NEW pos \in 0..n
    PROVE  DivisionFrom(t, w, f, pos) =
              IF pos = n THEN <<>>
              ELSE IF ~Measure(RestOf(t, n, pos), w).truncated THEN <<n>>
              ELSE IF CutAt(t, n, w, pos) = 0 \/ f[pos + CutAt(t, n, w, pos)] = TokensUnknown THEN TokensUnknown
              ELSE <<pos + CutAt(t, n, w, pos)>> \o f[pos + CutAt(t, n, w, pos)]
<1>1. n \in Nat /\ Len(t) = n /\ (pos >= n <=> pos = n)
  BY SegmentsConstants, AsList
<1> QED
  BY <1>1 DEF DivisionFrom, RestOf, CutAt

\* The cut at a place is of the text, and what it cuts off was measured to fit.
LEMMA CutAtFits ==
    ASSUME NEW n \in 1..MaxText, NEW t \in [1..n -> Chars], NEW w \in Windows, NEW pos \in 0..(n - 1)
    PROVE  LET cut == CutAt(t, n, w, pos)
           IN  /\ cut \in 0..(n - pos)
               /\ cut # 0 => ~Measure(Slice(t, pos, pos + cut), w).truncated
<1> DEFINE rest == RestOf(t, n, pos)
           m == n - pos
           cut == CutAt(t, n, w, pos)
<1>1. n \in Nat /\ MaxText \in Nat /\ pos \in 0..n /\ n \in pos..n /\ m \in 1..MaxText /\ m \in 0..MaxText
  BY SegmentsConstants
<1>2. rest \in [1..m -> Chars]
  BY <1>1, SliceFacts DEF RestOf
<1>3. Measure(rest, w).end \in 0..m
  <2> HIDE DEF rest, m
  <2> QED
    BY <1>1, <1>2, ReportInText
<1>4. cut \in 0..m /\ (cut # 0 => ~Measure(Slice(rest, 0, cut), w).truncated)
  <2>1. cut = CutWithin(rest, Measure(rest, w).end, w)
    BY DEF CutAt
  <2> HIDE DEF rest, m, cut
  <2> QED
    BY <1>1, <1>2, <1>3, <2>1, CutsFit
<1>5. Slice(rest, 0, cut) = Slice(t, pos, pos + cut)
  <2> HIDE DEF cut
  <2>1. cut \in 0..(n - pos)
    BY <1>4
  <2> QED
    BY <1>1, <2>1, SliceOfSlice DEF RestOf
<1> QED
  BY <1>4, <1>5

\* The division comes to an end: its table, from the last place to the first, exists.
LEMMA DivisionsExist ==
    ASSUME NEW n \in 1..MaxText, NEW t \in [1..n -> Chars], NEW w \in Windows
    PROVE  \E f : f = [pos \in 0..n |-> DivisionFrom(t, w, f, pos)]
<1> DEFINE D == Seq(Int)
           turned(g) == [pos \in 0..n |-> g[n - pos]]
           rule == [k \in 0..n |-> [g \in [0..n -> D] |-> DivisionFrom(t, w, turned(g), n - k)]]
           cut(k) == CutAt(t, n, w, n - k)
<1>1. n \in Nat /\ <<>> \in D /\ TokensUnknown \in D /\ <<n>> \in D
  BY SegmentsConstants DEF TokensUnknown
<1>2. ASSUME NEW k \in 1..n
      PROVE  cut(k) \in 0..k /\ k - cut(k) \in 0..n /\ (n - k) + cut(k) \in 0..n /\ n - ((n - k) + cut(k)) = k - cut(k)
  <2>1. n - k \in 0..(n - 1) /\ n - (n - k) = k
    BY <1>1
  <2>2. cut(k) \in 0..(n - (n - k))
    BY <2>1, CutAtFits
  <2> HIDE DEF cut
  <2> QED
    BY <1>1, <2>1, <2>2
<1>3. ASSUME NEW k \in 0..n, NEW g
      PROVE  DivisionFrom(t, w, turned(g), n - k) =
                IF k = 0 THEN <<>>
                ELSE IF ~Measure(RestOf(t, n, n - k), w).truncated THEN <<n>>
                ELSE IF cut(k) = 0 \/ g[k - cut(k)] = TokensUnknown THEN TokensUnknown
                ELSE <<(n - k) + cut(k)>> \o g[k - cut(k)]
  <2>1. n - k \in 0..n /\ (n - k = n <=> k = 0) /\ (k = 0 \/ k \in 1..n)
    BY <1>1
  <2>2. k # 0 => turned(g)[(n - k) + cut(k)] = g[k - cut(k)]
    <3> HIDE DEF cut
    <3> QED
      BY <1>2, <2>1
  <2>3. DivisionFrom(t, w, turned(g), n - k) =
              IF n - k = n THEN <<>>
              ELSE IF ~Measure(RestOf(t, n, n - k), w).truncated THEN <<n>>
              ELSE IF cut(k) = 0 \/ turned(g)[(n - k) + cut(k)] = TokensUnknown THEN TokensUnknown
              ELSE <<(n - k) + cut(k)>> \o turned(g)[(n - k) + cut(k)]
    <3> DEFINE p == n - k
               f == turned(g)
               c == CutAt(t, n, w, p)
    <3>1. p \in 0..n
      BY <2>1
    <3>2. DivisionFrom(t, w, f, p) =
             IF p = n THEN <<>>
             ELSE IF ~Measure(RestOf(t, n, p), w).truncated THEN <<n>>
             ELSE IF c = 0 \/ f[p + c] = TokensUnknown THEN TokensUnknown
             ELSE <<p + c>> \o f[p + c]
      <4> HIDE DEF p, f
      <4> QED
        BY <3>1, DivisionCases
    <3> QED
      BY <3>2
  <2> HIDE DEF cut, turned
  <2> QED
    BY <2>1, <2>2, <2>3
<1> HIDE DEF turned
<1>4. rule \in RulesOf(n, D)
  <2> SUFFICES ASSUME NEW k \in 0..n, NEW g \in [0..n -> D]  PROVE DivisionFrom(t, w, turned(g), n - k) \in D
    BY DEF RulesOf
  <2>1. k # 0 => g[k - cut(k)] \in D /\ <<(n - k) + cut(k)>> \in D
    <3>1. k # 0 => k \in 1..n
      BY <1>1
    <3>2. k # 0 => k - cut(k) \in 0..n /\ (n - k) + cut(k) \in Int
      <4>1. k # 0 => k - cut(k) \in 0..n /\ (n - k) + cut(k) \in 0..n
        BY <1>2, <3>1
      <4> HIDE DEF cut
      <4> QED
        BY <1>1, <4>1
    <3> HIDE DEF cut
    <3> QED
      BY <3>2
  <2>2. k # 0 => <<(n - k) + cut(k)>> \o g[k - cut(k)] \in D
    <3> HIDE DEF cut
    <3> QED
      BY <2>1, ConcatProperties
  <2> HIDE DEF D, cut
  <2> QED
    BY <1>1, <1>3, <2>2
<1>5. LooksBelow(n, D, rule)
  <2> SUFFICES ASSUME NEW k \in 0..n, NEW g \in [0..n -> D], NEW h \in [0..n -> D],
                      \A m \in 0..n : m < k => g[m] = h[m]
               PROVE  DivisionFrom(t, w, turned(g), n - k) = DivisionFrom(t, w, turned(h), n - k)
    BY DEF LooksBelow
  <2>1. k # 0 /\ cut(k) # 0 => g[k - cut(k)] = h[k - cut(k)]
    <3>1. k # 0 => k \in 1..n
      BY <1>1
    <3>2. k # 0 /\ cut(k) # 0 => k - cut(k) \in 0..n /\ k - cut(k) < k
      <4> HIDE DEF cut
      <4>1. k = 0 \/ (cut(k) \in 0..k /\ k - cut(k) \in 0..n)
        BY <1>2, <3>1
      <4> HIDE DEF cut
      <4> QED
        BY <1>1, <4>1
    <3> HIDE DEF cut
    <3> QED
      BY <3>2
  <2> HIDE DEF D, cut
  <2> QED
    BY <1>3, <2>1
<1>6. PICK g : IsTable(g, n, D, rule)
  <2> HIDE DEF rule, D
  <2> QED
    BY <1>1, <1>4, <1>5, TableExists
<1>7. \A k \in 0..n : g[k] = DivisionFrom(t, w, turned(g), n - k)
  BY <1>6 DEF IsTable
<1>8. turned(g) = [pos \in 0..n |-> DivisionFrom(t, w, turned(g), pos)]
  <2>1. \A pos \in 0..n : n - pos \in 0..n /\ n - (n - pos) = pos
    BY <1>1
  <2>2. \A pos \in 0..n : g[n - pos] = DivisionFrom(t, w, turned(g), pos)
    BY <1>7, <2>1
  <2>3. turned(g) = [pos \in 0..n |-> g[n - pos]]
    BY DEF turned
  <2> HIDE DEF turned
  <2> QED
    BY <2>2, <2>3
<1> QED
  <2> HIDE DEF turned
  <2> QED
    BY <1>8

\* The ends of nodes that lie one after the other from pos to the end of a text of n
\* characters, each of at least one character and measured to fit.
NodesFrom(t, n, w, pos, d) ==
    /\ d \in Seq(Int) /\ (d = <<>> <=> pos = n) /\ (d # <<>> => d[Len(d)] = n)
    /\ \A i \in 1..Len(d) :
          LET start == IF i = 1 THEN pos ELSE d[i - 1]
          IN  start < d[i] /\ ~Measure(Slice(t, start, d[i]), w).truncated

\* One more node before those that follow it.
LEMMA NodeBefore ==
    ASSUME NEW n \in Nat, NEW t, NEW w, NEW pos \in 0..(n - 1), NEW cut \in 1..(n - pos),
           ~Measure(Slice(t, pos, pos + cut), w).truncated, NEW d, NodesFrom(t, n, w, pos + cut, d)
    PROVE  NodesFrom(t, n, w, pos, <<pos + cut>> \o d)
<1> DEFINE q == pos + cut
           s == <<q>> \o d
           Fit(a, b) == a < b /\ ~Measure(Slice(t, a, b), w).truncated
<1>1. q \in Int /\ pos < q /\ pos # n
  OBVIOUS
<1>2. d \in Seq(Int) /\ Len(d) \in Nat /\ <<q>> \in Seq(Int) /\ Len(<<q>>) = 1
  BY <1>1, LenProperties DEF NodesFrom
<1>3. /\ s \in Seq(Int) /\ Len(s) = 1 + Len(d)
      /\ \A i \in 1..(1 + Len(d)) : s[i] = IF i <= 1 THEN <<q>>[i] ELSE d[i - 1]
  <2> HIDE DEF q
  <2> QED
    BY <1>2, ConcatProperties
<1>4. s[1] = q /\ \A i \in 2..(1 + Len(d)) : s[i] = d[i - 1]
  BY <1>2, <1>3
<1>5. s # <<>>
  BY <1>2, <1>3, EmptySeq
<1>6. s[Len(s)] = n
  <2>1. CASE d = <<>>
    BY <1>2, <1>3, <1>4, <2>1 DEF NodesFrom
  <2>2. CASE d # <<>>
    <3>1. Len(d) # 0
      BY <1>2, <2>2, EmptySeq
    <3> QED
      BY <1>2, <1>3, <1>4, <2>2, <3>1 DEF NodesFrom
  <2> QED
    BY <2>1, <2>2
<1>7. ASSUME NEW i \in 1..Len(s)  PROVE Fit(IF i = 1 THEN pos ELSE s[i - 1], s[i])
  <2>1. CASE i = 1
    BY <1>1, <1>4, <2>1
  <2>2. CASE i # 1
    <3>1. i - 1 \in 1..Len(d) /\ i \in 2..(1 + Len(d)) /\ (i - 1 # 1 => i - 1 \in 2..(1 + Len(d)))
      BY <1>2, <1>3, <2>2
    <3>2. Fit(IF i - 1 = 1 THEN q ELSE d[(i - 1) - 1], d[i - 1])
      BY <3>1 DEF NodesFrom
    <3>3. s[i] = d[i - 1] /\ s[i - 1] = IF i - 1 = 1 THEN q ELSE d[(i - 1) - 1]
      BY <1>4, <3>1
    <3> HIDE DEF Fit, s, q
    <3> QED
      BY <2>2, <3>2, <3>3
  <2> QED
    BY <2>1, <2>2
<1> HIDE DEF s
<1> QED
  <2>1. NodesFrom(t, n, w, pos, s)
    BY <1>1, <1>3, <1>5, <1>6, <1>7 DEF NodesFrom
  <2> QED
    BY <2>1 DEF s

\* A table of divisions holds none but divisions into nodes that fit, and failed ones.
LEMMA DivisionFits ==
    ASSUME NEW n \in 1..MaxText, NEW t \in [1..n -> Chars], NEW w \in Windows, NEW f,
           \A pos \in 0..n : f[pos] = DivisionFrom(t, w, f, pos)
    PROVE  f[0] = TokensUnknown \/ NodesFrom(t, n, w, 0, f[0])
<1> DEFINE Good(pos) == f[pos] = TokensUnknown \/ NodesFrom(t, n, w, pos, f[pos])
           good == {k \in 0..n : \A pos \in 0..n : n - k <= pos => Good(pos)}
<1>1. n \in Nat
  BY SegmentsConstants
<1>2. Good(n)
  <2>1. f[n] = <<>>
    <3>1. f[n] = DivisionFrom(t, w, f, n)
      BY <1>1
    <3>2. Len(t) = n
      BY <1>1, AsList
    <3> QED
      BY <1>1, <3>1, <3>2 DEF DivisionFrom
  <2> QED
    BY <2>1, EmptySeq DEF NodesFrom
<1>3. 0 \in good
  <2> HIDE DEF Good
  <2> QED
    BY <1>1, <1>2
<1>4. ASSUME NEW k \in 1..n, k - 1 \in good  PROVE k \in good
  <2> DEFINE pos == n - k
             cut == CutAt(t, n, w, pos)
  <2>1. pos \in 0..(n - 1) /\ pos \in 0..n /\ pos # n
    BY <1>1
  <2>2. \A p \in 0..n : pos < p => Good(p)
    <3>1. \A p \in 0..n : n - k < p => n - (k - 1) <= p
      BY <1>1
    <3> HIDE DEF Good
    <3> QED
      BY <1>4, <3>1
  <2>3. cut \in 0..(n - pos) /\ (cut # 0 => ~Measure(Slice(t, pos, pos + cut), w).truncated)
    <3> HIDE DEF pos
    <3> QED
      BY <2>1, CutAtFits
  <2>4. f[pos] = IF ~Measure(RestOf(t, n, pos), w).truncated THEN <<n>>
                 ELSE IF cut = 0 \/ f[pos + cut] = TokensUnknown THEN TokensUnknown
                 ELSE <<pos + cut>> \o f[pos + cut]
    <3>1. f[pos] = DivisionFrom(t, w, f, pos)
      BY <2>1
    <3> HIDE DEF pos
    <3> QED
      BY <2>1, <3>1, DivisionCases
  <2>5. Good(pos)
    <3>1. CASE ~Measure(RestOf(t, n, pos), w).truncated
      <4>1. f[pos] = <<n>> /\ pos < n
        BY <1>1, <2>1, <2>4, <3>1
      <4>2. /\ <<n>> \in Seq(Int) /\ <<n>> # <<>> /\ Len(<<n>>) = 1 /\ <<n>>[1] = n
            /\ \A i \in 1..1 : i = 1
        BY <1>1
      <4> HIDE DEF pos
      <4> QED
        BY <2>1, <3>1, <4>1, <4>2 DEF NodesFrom, RestOf
    <3>2. CASE Measure(RestOf(t, n, pos), w).truncated /\ cut # 0 /\ f[pos + cut] # TokensUnknown
      <4>1. cut \in 1..(n - pos) /\ pos + cut \in 0..n /\ pos < pos + cut
        <5> HIDE DEF cut
        <5> QED
          BY <1>1, <2>1, <2>3, <3>2
      <4>2. NodesFrom(t, n, w, pos + cut, f[pos + cut])
        BY <2>2, <3>2, <4>1
      <4>3. f[pos] = <<pos + cut>> \o f[pos + cut]
        BY <2>4, <3>2
      <4> HIDE DEF pos, cut
      <4>4. NodesFrom(t, n, w, pos, <<pos + cut>> \o f[pos + cut])
        BY <1>1, <2>1, <2>3, <3>2, <4>1, <4>2, NodeBefore
      <4> QED
        BY <4>3, <4>4
    <3> HIDE DEF pos, cut
    <3> QED
      BY <2>4, <3>1, <3>2
  <2>6. \A p \in 0..n : n - k <= p => p = pos \/ pos < p
    BY <1>1
  <2> HIDE DEF Good
  <2>7. \A p \in 0..n : n - k <= p => Good(p)
    BY <2>2, <2>5, <2>6
  <2> QED
    BY <1>1, <2>7
<1>5. n \in good
  <2>1. \A k \in 0..n : k \in good
    <3> HIDE DEF good
    <3> QED
      BY <1>1, <1>3, <1>4, StepByStep
  <2> QED
    BY <1>1, <2>1
<1>6. 0 \in 0..n /\ n - n <= 0
  BY <1>1
<1>7. Good(0)
  <2> HIDE DEF Good
  <2> QED
    BY <1>5, <1>6
<1> QED
  BY <1>7

\* divide ends, in nodes that lie one after the other over the whole text, each of them
\* measured to fit the window, or with the error that the tokens are unknown.
LEMMA DivideFits ==
    ASSUME NEW n \in 1..MaxText, NEW t \in [1..n -> Chars], NEW w \in Windows
    PROVE  Divide(t, w) = TokensUnknown \/ NodesFrom(t, n, w, 0, Divide(t, w))
<1> DEFINE F(g) == [pos \in 0..Len(t) |-> DivisionFrom(t, w, g, pos)]
           from == CHOOSE g : g = F(g)
<1>1. n \in Nat /\ Len(t) = n
  BY SegmentsConstants, AsList
<1>2. PICK f : f = [pos \in 0..n |-> DivisionFrom(t, w, f, pos)]
  BY DivisionsExist
<1>3. f = F(f)
  BY <1>1, <1>2
<1>4. from = F(from)
  <2> HIDE DEF F
  <2> QED
    BY <1>3
<1>5. Divide(t, w) = from[0]
  BY DEF Divide, DivisionFrom
<1> HIDE DEF from
<1>6. \A pos \in 0..n : from[pos] = DivisionFrom(t, w, from, pos)
  BY <1>1, <1>4
<1> HIDE DEF F
<1> QED
  BY <1>5, <1>6, DivisionFits

\* The inductive invariant: the text, its window, and its nodes once they are built.
NodesInv ==
    /\ DOMAIN piece = DOMAIN NoPiece
    /\ piece.pc # "none" =>
          \E n \in 1..MaxText :
             /\ piece.text \in [1..n -> Chars] /\ piece.window \in Windows
             /\ piece.pc \in {"blocks", "done"} =>
                   \/ piece.nodes = TokensUnknown
                   \/ NodesFrom(piece.text, n, piece.window, 0, piece.nodes)

LEMMA NodesInvInit == SegmentsInit => NodesInv
BY DEF SegmentsInit, NodesInv, NoPiece

LEMMA NodesInvStep == NodesInv /\ [SegmentsNext]_segmentsVars => NodesInv'
<1> SUFFICES ASSUME NodesInv, [SegmentsNext]_segmentsVars  PROVE NodesInv'
  OBVIOUS
<1>1. DOMAIN piece = {"pc", "text", "size", "window", "nodes", "spans"}
  BY DEF NodesInv, NoPiece
<1>2. CASE PickText
  <2>1. PICK n \in 1..MaxText, size \in MaxSizes, w \in Windows : \E text \in [1..n -> Chars] :
           piece' = [NoPiece EXCEPT !.pc = "nodes", !.text = text, !.size = size, !.window = w]
    BY <1>2 DEF PickText
  <2>2. PICK text \in [1..n -> Chars] :
           piece' = [NoPiece EXCEPT !.pc = "nodes", !.text = text, !.size = size, !.window = w]
    BY <2>1
  <2>3. DOMAIN piece' = DOMAIN NoPiece /\ piece'.pc = "nodes" /\ piece'.text = text /\ piece'.window = w
    BY <2>2 DEF NoPiece
  <2> QED
    BY <2>3 DEF NodesInv
<1>3. CASE BuildNodes
  <2>1. piece.pc = "nodes" /\ piece' = [piece EXCEPT !.nodes = Divide(piece.text, piece.window), !.pc = "blocks"]
    BY <1>3 DEF BuildNodes
  <2>2. PICK n \in 1..MaxText : piece.text \in [1..n -> Chars] /\ piece.window \in Windows
    BY <2>1 DEF NodesInv
  <2>3. /\ DOMAIN piece' = DOMAIN piece /\ piece'.text = piece.text /\ piece'.window = piece.window
        /\ piece'.nodes = Divide(piece.text, piece.window)
    BY <1>1, <2>1
  <2>4. piece'.nodes = TokensUnknown \/ NodesFrom(piece'.text, n, piece'.window, 0, piece'.nodes)
    BY <2>2, <2>3, DivideFits
  <2> QED
    BY <2>2, <2>3, <2>4 DEF NodesInv
<1>4. CASE BuildBlocks
  <2>1. /\ piece.pc = "blocks" /\ DOMAIN piece' = DOMAIN piece
        /\ piece'.text = piece.text /\ piece'.window = piece.window /\ piece'.nodes = piece.nodes
    BY <1>1, <1>4 DEF BuildBlocks
  <2> QED
    BY <2>1 DEF NodesInv
<1>5. CASE UNCHANGED segmentsVars
  BY <1>5 DEF NodesInv, segmentsVars
<1> QED
  BY <1>2, <1>3, <1>4, <1>5 DEF SegmentsNext

\* Whatever the tokenizer reports of a text and of its pieces, the nodes of a text tile it and
\* each of them, as it is sent to the model, was measured to fit the window: none is cut off
\* unseen (divide, choose_cut).
THEOREM NodesStayWhole == SegmentsSpec => []NodesFit
<1>1. NodesInv => NodesFit
  <2> SUFFICES ASSUME NodesInv, piece.pc \in {"blocks", "done"}, piece.nodes # TokensUnknown
               PROVE  /\ piece.nodes # <<>> /\ Last(piece.nodes) = Len(piece.text)
                      /\ \A i \in DOMAIN piece.nodes :
                            LET start == IF i = 1 THEN 0 ELSE piece.nodes[i - 1]
                            IN  /\ start < piece.nodes[i]
                                /\ ~Measure(Slice(piece.text, start, piece.nodes[i]), piece.window).truncated
    BY DEF NodesFit
  <2>1. PICK n \in 1..MaxText : /\ piece.text \in [1..n -> Chars]
                                /\ NodesFrom(piece.text, n, piece.window, 0, piece.nodes)
    BY DEF NodesInv
  <2>2. n \in Nat /\ n # 0 /\ Len(piece.text) = n
    BY <2>1, SegmentsConstants, AsList
  <2>3. piece.nodes \in Seq(Int) /\ piece.nodes # <<>> /\ piece.nodes[Len(piece.nodes)] = n
    BY <2>1, <2>2 DEF NodesFrom
  <2>4. DOMAIN piece.nodes = 1..Len(piece.nodes)
    BY <2>3, LenProperties
  <2> QED
    BY <2>1, <2>2, <2>3, <2>4 DEF NodesFrom, Last
<1> QED
  BY <1>1, NodesInvInit, NodesInvStep, PTL DEF SegmentsSpec
==============================================================================
