-------------------------- MODULE TaskQueueProofs --------------------------
(***************************************************************************)
(* What TaskQueue guarantees for every number of tasks, agents, sessions,  *)
(* retries, restarts, faults and removals.                                 *)
(***************************************************************************)
EXTENDS TaskQueue, FiniteSetTheorems, WellFoundedInduction, TLAPS

----------------------------------------------------------------------------
(* The inductive invariants                                                *)

\* Where the worker names the task it fetched by its row id, and where an attempt of
\* it has failed and is not counted yet.
Holding == {"gate", "run", "finish", "drop", "fail", "discard", "requeue", "retry"}
Failing == {"fail", "discard", "requeue", "retry"}

Mishaps == used.restarts + used.faults

\* The tasks enqueued are numbered in their order; a task not enqueued has not failed;
\* a row has a number of its own, and its kind.
Born(u) == fate[u] # "unborn"

Numbering ==
    /\ \E n \in 0..MaxTasks : \A u \in Uids : Born(u) <=> u <= n
    /\ \A u \in Uids : ~Born(u) => fails[u] = 0 /\ u \notin builds
    /\ \A i \in Rows : Born(queue[i].uid) /\ (queue[i].uid \in builds <=> queue[i].kind \in Derived)
    /\ \A i, j \in Rows : queue[i].uid = queue[j].uid => i = j

\* What the worker holds is a task, with an id; the row of that id is the row it read,
\* or is gone, or, after a removal astray, is a task just enqueued.
Held ==
    /\ worker.pc \in Holding \cup {"reattribute"} => worker.id \in Ids
    /\ worker.pc \in Holding =>
        /\ worker.task \in Task
        /\ Born(worker.task.uid) /\ (worker.task.uid \in builds <=> worker.task.kind \in Derived)
        /\ queue[worker.id] # NoTask =>
              queue[worker.id] = worker.task \/ (used.astray /\ queue[worker.id].retries = 0)
        /\ \A i \in Rows : queue[i].uid = worker.task.uid => i = worker.id
        /\ queue[worker.id] = NoTask /\ ~used.astray => worker.id <= seq
        /\ worker.pc = "requeue" => worker.task.kind \in Derived

\* An attempt that failed and is not counted yet.
Uncounted(u) == IF worker.pc \in Failing /\ worker.task.uid = u THEN 1 ELSE 0

\* The attempts of a task that failed are those its retry count says and the one being
\* counted, but for one per restart or fault.
Attempts ==
    /\ \A u \in Uids : fails[u] <= MaxRetries + Mishaps
    /\ \A i \in Rows : queue[i].retries < MaxRetries
                       /\ fails[queue[i].uid] <= queue[i].retries + Mishaps + Uncounted(queue[i].uid)
    /\ worker.pc \in Holding =>
          /\ worker.task.retries < MaxRetries
          /\ fails[worker.task.uid] <= worker.task.retries + Mishaps + Uncounted(worker.task.uid)
    /\ worker.pc \in {"requeue", "retry"} => worker.task.retries + 1 < MaxRetries

\* ... and are never fewer: what is discarded has failed often enough.
Counted ==
    ~used.astray =>
        /\ \A i \in Rows : queue[i].retries <= fails[queue[i].uid]
        /\ worker.pc \in Holding =>
              worker.task.retries + Uncounted(worker.task.uid) <= fails[worker.task.uid]
        /\ worker.pc = "discard" => worker.task.retries + 1 >= MaxRetries
        /\ \A u \in Uids : fate[u] # "lost" /\ (fate[u] = "discarded" => fails[u] >= MaxRetries)

\* Between the transaction of a requeue and the move of the attribution.
Moving == worker.pc = "reattribute" /\ worker.to # 0

\* An id is attributed only while it names a row or can name none again, so an enqueue
\* finds no attribution under its id; what is attributed to a write is its own session.
NoStaleEntry ==
    /\ \A i \in Ids : sessions[i] # TransportKey => i <= seq \/ queue[i] # NoTask \/ (Moving /\ i = worker.id)
    /\ Moving => /\ worker.to \in Ids /\ worker.id < worker.to
                 /\ worker.to <= seq \/ queue[worker.to] # NoTask
                 /\ queue[worker.to] # NoTask => queue[worker.to].kind \in Derived
    /\ \A r \in attributing : r.id <= seq

OwnSession(i, t) ==
    /\ i <= seq
    /\ sessions[i] \in {t.key, TransportKey}
    /\ \A r \in attributing : r.id = i => r.key = t.key

RowsOwned == \A i \in Rows : queue[i].kind \notin Derived => OwnSession(i, queue[i])

GateOwned == worker.pc = "gate" /\ worker.task.kind \notin Derived => OwnSession(worker.id, worker.task)

DropOwned == worker.pc = "drop" /\ worker.task.kind # "poison" => worker.key \in {worker.task.key, TransportKey}

Attribution == ~used.astray => NoStaleEntry /\ RowsOwned /\ GateOwned /\ DropOwned

\* An attempt of a build that has failed and whose requeue or discard is still to come.
Pending(u) == IF worker.pc \in {"fail", "discard", "requeue"} /\ worker.task.uid = u THEN 1 ELSE 0

\* A write before its first attempt: a build in front of it, or in the worker's hands,
\* has not failed since it was enqueued, but for the failure being handled.
Waiting(i) == i \in Rows /\ queue[i].kind \notin Derived /\ fails[queue[i].uid] = 0

Passing ==
    ~used.astray =>
        \A i \in Ids : Waiting(i) =>
            /\ \A u \in builds : fails[u] <= queue[i].since[u] + 1 + Mishaps
            /\ \A j \in Rows : j < i /\ queue[j].kind \in Derived =>
                  fails[queue[j].uid] <= queue[i].since[queue[j].uid] + Mishaps + Pending(queue[j].uid)
            /\ worker.pc \in Holding /\ worker.task.kind \in Derived =>
                  fails[worker.task.uid] <= queue[i].since[worker.task.uid] + Mishaps + Pending(worker.task.uid)

----------------------------------------------------------------------------
(* Lowest and highest                                                      *)

\* A set of bounded numbers that is not empty has a least member, the one Min takes: the
\* sets of what is below a member are ordered by inclusion, and one of them is smallest.
LEMMA LeastOf ==
    ASSUME NEW n \in Nat, NEW S, S \subseteq 0..n, S # {}
    PROVE  Min(S) \in S /\ \A y \in S : Min(S) <= y
<1> DEFINE below(x) == {y \in S : y < x}
           family   == {below(x) : x \in S}
           R        == StrictSubsetOrdering(S)
<1>1. \A y \in S : y \in Nat
  OBVIOUS
<1>2. IsFiniteSet(S)
  <2>1. IsFiniteSet(0..n)
    BY FS_Interval
  <2> QED
    BY <2>1, FS_Subset
<1>3. family \subseteq FiniteSubsetsOf(S) /\ family # {}
  <2>1. \A x \in S : below(x) \in SUBSET S
    OBVIOUS
  <2>2. \A x \in S : IsFiniteSet(below(x))
    BY <1>2, <2>1, FS_Subset
  <2> QED
    BY <2>1, <2>2 DEF FiniteSubsetsOf
<1>4. PICK F \in family : \A G \in family : <<G, F>> \notin R
  <2>1. IsWellFoundedOn(R, FiniteSubsetsOf(S))
    BY FS_StrictSubsetOrderingWellFounded
  <2> HIDE DEF R, family
  <2> QED
    BY <1>3, <2>1, WFMin
<1>5. PICK x \in S : F = below(x)
  OBVIOUS
<1>6. ASSUME NEW y \in S, y < x
      PROVE  FALSE
  <2>1. y \in Nat /\ x \in Nat /\ ~(y < y) /\ \A z \in S : z < y => z < x
    BY <1>1, <1>6
  <2>2. below(y) \subseteq below(x) /\ y \in below(x) /\ y \notin below(y)
    BY <2>1, <1>6, Zenon
  <2>3. <<below(y), below(x)>> \in R
    BY <2>2 DEF StrictSubsetOrdering
  <2> QED
    BY <1>4, <1>5, <2>3
<1>7. \A y \in S : x <= y
  BY <1>1, <1>6, SMT
<1> QED
  BY <1>7 DEF Min

\* ... and a greatest, the one Max takes: the least distance from the bound.
LEMMA GreatestOf ==
    ASSUME NEW n \in Nat, NEW S, S \subseteq 0..n, S # {}
    PROVE  Max(S) \in S /\ \A y \in S : y <= Max(S)
<1> DEFINE T == {z \in 0..n : \E y \in S : z + y = n}
<1>1. \A y \in S : y \in 0..n /\ \E z \in 0..n : z + y = n
  <2>1. \A y \in 0..n : n - y \in 0..n /\ (n - y) + y = n
    OBVIOUS
  <2> QED
    BY <2>1
<1>2. T \subseteq 0..n /\ T # {}
  BY <1>1
<1>3. Min(T) \in T /\ \A z \in T : Min(T) <= z
  <2> HIDE DEF T
  <2> QED
    BY <1>2, LeastOf
<1>4. PICK x \in S : Min(T) + x = n
  BY <1>3
<1>5. \A y \in S : y <= x
  BY <1>1, <1>3, <1>4
<1> QED
  BY <1>5 DEF Max

\* The top of the table is above every row, and the id of an enqueue above both the top
\* and sqlite_sequence.
LEMMA TopAbove ==
    ASSUME seq \in 0..MaxId
    PROVE  /\ Top \in 0..MaxId /\ \A i \in Rows : i <= Top
           /\ NextId \in Nat /\ seq < NextId /\ \A i \in Rows : i < NextId
<1>1. MaxId \in Nat
  BY QueueConstants
<1>2. Rows \subseteq 0..MaxId
  BY <1>1 DEF Rows, Ids
<1>3. Top \in 0..MaxId /\ \A i \in Rows : i <= Top
  <2>1. CASE Rows = {}
    BY <2>1, <1>1 DEF Top
  <2>2. CASE Rows # {}
    <3>1. Max(Rows) \in Rows /\ \A y \in Rows : y <= Max(Rows)
      BY <2>2, <1>1, <1>2, GreatestOf
    <3> QED
      BY <2>2, <3>1, <1>2 DEF Top
  <2> QED
    BY <2>1, <2>2
<1>4. Max({seq, Top}) \in {seq, Top} /\ \A y \in {seq, Top} : y <= Max({seq, Top})
  <2>1. {seq, Top} \subseteq 0..MaxId /\ {seq, Top} # {}
    BY <1>3
  <2> QED
    BY <1>1, <2>1, GreatestOf
<1> QED
  BY <1>1, <1>2, <1>3, <1>4 DEF NextId

\* The lowest row is a row.
LEMMA LowestRow ==
    ASSUME Rows # {}
    PROVE  Min(Rows) \in Rows /\ \A i \in Rows : Min(Rows) <= i
<1>1. MaxId \in Nat /\ Rows \subseteq 0..MaxId
  BY QueueConstants DEF Rows, Ids
<1> QED
  BY <1>1, LeastOf

\* As many tasks are enqueued as the last of them has for its number.
LEMMA EnqueuedCounts ==
    ASSUME NEW n \in 0..MaxTasks, \A u \in Uids : Born(u) <=> u <= n
    PROVE  Enqueued = n
<1>1. MaxTasks \in Nat
  BY QueueConstants
<1>2. {u \in Uids : fate[u] # "unborn"} = 1..n
  BY <1>1 DEF Born, Uids
<1>3. Cardinality(1..n) = n
  BY <1>1, FS_Interval
<1> QED
  BY <1>2, <1>3 DEF Enqueued

----------------------------------------------------------------------------
(* Types                                                                   *)

Sound == TypeOK /\ Numbering /\ Held /\ Attempts

\* A task with one more failed attempt is a task.
LEMMA Bumped ==
    ASSUME NEW t \in Task, t.retries < MaxRetries
    PROVE  /\ [t EXCEPT !.retries = t.retries + 1] \in Task
           /\ [t EXCEPT !.retries = t.retries + 1].retries = t.retries + 1
           /\ [t EXCEPT !.retries = t.retries + 1].uid = t.uid
           /\ [t EXCEPT !.retries = t.retries + 1].kind = t.kind
           /\ [t EXCEPT !.retries = t.retries + 1].key = t.key
           /\ [t EXCEPT !.retries = t.retries + 1].since = t.since
  BY QueueConstants DEF Task

\* What the attribution map becomes is one.
LEMMA MapsStayMaps ==
    ASSUME sessions \in [Ids -> AnyKey]
    PROVE  /\ \A ids : Forgotten(ids) \in [Ids -> AnyKey]
           /\ \A map \in [Ids -> AnyKey], i \in Ids, key \in AnyKey : Remembered(map, i, key) \in [Ids -> AnyKey]
<1>1. TransportKey \in AnyKey
  BY DEF AnyKey
<1>2. \A ids : Forgotten(ids) \in [Ids -> AnyKey]
  BY <1>1 DEF Forgotten
<1>3. \A map \in [Ids -> AnyKey], i \in Ids, key \in AnyKey : Remembered(map, i, key) \in [Ids -> AnyKey]
  BY <1>1 DEF Remembered
<1> QED
  BY <1>2, <1>3

\* A task is born with the next number and no failures.
LEMMA Newborn ==
    ASSUME TypeOK, Numbering, NEW kind \in Kinds, NEW agent \in Agents, NEW key \in AnyKey,
           Enqueue(kind, agent, key)
    PROVE  \E i \in Ids, u \in Uids, t \in Task :
              /\ i = NextId /\ seq < i /\ (\A j \in Rows : j < i) /\ i \notin Rows
              /\ ~Born(u) /\ u = Enqueued + 1
              /\ t.uid = u /\ t.kind = kind /\ t.retries = 0 /\ t.key = key
              /\ t.since = IF kind \in Derived THEN [v \in Uids |-> 0] ELSE fails
              /\ queue' = [queue EXCEPT ![i] = t] /\ seq' = i
              /\ fate' = [fate EXCEPT ![u] = "queued"]
              /\ attributing' = attributing \cup {[uid |-> u, id |-> i, key |-> key]}
              /\ builds' = IF kind \in Derived THEN builds \cup {u} ELSE builds
              /\ \A v \in Uids : Born(v)' <=> Born(v) \/ v = u
              /\ \E n \in 0..MaxTasks : \A v \in Uids : Born(v)' <=> v <= n
<1>1. NextId \in Nat /\ seq < NextId /\ \A i \in Rows : i < NextId
  BY TopAbove DEF TypeOK
<1>2. PICK n \in 0..MaxTasks : \A u \in Uids : Born(u) <=> u <= n
  BY DEF Numbering
<1>3. Enqueued = n
  BY <1>2, EnqueuedCounts
<1>4. n + 1 <= MaxTasks /\ NextId <= MaxId
  BY <1>3 DEF Enqueue
<1>5. n + 1 \in Uids /\ NextId \in Ids /\ NextId \notin Rows
  BY <1>1, <1>4, QueueConstants DEF Uids, Ids, TypeOK
<1> DEFINE t == [uid |-> n + 1, kind |-> kind, agent |-> agent, key |-> key, retries |-> 0,
                 since |-> IF kind \in Derived THEN [v \in Uids |-> 0] ELSE fails]
<1>6. t \in Task
  BY <1>5, QueueConstants DEF Task, TypeOK
<1>7. /\ queue' = [queue EXCEPT ![NextId] = t] /\ seq' = NextId
      /\ fate' = [fate EXCEPT ![n + 1] = "queued"]
      /\ attributing' = attributing \cup {[uid |-> n + 1, id |-> NextId, key |-> key]}
      /\ builds' = IF kind \in Derived THEN builds \cup {n + 1} ELSE builds
  BY <1>3 DEF Enqueue
<1>8. ~Born(n + 1)
  BY <1>2, <1>5
<1>9. \A v \in Uids : (Born(v)' <=> Born(v) \/ v = n + 1) /\ (Born(v)' <=> v <= n + 1)
  BY <1>2, <1>5, <1>7 DEF Born, TypeOK, Uids
<1>10. n + 1 \in 0..MaxTasks
  BY <1>5 DEF Uids
<1>11. t.uid = n + 1 /\ t.kind = kind /\ t.retries = 0 /\ t.key = key
       /\ t.since = IF kind \in Derived THEN [v \in Uids |-> 0] ELSE fails
  OBVIOUS
<1> HIDE DEF t
<1> QED
  BY <1>1, <1>3, <1>5, <1>6, <1>7, <1>8, <1>9, <1>10, <1>11

\* An empty queue has its type.
LEMMA TypeInit == Init => TypeOK
  BY QueueConstants DEF Init, TypeOK, NoWork, Places, Fates, AnyKey

\* Every step keeps the types: what Enqueue numbers stays under its bound, what Fetch
\* takes is a row, and what Retry and Requeue bump is below the retry limit.
LEMMA TypeStep == Sound /\ [Next]_vars => TypeOK'
<1> SUFFICES ASSUME Sound, [Next]_vars PROVE TypeOK'
  OBVIOUS
<1> USE DEF Sound
<1>a. TransportKey \in AnyKey /\ NoWork \in [pc : Places, id : 0..MaxId, task : Task \cup {NoTask}, key : AnyKey,
                   to : 0..MaxId, held : SUBSET Ids]
  BY QueueConstants DEF NoWork, Places, AnyKey
<1>1. CASE UNCHANGED vars
  BY <1>1 DEF TypeOK, vars
<1>2. ASSUME NEW kind \in Kinds, NEW agent \in Agents, NEW key \in AnyKey, Enqueue(kind, agent, key)
      PROVE  TypeOK'
  <2>1. PICK i \in Ids, u \in Uids, t \in Task :
              /\ queue' = [queue EXCEPT ![i] = t] /\ seq' = i
              /\ fate' = [fate EXCEPT ![u] = "queued"]
              /\ attributing' = attributing \cup {[uid |-> u, id |-> i, key |-> key]}
              /\ builds' = IF kind \in Derived THEN builds \cup {u} ELSE builds
    BY <1>2, Newborn
  <2>2. queue' \in [Ids -> Task \cup {NoTask}] /\ seq' \in 0..MaxId
    BY <2>1, QueueConstants DEF TypeOK, Ids
  <2>3. attributing' \subseteq [uid : Uids, id : Ids, key : AnyKey]
    BY <2>1 DEF TypeOK
  <2>4. fate' \in [Uids -> Fates] /\ builds' \subseteq Uids
    BY <2>1 DEF TypeOK, Fates
  <2> QED
    BY <1>2, <2>2, <2>3, <2>4 DEF TypeOK, Enqueue
<1>3. ASSUME NEW r \in attributing, Remember(r)
      PROVE  TypeOK'
  <2>1. sessions' \in [Ids -> AnyKey]
    BY <1>3, MapsStayMaps DEF Remember, TypeOK
  <2> QED
    BY <1>3, <2>1 DEF TypeOK, Remember
<1>4. ASSUME NEW key \in AnyKey, Pause(key) \/ Unpause(key)
      PROVE  TypeOK'
  BY <1>4 DEF TypeOK, Pause, Unpause
<1>5. ASSUME NEW ids, NEW how \in Fates, Remove(ids, how), profiles' \in [Agents -> 0..MaxTasks]
      PROVE  TypeOK'
  <2>1. queue' \in [Ids -> Task \cup {NoTask}]
    BY <1>5 DEF Remove, TypeOK
  <2>2. fate' \in [Uids -> Fates]
    <3> DEFINE hit(u) == \E i \in ids : queue[i].uid = u
    <3>1. fate' = [u \in Uids |-> IF hit(u) THEN how ELSE fate[u]]
      BY <1>5 DEF Remove
    <3> HIDE DEF hit
    <3> QED
      BY <3>1 DEF TypeOK
  <2>3. used' \in [restarts : 0..MaxRestarts, faults : 0..MaxFaults, removals : 0..MaxRemovals, astray : BOOLEAN]
    <3>1. used.removals + 1 \in 0..MaxRemovals
      BY <1>5, QueueConstants DEF Remove, TypeOK
    <3>2. Astray(ids) \in BOOLEAN
      BY Zenon DEF Astray
    <3>3. used' = [used EXCEPT !.removals = used.removals + 1, !.astray = Astray(ids)]
      BY <1>5 DEF Remove
    <3> QED
      BY <3>1, <3>2, <3>3 DEF TypeOK
  <2> QED
    BY <1>5, <2>1, <2>2, <2>3 DEF TypeOK, Remove
<1>6. ASSUME NEW agent \in Agents, DeleteAgentRows(agent)
      PROVE  TypeOK'
  <2>1. Remove({i \in Rows : queue[i].agent = agent}, "wiped") /\ profiles' = [profiles EXCEPT ![agent] = 0]
    BY <1>6 DEF DeleteAgentRows
  <2>2. profiles' \in [Agents -> 0..MaxTasks]
    BY <2>1, QueueConstants DEF TypeOK
  <2>3. "wiped" \in Fates
    BY DEF Fates
  <2> QED
    BY <1>5, <2>1, <2>2, <2>3
<1>7. ASSUME NEW agent \in Agents, NEW u \in Uids, ClearStale(agent, u)
      PROVE  TypeOK'
  <2>1. Remove({i \in Rows : queue[i].agent = agent /\ queue[i].uid <= u}, "removed") /\ profiles' = profiles
    BY <1>7 DEF ClearStale
  <2>2. profiles' \in [Agents -> 0..MaxTasks]
    BY <2>1 DEF TypeOK
  <2>3. "removed" \in Fates
    BY DEF Fates
  <2> QED
    BY <1>5, <2>1, <2>2, <2>3
<1>8. CASE Wake \/ OnFailure \/ TakeHeld \/ SelectLive
  <2>1. CASE Wake \/ OnFailure
    BY <2>1 DEF TypeOK, Wake, OnFailure, Go, Places
  <2>2. CASE TakeHeld
    BY <2>2 DEF TypeOK, TakeHeld, Places, Attributed
  <2>3. CASE SelectLive
    BY <2>3 DEF TypeOK, SelectLive, Places
  <2> QED
    BY <1>8, <2>1, <2>2, <2>3
<1>9. CASE Fetch
  <2>1. CASE Rows = {}
    BY <1>9, <2>1 DEF TypeOK, Fetch, Go, Places
  <2>2. CASE Rows # {}
    <3>1. Min(Rows) \in Ids
      BY <2>2, LowestRow DEF Rows
    <3>2. Min(Rows) \in 0..MaxId
      BY <3>1, QueueConstants DEF Ids
    <3>3. queue[Min(Rows)] \in Task \cup {NoTask}
      BY <3>1 DEF TypeOK
    <3> DEFINE i == Min(Rows)
    <3>4. worker' = [worker EXCEPT !.pc = IF queue[i].kind = "poison" THEN "drop" ELSE "gate", !.id = i, !.task = queue[i]]
      BY <1>9, <2>2 DEF Fetch
    <3> HIDE DEF i
    <3>5. worker' \in [pc : Places, id : 0..MaxId, task : Task \cup {NoTask}, key : AnyKey,
                   to : 0..MaxId, held : SUBSET Ids]
      BY <3>2, <3>3, <3>4 DEF TypeOK, Places, i
    <3> QED
      BY <1>9, <3>5 DEF TypeOK, Fetch
  <2> QED
    BY <2>1, <2>2
<1>10. CASE Gate
  <2>1. sessions[worker.id] \in AnyKey
    BY <1>10 DEF TypeOK, Held, Holding, Gate, At
  <2> QED
    BY <1>10, <2>1 DEF TypeOK, Gate, Places
<1>11. CASE HandlerReturns
  <2>1. worker.task \in Task
    BY <1>11 DEF HandlerReturns, At, Held, Holding
  <2>2. worker.task.uid \in 0..MaxTasks
    BY <2>1, QueueConstants DEF Task, Uids
  <2> QED
    BY <1>11, <2>2 DEF TypeOK, HandlerReturns, Go, Places
<1>12. CASE HandlerRaises
  <2>1. worker.task.uid \in Uids
    BY <1>12 DEF HandlerRaises, At, Held, Holding, Task
  <2> QED
    BY <1>12, <2>1 DEF TypeOK, HandlerRaises, Go, Places, Failed
<1>13. ASSUME NEW how \in Fates, worker.pc \in Holding, DeleteTask(how)
       PROVE  TypeOK'
  <2>1. sessions' \in [Ids -> AnyKey]
    BY <1>13, MapsStayMaps DEF DeleteTask, TypeOK
  <2>2. queue' \in [Ids -> Task \cup {NoTask}]
    BY <1>13 DEF DeleteTask, TypeOK
  <2>3. fate' \in [Uids -> Fates]
    BY <1>13 DEF DeleteTask, TypeOK, Fates
  <2>4. worker' \in [pc : Places, id : 0..MaxId, task : Task \cup {NoTask}, key : AnyKey,
                   to : 0..MaxId, held : SUBSET Ids]
    BY <1>13 DEF DeleteTask, TypeOK, Go, Places
  <2> QED
    BY <1>13, <2>1, <2>2, <2>3, <2>4 DEF TypeOK, DeleteTask
<1>14. CASE Finish \/ Drop \/ Discard
  BY <1>13, <1>14 DEF Finish, Drop, Discard, Holding, Fates, At
<1>15. CASE FinishRaises
  <2>1. worker.task.uid \in Uids
    BY <1>15 DEF FinishRaises, At, Held, Holding, Task
  <2> QED
    BY <1>15, <2>1, QueueConstants DEF TypeOK, FinishRaises, Go, Places, Failed
<1>16. CASE Retry
  <2>1. queue' \in [Ids -> Task \cup {NoTask}]
    <3>1. CASE queue[worker.id] = NoTask
      BY <1>16, <3>1 DEF Retry, TypeOK
    <3>2. CASE queue[worker.id] # NoTask
      <4>1. worker.id \in Rows
        BY <1>16, <3>2 DEF Retry, At, Held, Holding, Rows
      <4>2. queue[worker.id] \in Task /\ queue[worker.id].retries < MaxRetries
        BY <4>1 DEF TypeOK, Attempts, Rows
      <4>3. [queue[worker.id] EXCEPT !.retries = queue[worker.id].retries + 1] \in Task
        BY <4>2, Bumped
      <4>4. queue' = [queue EXCEPT ![worker.id] = [queue[worker.id] EXCEPT !.retries = queue[worker.id].retries + 1]]
        BY <1>16, <3>2 DEF Retry
      <4> QED
        BY <4>3, <4>4 DEF TypeOK
    <3> QED
      BY <3>1, <3>2
  <2> QED
    BY <1>16, <2>1 DEF TypeOK, Retry, Go, Places
<1>17. CASE Requeue
  <2>1. Top + 1 \in 0..MaxId /\ 0 \in 0..MaxId
    BY <1>17, TopAbove, QueueConstants DEF Requeue, TypeOK
  <2>2. queue' \in [Ids -> Task \cup {NoTask}]
    <3>1. CASE queue[worker.id] = NoTask
      BY <1>17, <3>1 DEF Requeue, TypeOK
    <3>2. CASE queue[worker.id] # NoTask
      <4>1. worker.id \in Rows
        BY <1>17, <3>2 DEF Requeue, At, Held, Holding, Rows
      <4>2. queue[worker.id] \in Task /\ queue[worker.id].retries < MaxRetries
        BY <4>1 DEF TypeOK, Attempts, Rows
      <4> DEFINE t == [queue[worker.id] EXCEPT !.retries = queue[worker.id].retries + 1]
      <4>3. t \in Task
        BY <4>2, Bumped
      <4>4. queue' = [queue EXCEPT ![worker.id] = NoTask, ![Top + 1] = t]
        BY <1>17, <3>2 DEF Requeue
      <4> HIDE DEF t
      <4> QED
        BY <4>3, <4>4 DEF TypeOK
    <3> QED
      BY <3>1, <3>2
  <2>3. worker' \in [pc : Places, id : 0..MaxId, task : Task \cup {NoTask}, key : AnyKey,
                   to : 0..MaxId, held : SUBSET Ids]
    <3>1. PICK n \in 0..MaxId : worker' = [worker EXCEPT !.pc = "reattribute", !.to = n]
      BY <1>17, <2>1, QueueConstants DEF Requeue
    <3>2. "reattribute" \in Places
      BY DEF Places
    <3> QED
      BY <3>1, <3>2 DEF TypeOK
  <2> QED
    BY <1>17, <2>2, <2>3 DEF TypeOK, Requeue
<1>18. CASE Reattribute
  <2>1. sessions' \in [Ids -> AnyKey]
    <3>1. \A ids : Forgotten(ids) \in [Ids -> AnyKey]
      BY MapsStayMaps DEF TypeOK
    <3>2. CASE worker.to # 0 /\ sessions[worker.id] # TransportKey
      <4>1. worker.to \in Ids
        BY <3>2, QueueConstants DEF TypeOK, Ids
      <4>2. sessions[worker.id] \in AnyKey
        BY <1>18 DEF TypeOK, Held, Reattribute, At
      <4> QED
        BY <1>18, <3>1, <3>2, <4>1, <4>2, MapsStayMaps DEF Reattribute, TypeOK
    <3> QED
      BY <1>18, <3>1, <3>2 DEF Reattribute
  <2> QED
    BY <1>18, <2>1 DEF TypeOK, Reattribute, Go, Places
<1>19. CASE ForgetVanished
  <2>1. sessions' \in [Ids -> AnyKey]
    BY <1>19, MapsStayMaps DEF ForgetVanished, TypeOK
  <2> QED
    BY <1>19, <1>a, <2>1 DEF TypeOK, ForgetVanished
<1>20. CASE Abort
  BY <1>20, <1>a, QueueConstants DEF TypeOK, Abort, Places
<1>21. CASE Restart
  BY <1>21, <1>a, QueueConstants DEF TypeOK, Restart
<1> QED
  BY <1>1, <1>2, <1>3, <1>4, <1>6, <1>7, <1>8, <1>9, <1>10, <1>11, <1>12, <1>14, <1>15, <1>16, <1>17, <1>18,
     <1>19, <1>20, <1>21 DEF Next, WorkerStep

----------------------------------------------------------------------------
(* What the actions do to the rows                                         *)

\* A row is a task, and its number has been enqueued.
LEMMA RowsAreTasks ==
    ASSUME TypeOK
    PROVE  \A i \in Rows : i \in Ids /\ queue[i] \in Task /\ queue[i].uid \in Uids /\ queue[i].retries \in Nat
  BY QueueConstants DEF Rows, TypeOK, Task

\* Deleted rows leave the others as they were, and no task is as if it had never been.
LEMMA Removal ==
    ASSUME TypeOK, Numbering, NEW ids \in SUBSET Rows, NEW how, how # "unborn", Remove(ids, how)
    PROVE  /\ Rows' = Rows \ ids /\ \A i \in Rows' : queue'[i] = queue[i]
           /\ \A i \in Ids \ ids : queue'[i] = queue[i]
           /\ \A u \in Uids : Born(u)' <=> Born(u)
<1>1. queue' = [i \in Ids |-> IF i \in ids THEN NoTask ELSE queue[i]]
  BY DEF Remove
<1>2. Rows' = Rows \ ids /\ (\A i \in Rows' : queue'[i] = queue[i]) /\ \A i \in Ids \ ids : queue'[i] = queue[i]
  BY <1>1 DEF Rows
<1>3. ASSUME NEW u \in Uids
      PROVE  Born(u)' <=> Born(u)
  <2>1. CASE \E i \in ids : queue[i].uid = u
    <3>1. fate'[u] = how
      BY <2>1 DEF Remove
    <3>2. Born(u)
      BY <2>1 DEF Numbering
    <3> QED
      BY <3>1, <3>2 DEF Born
  <2>2. CASE ~\E i \in ids : queue[i].uid = u
    BY <2>2 DEF Remove, Born
  <2> QED
    BY <2>1, <2>2
<1> QED
  BY <1>2, <1>3

\* What the deletion of a task by its id does to rows, ids and the attribution map.
LEMMA Deletion ==
    ASSUME TypeOK, Numbering, Held, worker.pc \in Holding, NEW how, how # "unborn", DeleteTask(how)
    PROVE  /\ Rows' = Rows \ {worker.id} /\ \A i \in Rows' : queue'[i] = queue[i]
           /\ \A u \in Uids : Born(u)' <=> Born(u)
<1>1. worker.id \in Ids /\ queue' = [queue EXCEPT ![worker.id] = NoTask]
  BY DEF DeleteTask, Held
<1>2. Rows' = Rows \ {worker.id} /\ \A i \in Rows' : queue'[i] = queue[i]
  BY <1>1 DEF Rows, TypeOK
<1>3. ASSUME NEW u \in Uids
      PROVE  Born(u)' <=> Born(u)
  <2>1. CASE queue[worker.id] = NoTask
    BY <2>1 DEF DeleteTask, Born
  <2>2. CASE queue[worker.id] # NoTask
    <3>1. Born(queue[worker.id].uid)
      BY <1>1, <2>2 DEF Numbering, Rows
    <3> DEFINE new == IF queue[worker.id].uid = worker.task.uid THEN how ELSE "lost"
    <3>2. new # "unborn"
      OBVIOUS
    <3>3. fate' = [fate EXCEPT ![queue[worker.id].uid] = new]
      BY <2>2 DEF DeleteTask
    <3> HIDE DEF new
    <3> QED
      BY <3>1, <3>2, <3>3 DEF Born, TypeOK
  <2> QED
    BY <2>1, <2>2
<1> QED
  BY <1>2, <1>3

\* t is queue[worker.id] with the attempt counted.
Recounted(t) ==
    /\ t \in Task /\ t.retries = queue[worker.id].retries + 1 /\ t.uid = queue[worker.id].uid
    /\ t.kind = queue[worker.id].kind /\ t.key = queue[worker.id].key /\ t.since = queue[worker.id].since

\* What _increment_retry does: one row counts one attempt more.
LEMMA RetryCounts ==
    ASSUME TypeOK, Held, Attempts, Retry
    PROVE  \/ worker.id \notin Rows /\ queue' = queue
           \/ worker.id \in Rows /\ Rows' = Rows
              /\ \E t : queue' = [queue EXCEPT ![worker.id] = t] /\ Recounted(t)
<1>1. worker.id \in Ids
  BY DEF Retry, At, Held, Holding
<1>2. CASE queue[worker.id] = NoTask
  BY <1>2 DEF Retry, Rows
<1>3. CASE queue[worker.id] # NoTask
  <2>1. worker.id \in Rows
    BY <1>1, <1>3 DEF Rows
  <2>2. queue[worker.id] \in Task /\ queue[worker.id].retries < MaxRetries
    BY <2>1, RowsAreTasks DEF Attempts
  <2> DEFINE t == [queue[worker.id] EXCEPT !.retries = queue[worker.id].retries + 1]
  <2>3. queue' = [queue EXCEPT ![worker.id] = t]
    BY <1>3 DEF Retry
  <2>4. Recounted(t)
    BY <2>2, Bumped DEF Recounted
  <2>5. t \in Task
    BY <2>4 DEF Recounted
  <2> HIDE DEF t
  <2>6. t # NoTask
    BY <2>5, NoTaskAssumption
  <2>7. Rows' = Rows
    BY <2>1, <2>3, <2>6 DEF Rows, TypeOK
  <2> QED
    BY <2>1, <2>3, <2>4, <2>7
<1> QED
  BY <1>2, <1>3

\* What _requeue_at_tail does: one row moves behind the others under a new id.
LEMMA RequeueMoves ==
    ASSUME TypeOK, Held, Attempts, Requeue
    PROVE  \/ worker.id \notin Rows /\ queue' = queue /\ worker' = [worker EXCEPT !.pc = "reattribute", !.to = 0]
           \/ /\ worker.id \in Rows /\ Rows' = (Rows \ {worker.id}) \cup {Top + 1} /\ worker.id < Top + 1
              /\ Top + 1 \in Ids /\ Top + 1 \notin Rows
              /\ worker' = [worker EXCEPT !.pc = "reattribute", !.to = Top + 1]
              /\ \A i \in Rows \ {worker.id} : queue'[i] = queue[i] /\ i < Top + 1
              /\ queue'[worker.id] = NoTask
              /\ \A i \in Ids \ {worker.id, Top + 1} : queue'[i] = queue[i]
              /\ Recounted(queue'[Top + 1])
<1>1. worker.id \in Ids
  BY DEF Requeue, At, Held, Holding
<1>2. CASE queue[worker.id] = NoTask
  BY <1>2 DEF Requeue, Rows
<1>3. CASE queue[worker.id] # NoTask
  <2>1. worker.id \in Rows
    BY <1>1, <1>3 DEF Rows
  <2>2. queue[worker.id] \in Task /\ queue[worker.id].retries < MaxRetries
    BY <2>1, RowsAreTasks DEF Attempts
  <2>3. Top \in Nat /\ Top + 1 \in Ids /\ \A i \in Rows : i < Top + 1
    <3>1. seq \in 0..MaxId /\ MaxId \in Nat /\ Top < MaxId
      BY QueueConstants DEF TypeOK, Requeue
    <3>2. Top \in 0..MaxId /\ \A i \in Rows : i <= Top
      BY <3>1, TopAbove
    <3>3. \A i \in Rows : i \in Nat
      BY <3>1 DEF Rows, Ids
    <3> QED
      BY <3>1, <3>2, <3>3 DEF Ids
  <2>4. Top + 1 \notin Rows
    BY <2>3
  <2> DEFINE t == [queue[worker.id] EXCEPT !.retries = queue[worker.id].retries + 1]
  <2>5. queue' = [queue EXCEPT ![worker.id] = NoTask, ![Top + 1] = t]
    BY <1>3 DEF Requeue
  <2>6. Recounted(t)
    BY <2>2, Bumped DEF Recounted
  <2>7. t \in Task
    BY <2>6 DEF Recounted
  <2> HIDE DEF t
  <2>8. t # NoTask
    BY <2>7, NoTaskAssumption
  <2>9. worker.id # Top + 1
    BY <2>1, <2>4
  <2>10. queue'[Top + 1] = t /\ queue'[worker.id] = NoTask /\ \A i \in Ids \ {worker.id, Top + 1} : queue'[i] = queue[i]
    BY <1>1, <2>3, <2>5, <2>9 DEF TypeOK
  <2>11. Rows' = (Rows \ {worker.id}) \cup {Top + 1}
    BY <2>3, <2>8, <2>10 DEF Rows
  <2>12. \A i \in Rows \ {worker.id} : queue'[i] = queue[i] /\ i < Top + 1
    BY <2>3, <2>4, <2>10 DEF Rows
  <2> QED
    BY <1>3, <2>1, <2>3, <2>4, <2>6, <2>10, <2>11, <2>12 DEF Requeue
<1> QED
  BY <1>2, <1>3

----------------------------------------------------------------------------
(* Numbers                                                                 *)

\* The steps that leave the rows, the fates and the counts alone.
Rests == UNCHANGED <<queue, seq, fate, fails, builds>>

\* It holds of an empty queue.
LEMMA NumberingInit == Init => Numbering
  BY QueueConstants DEF Init, Numbering, Born, Rows, Uids

\* An enqueue takes the next number and no other step gives one out, and what fails is
\* what the worker holds.
LEMMA NumberingStep == Sound /\ [Next]_vars => Numbering'
<1> SUFFICES ASSUME Sound, [Next]_vars PROVE Numbering'
  OBVIOUS
<1> USE DEF Sound
<1>1. CASE Rests
  BY <1>1 DEF Rests, Numbering, Born, Rows
<1>2. ASSUME NEW kind \in Kinds, NEW agent \in Agents, NEW key \in AnyKey, Enqueue(kind, agent, key)
      PROVE  Numbering'
  <2>1. PICK i \in Ids, u \in Uids, t \in Task :
              /\ i \notin Rows /\ ~Born(u) /\ t.uid = u /\ t.kind = kind
              /\ queue' = [queue EXCEPT ![i] = t]
              /\ builds' = IF kind \in Derived THEN builds \cup {u} ELSE builds
              /\ \A v \in Uids : Born(v)' <=> Born(v) \/ v = u
              /\ \E n \in 0..MaxTasks : \A v \in Uids : Born(v)' <=> v <= n
    BY <1>2, Newborn
  <2>2. t # NoTask
    BY NoTaskAssumption
  <2>3. Rows' = Rows \cup {i} /\ queue'[i] = t /\ \A j \in Rows : queue'[j] = queue[j]
    BY <2>1, <2>2 DEF Rows, TypeOK
  <2>4. fails' = fails
    BY <1>2 DEF Enqueue
  <2>5. \A j \in Rows : queue[j].uid \in Uids /\ Born(queue[j].uid)
    BY RowsAreTasks DEF Numbering
  <2>6. u \notin builds
    BY <2>1 DEF Numbering
  <2>7. \A v \in Uids : ~Born(v)' => fails'[v] = 0 /\ v \notin builds'
    BY <2>1, <2>4 DEF Numbering
  <2>8. (\A j \in Rows : Born(queue[j].uid) /\ (queue[j].uid \in builds <=> queue[j].kind \in Derived))'
    BY <2>1, <2>3, <2>5, <2>6 DEF Numbering
  <2>9. (\A j, k \in Rows : queue[j].uid = queue[k].uid => j = k)'
    BY <2>1, <2>3, <2>5 DEF Numbering
  <2> QED
    BY <2>1, <2>7, <2>8, <2>9 DEF Numbering
<1>3. ASSUME NEW ids \in SUBSET Rows, NEW how, how # "unborn", Remove(ids, how)
      PROVE  Numbering'
  <2>1. Rows' \subseteq Rows /\ (\A i \in Rows' : queue'[i] = queue[i]) /\ \A u \in Uids : Born(u)' <=> Born(u)
    BY <1>3, Removal
  <2>2. fails' = fails /\ builds' = builds
    BY <1>3 DEF Remove
  <2> QED
    BY <2>1, <2>2, RowsAreTasks DEF Numbering
<1>4. ASSUME NEW how, how # "unborn", worker.pc \in Holding, DeleteTask(how)
      PROVE  Numbering'
  <2>1. Rows' \subseteq Rows /\ (\A i \in Rows' : queue'[i] = queue[i]) /\ \A u \in Uids : Born(u)' <=> Born(u)
    BY <1>4, Deletion
  <2>2. fails' = fails /\ builds' = builds
    BY <1>4 DEF DeleteTask
  <2> QED
    BY <2>1, <2>2, RowsAreTasks DEF Numbering
<1>5. CASE HandlerRaises \/ FinishRaises
  <2>1. Born(worker.task.uid) /\ fails' = Failed(worker.task.uid) /\ UNCHANGED <<queue, fate, builds>>
    BY <1>5 DEF HandlerRaises, FinishRaises, At, Held, Holding
  <2>2. \A u \in Uids : ~Born(u) => fails'[u] = fails[u]
    BY <2>1 DEF Failed, TypeOK
  <2> QED
    BY <2>1, <2>2 DEF Numbering, Born, Rows
<1>6. CASE Retry
  <2>1. UNCHANGED <<fate, fails, builds>>
    BY <1>6 DEF Retry
  <2>2. CASE queue' = queue
    BY <2>1, <2>2 DEF Numbering, Born, Rows
  <2>3. CASE worker.id \in Rows /\ Rows' = Rows /\ \E t : queue' = [queue EXCEPT ![worker.id] = t] /\ Recounted(t)
    <3>1. \A i \in Rows' : queue'[i].uid = queue[i].uid /\ queue'[i].kind = queue[i].kind
      BY <2>3 DEF Recounted, TypeOK, Rows
    <3> QED
      BY <2>1, <2>3, <3>1 DEF Numbering, Born
  <2> QED
    BY <1>6, <2>2, <2>3, RetryCounts
<1>7. CASE Requeue
  <2>1. UNCHANGED <<fate, fails, builds>>
    BY <1>7 DEF Requeue
  <2>2. CASE queue' = queue
    BY <2>1, <2>2 DEF Numbering, Born, Rows
  <2>3. CASE /\ worker.id \in Rows /\ Rows' = (Rows \ {worker.id}) \cup {Top + 1}
             /\ Top + 1 \notin Rows
             /\ \A i \in Rows \ {worker.id} : queue'[i] = queue[i]
             /\ Recounted(queue'[Top + 1])
    <3>1. queue'[Top + 1].uid = queue[worker.id].uid /\ queue'[Top + 1].kind = queue[worker.id].kind
      BY <2>3 DEF Recounted
    <3>2. (\A j \in Rows : Born(queue[j].uid) /\ (queue[j].uid \in builds <=> queue[j].kind \in Derived))'
      BY <2>1, <2>3, <3>1 DEF Numbering, Born
    <3>3. (\A j, k \in Rows : queue[j].uid = queue[k].uid => j = k)'
      BY <2>3, <3>1 DEF Numbering
    <3>4. (\A u \in Uids : ~Born(u) => fails[u] = 0 /\ u \notin builds)' /\ (\E n \in 0..MaxTasks : \A u \in Uids : Born(u) <=> u <= n)'
      BY <2>1 DEF Numbering, Born
    <3> QED
      BY <3>2, <3>3, <3>4 DEF Numbering
  <2> QED
    BY <1>7, <2>2, <2>3, RequeueMoves
<1>8. ASSUME NEW agent \in Agents, DeleteAgentRows(agent)
      PROVE  Numbering'
  BY <1>3, <1>8 DEF DeleteAgentRows
<1>9. ASSUME NEW agent \in Agents, NEW u \in Uids, ClearStale(agent, u)
      PROVE  Numbering'
  BY <1>3, <1>9 DEF ClearStale
<1>10. CASE Finish \/ Drop \/ Discard
  BY <1>4, <1>10 DEF Finish, Drop, Discard, Holding, At
<1>11. ASSUME NEW r \in attributing, Remember(r) PROVE Rests
  BY <1>11 DEF Remember, Rests
<1>12. ASSUME NEW key \in AnyKey, Pause(key) \/ Unpause(key) PROVE Rests
  BY <1>12 DEF Pause, Unpause, Rests
<1>13. CASE Wake \/ Fetch \/ Gate \/ HandlerReturns \/ OnFailure \/ Reattribute \/ TakeHeld \/ SelectLive
            \/ ForgetVanished \/ Abort \/ Restart
  <2>1. Rests
    BY <1>13 DEF Wake, Fetch, Gate, HandlerReturns, OnFailure, Reattribute, TakeHeld, SelectLive,
                 ForgetVanished, Abort, Restart, Rests
  <2> QED
    BY <1>1, <2>1
<1>14. CASE UNCHANGED vars
  BY <1>1, <1>14 DEF vars, Rests
<1> QED
  BY <1>1, <1>2, <1>5, <1>6, <1>7, <1>8, <1>9, <1>10, <1>11, <1>12, <1>13, <1>14 DEF Next, WorkerStep

----------------------------------------------------------------------------
(* What the worker holds                                                   *)

\* It holds before the worker has begun.
LEMMA HeldInit == Init => Held
  BY DEF Init, Held, Holding, NoWork

\* A row the worker holds is changed by nobody else but a removal, and its id is given
\* to another only where that removal was astray.
LEMMA HeldStep == Sound /\ [Next]_vars => Held'
<1> SUFFICES ASSUME Sound, [Next]_vars PROVE Held'
  OBVIOUS
<1> USE DEF Sound
<1>1. CASE UNCHANGED <<queue, seq, fate, builds, worker, used>>
  BY <1>1 DEF Held, Born, Rows
<1>2. ASSUME NEW kind \in Kinds, NEW agent \in Agents, NEW key \in AnyKey, Enqueue(kind, agent, key)
      PROVE  Held'
  <2>1. PICK i \in Ids, u \in Uids, t \in Task :
              /\ seq < i /\ i \notin Rows /\ ~Born(u) /\ t.uid = u /\ t.retries = 0
              /\ queue' = [queue EXCEPT ![i] = t] /\ seq' = i
              /\ builds' = IF kind \in Derived THEN builds \cup {u} ELSE builds
              /\ \A v \in Uids : Born(v)' <=> Born(v) \/ v = u
    BY <1>2, Newborn
  <2>2. worker' = worker /\ used' = used
    BY <1>2 DEF Enqueue
  <2>3. ASSUME worker.pc \in Holding
        PROVE  /\ Born(worker.task.uid)' /\ (worker.task.uid \in builds' <=> worker.task.kind \in Derived)
               /\ queue'[worker.id] # NoTask =>
                     queue'[worker.id] = worker.task \/ (used.astray /\ queue'[worker.id].retries = 0)
               /\ \A j \in Rows' : queue'[j].uid = worker.task.uid => j = worker.id
               /\ queue'[worker.id] = NoTask /\ ~used.astray => worker.id <= seq'
    <3>1. worker.task.uid \in Uids /\ worker.task.uid # u /\ worker.id \in Ids
      BY <2>1, <2>3 DEF Held, Task
    <3>2. Born(worker.task.uid)' /\ (worker.task.uid \in builds' <=> worker.task.kind \in Derived)
      <4>1. Born(worker.task.uid) /\ (worker.task.uid \in builds <=> worker.task.kind \in Derived)
        BY <2>3 DEF Held
      <4>2. fate'[worker.task.uid] # "unborn"
        BY <2>1, <3>1, <4>1 DEF Born
      <4> QED
        BY <2>1, <2>2, <3>1, <4>1, <4>2 DEF Born
    <3>3. queue'[i] = t /\ \A j \in Ids \ {i} : queue'[j] = queue[j]
      BY <2>1 DEF TypeOK
    <3>4. \A j \in Rows' : queue'[j].uid = worker.task.uid => j = worker.id
      BY <2>1, <2>3, <3>1, <3>3 DEF Rows, Held
    <3>5. CASE i = worker.id
      <4>1. used.astray
        BY <2>1, <2>3, <3>5 DEF Held, Rows, TypeOK, Ids
      <4> QED
        BY <2>1, <3>2, <3>3, <3>4, <3>5, <4>1
    <3>6. CASE i # worker.id
      <4>1. queue'[worker.id] = queue[worker.id]
        BY <3>1, <3>3, <3>6
      <4>2. seq <= seq' /\ seq \in Nat /\ seq' \in Nat /\ worker.id \in Nat
        BY <2>1, <3>1 DEF TypeOK, Ids
      <4> QED
        BY <2>3, <3>2, <3>4, <4>1, <4>2 DEF Held
    <3> QED
      BY <3>5, <3>6
  <2>4. worker.pc \in Holding => Born(worker.task.uid)'
    BY <2>3
  <2> QED
    BY <2>2, <2>3, <2>4 DEF Held, Born
<1>3. ASSUME NEW ids \in SUBSET Rows, NEW how, how # "unborn", Remove(ids, how)
      PROVE  Held'
  <2>1. /\ Rows' = Rows \ ids /\ (\A i \in Rows' : queue'[i] = queue[i]) /\ (\A i \in Ids \ ids : queue'[i] = queue[i])
        /\ \A u \in Uids : Born(u)' <=> Born(u)
    BY <1>3, Removal
  <2>2. UNCHANGED <<seq, worker, builds>> /\ used' = [used EXCEPT !.removals = used.removals + 1, !.astray = Astray(ids)]
    BY <1>3 DEF Remove
  <2>3. used'.astray = Astray(ids)
    BY <2>2 DEF TypeOK
  <2>4. (used.astray => used'.astray) /\ (~used'.astray => \A i \in ids : ~(i > seq))
    BY <2>3, Zenon DEF Astray
  <2>5. ASSUME worker.pc \in Holding
        PROVE  /\ worker.task.uid \in Uids /\ worker.id \in Ids /\ (fate'[worker.task.uid] # "unborn")
               /\ queue'[worker.id] # NoTask =>
                     queue'[worker.id] = worker.task \/ (used'.astray /\ queue'[worker.id].retries = 0)
               /\ \A j \in Rows' : queue'[j].uid = worker.task.uid => j = worker.id
               /\ queue'[worker.id] = NoTask /\ ~used'.astray => worker.id <= seq
    <3>1. worker.task.uid \in Uids /\ worker.id \in Ids
      BY <2>5 DEF Held, Task
    <3>2. fate'[worker.task.uid] # "unborn"
      BY <2>1, <2>5, <3>1 DEF Held, Born
    <3>3. \A j \in Rows' : queue'[j].uid = worker.task.uid => j = worker.id
      BY <2>1, <2>5 DEF Held
    <3>4. CASE worker.id \in ids
      <4>1. queue'[worker.id] = NoTask
        BY <2>1, <3>1, <3>4 DEF Rows
      <4>2. ~used'.astray => worker.id <= seq
        BY <2>4, <3>1, <3>4 DEF TypeOK, Ids
      <4> QED
        BY <3>1, <3>2, <3>3, <4>1, <4>2
    <3>5. CASE worker.id \notin ids
      <4>1. queue'[worker.id] = queue[worker.id]
        BY <2>1, <3>1, <3>5
      <4> QED
        BY <2>4, <2>5, <3>1, <3>2, <3>3, <4>1 DEF Held
    <3> QED
      BY <3>4, <3>5
  <2> QED
    BY <2>2, <2>5 DEF Held, Born
<1>4. CASE Fetch
  <2>1. CASE Rows = {}
    BY <1>4, <2>1 DEF Fetch, Go, Held, Holding, TypeOK
  <2>2. CASE Rows # {}
    <3> DEFINE i == Min(Rows)
    <3>1. i \in Rows
      BY <2>2, LowestRow
    <3>2. /\ worker' = [worker EXCEPT !.pc = IF queue[i].kind = "poison" THEN "drop" ELSE "gate", !.id = i, !.task = queue[i]]
          /\ UNCHANGED <<queue, seq, fate, builds, used>>
      BY <1>4, <2>2 DEF Fetch
    <3> HIDE DEF i
    <3>3. worker'.id = i /\ worker'.task = queue[i] /\ worker'.pc \in {"drop", "gate"}
      BY <3>2 DEF TypeOK
    <3>4. i \in Ids /\ queue[i] \in Task /\ queue[i] # NoTask
      BY <3>1, RowsAreTasks DEF Rows
    <3> QED
      BY <3>1, <3>2, <3>3, <3>4 DEF Held, Numbering, Born, Rows
  <2> QED
    BY <2>1, <2>2
<1>5. CASE Gate \/ HandlerReturns \/ HandlerRaises \/ FinishRaises \/ OnFailure
  <2>1. /\ worker.pc \in Holding /\ worker'.pc \in Holding /\ UNCHANGED <<queue, seq, fate, builds>>
        /\ worker'.id = worker.id /\ worker'.task = worker.task /\ used'.astray = used.astray
    BY <1>5 DEF Gate, HandlerReturns, HandlerRaises, FinishRaises, OnFailure, Go, At, Holding, TypeOK
  <2>2. worker'.pc = "requeue" => worker.task.kind \in Derived
    BY <1>5 DEF Gate, HandlerReturns, HandlerRaises, FinishRaises, OnFailure, Go, At, TypeOK
  <2> QED
    BY <2>1, <2>2 DEF Held, Born, Rows
<1>6. CASE Requeue
  <2>1. worker.id \in Ids /\ worker'.id = worker.id /\ worker'.pc = "reattribute"
    BY <1>6 DEF Requeue, At, Held, Holding, TypeOK
  <2> QED
    BY <2>1 DEF Held, Holding
<1>7. CASE Wake \/ Retry \/ Reattribute \/ TakeHeld \/ SelectLive \/ ForgetVanished \/ Abort \/ Restart \/ Finish \/ Drop \/ Discard
  <2>1. worker'.pc \in {"fetch", "held", "select", "forget", "wait"}
    <3>1. CASE Wake \/ Retry \/ Reattribute \/ Finish \/ Drop \/ Discard
      BY <3>1 DEF Wake, Retry, Reattribute, Finish, Drop, Discard, DeleteTask, Go, TypeOK
    <3>2. CASE TakeHeld \/ SelectLive
      BY <3>2 DEF TakeHeld, SelectLive, TypeOK
    <3>3. CASE ForgetVanished \/ Restart
      BY <3>3 DEF ForgetVanished, Restart, NoWork
    <3>4. CASE Abort
      BY <3>4 DEF Abort, NoWork, TypeOK
    <3> QED
      BY <1>7, <3>1, <3>2, <3>3, <3>4
  <2> QED
    BY <2>1 DEF Held, Holding
<1>8. ASSUME NEW agent \in Agents, DeleteAgentRows(agent)
      PROVE  Held'
  BY <1>3, <1>8 DEF DeleteAgentRows
<1>9. ASSUME NEW agent \in Agents, NEW u \in Uids, ClearStale(agent, u)
      PROVE  Held'
  BY <1>3, <1>9 DEF ClearStale
<1>10. ASSUME NEW r \in attributing, Remember(r)
       PROVE  Held'
  BY <1>1, <1>10 DEF Remember
<1>11. ASSUME NEW key \in AnyKey, Pause(key) \/ Unpause(key)
       PROVE  Held'
  BY <1>1, <1>11 DEF Pause, Unpause
<1>12. CASE UNCHANGED vars
  BY <1>1, <1>12 DEF vars
<1> QED
  BY <1>2, <1>4, <1>5, <1>6, <1>7, <1>8, <1>9, <1>10, <1>11, <1>12 DEF Next, WorkerStep

----------------------------------------------------------------------------
(* Attempts                                                                *)

\* It holds before any attempt.
LEMMA AttemptsInit == Init => Attempts
  BY QueueConstants DEF Init, Attempts, Holding, NoWork, Mishaps, Uids, Rows

\* The counts are numbers.
LEMMA CountsAreNumbers ==
    ASSUME TypeOK
    PROVE  Mishaps \in Nat /\ MaxRetries \in Nat \ {0} /\ (\A u \in Uids : fails[u] \in Nat) /\ \A u : Uncounted(u) \in {0, 1}
  BY QueueConstants DEF TypeOK, Mishaps, Uncounted

\* Each failure is counted by a retry, a requeue or the task's discard before its next
\* attempt, unless a restart or a fault comes between.
LEMMA AttemptsStep == Sound /\ [Next]_vars => Attempts'
<1> SUFFICES ASSUME Sound, [Next]_vars PROVE Attempts'
  OBVIOUS
<1> USE DEF Sound
<1>a. Mishaps \in Nat /\ MaxRetries \in Nat \ {0} /\ (\A u \in Uids : fails[u] \in Nat) /\ \A u : Uncounted(u) \in {0, 1}
  BY CountsAreNumbers
<1>b. \A i \in Rows : queue[i].uid \in Uids /\ queue[i].retries \in Nat
  BY RowsAreTasks
<1>c. worker.pc \in Holding => worker.id \in Ids /\ worker.task.uid \in Uids /\ worker.task.retries \in Nat
  BY QueueConstants DEF Held, Task
<1>1. CASE UNCHANGED <<queue, fails, worker>> /\ used'.restarts = used.restarts /\ used'.faults = used.faults
  BY <1>1 DEF Attempts, Mishaps, Uncounted, Rows
<1>2. ASSUME NEW kind \in Kinds, NEW agent \in Agents, NEW key \in AnyKey, Enqueue(kind, agent, key)
      PROVE  Attempts'
  <2>1. PICK i \in Ids, u \in Uids, t \in Task :
              /\ i \notin Rows /\ ~Born(u) /\ t.uid = u /\ t.retries = 0
              /\ queue' = [queue EXCEPT ![i] = t]
    BY <1>2, Newborn
  <2>2. UNCHANGED <<worker, used, fails>>
    BY <1>2 DEF Enqueue
  <2>3. Mishaps' = Mishaps /\ \A v : Uncounted(v)' = Uncounted(v)
    BY <2>2 DEF Mishaps, Uncounted
  <2>4. fails[u] = 0
    BY <2>1 DEF Numbering
  <2>5. Rows' \subseteq Rows \cup {i} /\ queue'[i] = t /\ \A j \in Rows : queue'[j] = queue[j]
    BY <2>1 DEF Rows, TypeOK
  <2>6. \A j \in Rows' : queue'[j].retries < MaxRetries /\ fails'[queue'[j].uid] <= queue'[j].retries + Mishaps + Uncounted(queue'[j].uid)
    BY <1>a, <2>1, <2>2, <2>4, <2>5 DEF Attempts
  <2> QED
    BY <2>2, <2>3, <2>6 DEF Attempts
<1>3. ASSUME Rows' \subseteq Rows, \A i \in Rows' : queue'[i] = queue[i], UNCHANGED fails,
             Mishaps' = Mishaps, \A u : Uncounted(u)' = Uncounted(u) \/ \A i \in Rows' : queue[i].uid # u,
             worker'.pc \in Holding => worker' = worker
      PROVE  Attempts'
  <2>1. \A i \in Rows' : queue'[i].retries < MaxRetries
                         /\ fails'[queue'[i].uid] <= queue'[i].retries + Mishaps' + Uncounted(queue[i].uid)'
    BY <1>3 DEF Attempts
  <2>2. worker'.pc \in Holding =>
          /\ worker'.task.retries < MaxRetries
          /\ fails'[worker'.task.uid] <= worker'.task.retries + Mishaps' + Uncounted(worker.task.uid)'
    BY <1>3 DEF Attempts, Uncounted
  <2>3. worker'.pc \in {"requeue", "retry"} => worker'.task.retries + 1 < MaxRetries
    BY <1>3 DEF Attempts, Holding
  <2> QED
    BY <1>3, <2>1, <2>2, <2>3 DEF Attempts, Uncounted
<1>4. ASSUME NEW ids \in SUBSET Rows, NEW how, how # "unborn", Remove(ids, how)
      PROVE  Attempts'
  <2>1. Rows' \subseteq Rows /\ \A i \in Rows' : queue'[i] = queue[i]
    BY <1>4, Removal
  <2>2. UNCHANGED <<worker, fails>> /\ used'.restarts = used.restarts /\ used'.faults = used.faults
    BY <1>4 DEF Remove, TypeOK
  <2>3. Mishaps' = Mishaps /\ \A u : Uncounted(u)' = Uncounted(u)
    BY <2>2 DEF Mishaps, Uncounted
  <2> QED
    BY <1>3, <2>1, <2>2, <2>3
<1>5. ASSUME NEW how, how # "unborn", worker.pc \in Holding, DeleteTask(how)
      PROVE  Attempts'
  <2>1. Rows' = Rows \ {worker.id} /\ \A i \in Rows' : queue'[i] = queue[i]
    BY <1>5, Deletion
  <2>2. UNCHANGED <<fails, used>> /\ worker'.pc = "fetch"
    BY <1>5 DEF DeleteTask, Go, TypeOK
  <2>3. Mishaps' = Mishaps /\ worker'.pc \notin Holding /\ \A u : Uncounted(u)' = 0
    BY <2>2 DEF Mishaps, Uncounted, Holding, Failing
  <2>4. \A i \in Rows' : queue[i].uid # worker.task.uid
    BY <1>5, <2>1 DEF Held
  <2>5. \A u : Uncounted(u) = 0 \/ u = worker.task.uid
    BY DEF Uncounted
  <2> QED
    BY <1>3, <2>1, <2>2, <2>3, <2>4, <2>5
<1>6. CASE Fetch
  <2>1. UNCHANGED <<queue, fails, used>> /\ Rows' = Rows /\ Mishaps' = Mishaps /\ worker.pc = "fetch"
    BY <1>6 DEF Fetch, Rows, Mishaps, At
  <2>2. CASE Rows = {}
    <3>1. worker'.pc = "held"
      BY <1>6, <2>2 DEF Fetch, Go, TypeOK
    <3> QED
      BY <1>3, <2>1, <2>2, <3>1 DEF Holding
  <2>3. CASE Rows # {}
    <3> DEFINE i == Min(Rows)
    <3>1. i \in Rows
      BY <2>3, LowestRow
    <3>2. worker' = [worker EXCEPT !.pc = IF queue[i].kind = "poison" THEN "drop" ELSE "gate", !.id = i, !.task = queue[i]]
      BY <1>6, <2>3 DEF Fetch
    <3> HIDE DEF i
    <3>3. worker'.task = queue[i] /\ worker'.pc \in {"drop", "gate"}
      BY <3>2 DEF TypeOK
    <3>4. \A u : Uncounted(u)' = 0 /\ Uncounted(u) = 0
      BY <2>1, <3>3 DEF Uncounted, Failing
    <3>5. fails[queue[i].uid] <= queue[i].retries + Mishaps /\ queue[i].retries < MaxRetries
      BY <1>a, <1>b, <3>1, <3>4 DEF Attempts
    <3>6. (\A j \in Rows : queue[j].retries < MaxRetries /\ fails[queue[j].uid] <= queue[j].retries + Mishaps + Uncounted(queue[j].uid))'
      BY <1>a, <1>b, <2>1, <3>4 DEF Attempts
    <3>7. (fails[worker.task.uid] <= worker.task.retries + Mishaps + Uncounted(worker.task.uid))' /\ worker'.task.retries < MaxRetries
      BY <1>a, <1>b, <2>1, <3>1, <3>3, <3>4, <3>5
    <3> QED
      BY <2>1, <3>3, <3>6, <3>7 DEF Attempts
  <2> QED
    BY <2>2, <2>3
<1>7. CASE Gate \/ HandlerReturns \/ OnFailure
  <2>1. /\ UNCHANGED <<queue, fails, used>> /\ worker.pc \in Holding /\ worker'.pc \in Holding
        /\ worker'.task = worker.task /\ (worker'.pc \in Failing <=> worker.pc \in Failing)
    BY <1>7 DEF Gate, HandlerReturns, OnFailure, Go, At, Holding, Failing, TypeOK
  <2>2. worker'.pc \in {"requeue", "retry"} => worker.task.retries + 1 < MaxRetries
    <3>1. CASE Gate \/ HandlerReturns
      BY <3>1 DEF Gate, HandlerReturns, Go, At, TypeOK
    <3>2. CASE OnFailure
      <4>1. worker.task.retries + 1 >= MaxRetries => worker'.pc = "discard"
        BY <3>2 DEF OnFailure, Go, TypeOK
      <4> QED
        BY <1>a, <1>c, <2>1, <4>1
    <3> QED
      BY <1>7, <3>1, <3>2
  <2> QED
    BY <2>1, <2>2 DEF Attempts, Uncounted, Mishaps, Rows
<1>8. CASE HandlerRaises \/ FinishRaises
  <2>1. /\ UNCHANGED queue /\ worker.pc \in {"run", "finish"} /\ worker'.pc = "fail"
        /\ worker'.task = worker.task /\ fails' = Failed(worker.task.uid)
        /\ used'.restarts = used.restarts /\ (used'.faults = used.faults \/ used'.faults = used.faults + 1)
    BY <1>8 DEF HandlerRaises, FinishRaises, Go, At, TypeOK
  <2>2. worker.pc \in Holding /\ worker.task.uid \in Uids /\ Mishaps' \in Nat /\ Mishaps <= Mishaps'
    BY <1>c, <2>1, QueueConstants DEF Holding, Mishaps, TypeOK
  <2>3. PICK w \in Uids : w = worker.task.uid
    BY <2>2
  <2>4. fails'[w] = fails[w] + 1 /\ \A u \in Uids \ {w} : fails'[u] = fails[u]
    BY <2>1, <2>3 DEF Failed, TypeOK
  <2>5. (\A u : Uncounted(u)' = IF u = w THEN 1 ELSE 0) /\ \A u : Uncounted(u) = 0
    BY <2>1, <2>3 DEF Uncounted, Failing
  <2>6. fails[w] <= worker.task.retries + Mishaps /\ worker.task.retries < MaxRetries
    BY <1>a, <1>c, <2>2, <2>3, <2>5 DEF Attempts
  <2>7. \A u \in Uids : fails'[u] <= MaxRetries + Mishaps'
    <3>1. \A u \in Uids : fails[u] <= MaxRetries + Mishaps
      BY DEF Attempts
    <3>2. fails'[w] <= MaxRetries + Mishaps'
      BY <1>a, <1>c, <2>2, <2>4, <2>6
    <3>3. \A u \in Uids \ {w} : fails'[u] <= MaxRetries + Mishaps'
      BY <1>a, <2>2, <2>4, <3>1
    <3> QED
      BY <3>2, <3>3
  <2>8. ASSUME NEW i \in Rows
        PROVE  queue[i].retries < MaxRetries /\ fails'[queue[i].uid] <= queue[i].retries + Mishaps' + (IF queue[i].uid = w THEN 1 ELSE 0)
    <3>1. queue[i].retries < MaxRetries /\ fails[queue[i].uid] <= queue[i].retries + Mishaps
      BY <1>a, <1>b, <2>5 DEF Attempts
    <3>2. fails'[queue[i].uid] = fails[queue[i].uid] + (IF queue[i].uid = w THEN 1 ELSE 0)
      BY <1>a, <1>b, <2>4
    <3> QED
      BY <1>a, <1>b, <2>2, <3>1, <3>2
  <2>9. (\A i \in Rows : queue[i].retries < MaxRetries /\ fails[queue[i].uid] <= queue[i].retries + Mishaps + Uncounted(queue[i].uid))'
    <3>1. Rows' = Rows
      BY <2>1 DEF Rows
    <3> QED
      BY <2>1, <2>5, <2>8, <3>1
  <2>10. (fails[worker.task.uid] <= worker.task.retries + Mishaps + Uncounted(worker.task.uid))' /\ worker'.task.retries < MaxRetries
    BY <1>a, <1>c, <2>1, <2>2, <2>3, <2>4, <2>5, <2>6
  <2> QED
    BY <2>1, <2>7, <2>9, <2>10 DEF Attempts
<1>9. CASE Retry \/ Requeue
  <2>1. /\ UNCHANGED <<fails, used>> /\ worker.pc \in {"requeue", "retry"} /\ worker'.pc \in {"fetch", "reattribute"}
    BY <1>9 DEF Retry, Requeue, Go, At, TypeOK
  <2>2. /\ worker.pc \in Holding /\ worker'.pc \notin Holding /\ Mishaps' = Mishaps
        /\ worker.task.retries + 1 < MaxRetries /\ \A u : Uncounted(u)' = 0
    BY <2>1 DEF Holding, Mishaps, Uncounted, Failing, Attempts
  <2>3. \A i \in Rows : i # worker.id => Uncounted(queue[i].uid) = 0
    BY <2>2 DEF Held, Uncounted
  <2>4. ASSUME NEW i \in Rows, i # worker.id
        PROVE  queue[i].retries < MaxRetries /\ fails[queue[i].uid] <= queue[i].retries + Mishaps
    BY <1>a, <1>b, <2>3, <2>4 DEF Attempts
  <2>5. ASSUME NEW t, worker.id \in Rows, Recounted(t)
        PROVE  t.retries < MaxRetries /\ fails[t.uid] <= t.retries + Mishaps
    <3>1. t.uid = queue[worker.id].uid /\ t.retries = queue[worker.id].retries + 1
      BY <2>5 DEF Recounted
    <3>2. fails[t.uid] <= queue[worker.id].retries + Mishaps + 1
      BY <1>a, <1>b, <2>5, <3>1 DEF Attempts
    <3>3. queue[worker.id].retries <= worker.task.retries
      BY <1>c, <2>2, <2>5 DEF Held, Rows
    <3> QED
      BY <1>a, <1>b, <1>c, <2>2, <2>5, <3>1, <3>2, <3>3
  <2>6. \A i \in Rows' : (\E j \in Rows \ {worker.id} : queue'[i] = queue[j]) \/ (worker.id \in Rows /\ Recounted(queue'[i]))
    <3>1. CASE worker.id \notin Rows /\ queue' = queue
      BY <3>1 DEF Rows
    <3>2. CASE worker.id \in Rows /\ Rows' = Rows /\ \E t : queue' = [queue EXCEPT ![worker.id] = t] /\ Recounted(t)
      BY <3>2 DEF Rows, TypeOK
    <3>3. CASE /\ worker.id \in Rows /\ Rows' = (Rows \ {worker.id}) \cup {Top + 1}
               /\ \A i \in Rows \ {worker.id} : queue'[i] = queue[i]
               /\ Recounted(queue'[Top + 1])
      BY <3>3
    <3> QED
      BY <1>9, <3>1, <3>2, <3>3, RetryCounts, RequeueMoves
  <2>7. \A i \in Rows' : queue'[i].retries < MaxRetries /\ fails[queue'[i].uid] <= queue'[i].retries + Mishaps
    BY <2>4, <2>5, <2>6
  <2>8. \A i \in Rows' : queue'[i].retries \in Nat
    BY <1>b, <2>5, <2>6 DEF Recounted
  <2>9. (\A i \in Rows : queue[i].retries < MaxRetries /\ fails[queue[i].uid] <= queue[i].retries + Mishaps + Uncounted(queue[i].uid))'
    BY <1>a, <2>1, <2>2, <2>7, <2>8
  <2> QED
    BY <2>1, <2>2, <2>9 DEF Attempts
<1>10. CASE Abort \/ Restart
  <2>1. UNCHANGED <<queue, fails>> /\ worker'.pc \in {"held", "wait"} /\ Mishaps' = Mishaps + 1
    BY <1>10, QueueConstants DEF Abort, Restart, NoWork, TypeOK, Mishaps
  <2>2. worker'.pc \notin Holding /\ Rows' = Rows /\ \A u : Uncounted(u)' = 0
    BY <2>1 DEF Holding, Uncounted, Failing, Rows
  <2>3. \A i \in Rows : queue[i].retries < MaxRetries /\ fails[queue[i].uid] <= queue[i].retries + (Mishaps + 1)
    BY <1>a, <1>b DEF Attempts
  <2>4. \A u \in Uids : fails[u] <= MaxRetries + (Mishaps + 1)
    BY <1>a DEF Attempts
  <2>5. (\A i \in Rows : queue[i].retries < MaxRetries /\ fails[queue[i].uid] <= queue[i].retries + Mishaps + Uncounted(queue[i].uid))'
    BY <1>a, <1>b, <2>1, <2>2, <2>3
  <2> QED
    BY <2>1, <2>2, <2>4, <2>5 DEF Attempts, Holding
<1>11. CASE Wake \/ Reattribute \/ TakeHeld \/ SelectLive \/ ForgetVanished
  <2>1. /\ UNCHANGED <<queue, fails, used>> /\ worker.pc \in {"wait", "reattribute", "held", "select", "forget"}
        /\ worker'.pc \in {"wait", "fetch", "select", "forget"}
    <3>1. CASE Wake \/ Reattribute
      BY <3>1 DEF Wake, Reattribute, Go, At, TypeOK
    <3>2. CASE TakeHeld \/ SelectLive
      BY <3>2 DEF TakeHeld, SelectLive, At, TypeOK
    <3>3. CASE ForgetVanished
      BY <3>3 DEF ForgetVanished, At, NoWork
    <3> QED
      BY <1>11, <3>1, <3>2, <3>3
  <2>2. worker'.pc \notin Holding /\ Rows' = Rows /\ Mishaps' = Mishaps /\ \A u : Uncounted(u)' = Uncounted(u)
    BY <2>1 DEF Holding, Uncounted, Failing, Rows, Mishaps
  <2> QED
    BY <1>3, <2>1, <2>2
<1>12. ASSUME NEW agent \in Agents, DeleteAgentRows(agent)
       PROVE  Attempts'
  BY <1>4, <1>12 DEF DeleteAgentRows
<1>13. ASSUME NEW agent \in Agents, NEW u \in Uids, ClearStale(agent, u)
       PROVE  Attempts'
  BY <1>4, <1>13 DEF ClearStale
<1>14. CASE Finish \/ Drop \/ Discard
  BY <1>5, <1>14 DEF Finish, Drop, Discard, Holding, At
<1>15. ASSUME NEW r \in attributing, Remember(r)
       PROVE  Attempts'
  BY <1>1, <1>15 DEF Remember
<1>16. ASSUME NEW key \in AnyKey, Pause(key) \/ Unpause(key)
       PROVE  Attempts'
  BY <1>1, <1>16 DEF Pause, Unpause
<1>17. CASE UNCHANGED vars
  BY <1>1, <1>17 DEF vars
<1> QED
  BY <1>2, <1>6, <1>7, <1>8, <1>9, <1>10, <1>11, <1>12, <1>13, <1>14, <1>15, <1>16, <1>17 DEF Next, WorkerStep

\* The types, the numbering, what the worker holds and the attempts hold together in
\* every state, whatever callers, sessions, deletions, faults and restarts do.
THEOREM QueueIsSound == Spec => []Sound
<1>1. Init => Sound
  BY TypeInit, NumberingInit, HeldInit, AttemptsInit DEF Sound
<1>2. Sound /\ [Next]_vars => Sound'
  BY TypeStep, NumberingStep, HeldStep, AttemptsStep DEF Sound
<1> QED
  BY <1>1, <1>2, PTL DEF Spec

\* The types alone: row ids, task numbers and retry counts stay in their bounds.
THEOREM QueueTyped == Spec => []TypeOK
<1>1. Sound => TypeOK
  BY DEF Sound
<1> QED
  BY <1>1, QueueIsSound, PTL

----------------------------------------------------------------------------
(* No task is lost                                                         *)

\* Once astray, always astray.
LEMMA AstrayStays == TypeOK /\ [Next]_vars /\ ~used'.astray => ~used.astray
<1> SUFFICES ASSUME TypeOK, [Next]_vars, used.astray PROVE used'.astray
  OBVIOUS
<1>1. ASSUME NEW ids, NEW how, Remove(ids, how)
      PROVE  used'.astray
  <2>1. used'.astray = Astray(ids)
    BY <1>1 DEF Remove, TypeOK
  <2> QED
    BY <2>1, Zenon DEF Astray
<1>2. ASSUME NEW agent \in Agents, DeleteAgentRows(agent)
      PROVE  used'.astray
  BY <1>1, <1>2 DEF DeleteAgentRows
<1>3. ASSUME NEW agent \in Agents, NEW u \in Uids, ClearStale(agent, u)
      PROVE  used'.astray
  BY <1>1, <1>3 DEF ClearStale
<1>4. CASE FinishRaises \/ Abort \/ Restart
  BY <1>4 DEF FinishRaises, Abort, Restart, TypeOK
<1>5. CASE WorkerStep
  BY <1>5 DEF WorkerStep, Wake, Fetch, Gate, HandlerReturns, HandlerRaises, Finish, Drop, Discard, DeleteTask,
              OnFailure, Retry, Requeue, Reattribute, TakeHeld, SelectLive, ForgetVanished
<1>6. CASE UNCHANGED used
  BY <1>6
<1>7. ASSUME NEW kind \in Kinds, NEW agent \in Agents, NEW key \in AnyKey, Enqueue(kind, agent, key)
      PROVE  UNCHANGED used
  BY <1>7 DEF Enqueue
<1>8. ASSUME NEW r \in attributing, Remember(r) PROVE UNCHANGED used
  BY <1>8 DEF Remember
<1>9. ASSUME NEW key \in AnyKey, Pause(key) \/ Unpause(key) PROVE UNCHANGED used
  BY <1>9 DEF Pause, Unpause
<1> QED
  BY <1>2, <1>3, <1>4, <1>5, <1>6, <1>7, <1>8, <1>9 DEF Next, vars

\* While no removal was astray, a row under the worker's id is the task it holds.
LEMMA HeldIsRow ==
    ASSUME Held, ~used.astray, worker.pc \in Holding
    PROVE  worker.id \in Rows => queue[worker.id] = worker.task
  BY DEF Held, Rows

\* It holds before any task.
LEMMA CountedInit == Init => Counted
  BY DEF Init, Counted, Rows, Holding, NoWork, Uids

\* A retry count rises only with a failure behind it, so a task is discarded only when
\* it has failed as often as the limit; and what the worker deletes is what it holds.
LEMMA CountedStep == Sound /\ Counted /\ [Next]_vars => Counted'
<1> SUFFICES ASSUME Sound, Counted, [Next]_vars, ~used'.astray
             PROVE  (/\ \A i \in Rows : queue[i].retries <= fails[queue[i].uid]
                     /\ worker.pc \in Holding =>
                           worker.task.retries + Uncounted(worker.task.uid) <= fails[worker.task.uid]
                     /\ worker.pc = "discard" => worker.task.retries + 1 >= MaxRetries
                     /\ \A u \in Uids : fate[u] # "lost" /\ (fate[u] = "discarded" => fails[u] >= MaxRetries))'
  BY DEF Counted
<1> DEFINE RowsCounted == \A i \in Rows : queue[i].retries <= fails[queue[i].uid]
           HeldCounted == worker.pc \in Holding => worker.task.retries + Uncounted(worker.task.uid) <= fails[worker.task.uid]
           LastCounted == worker.pc = "discard" => worker.task.retries + 1 >= MaxRetries
           FateCounted == \A u \in Uids : fate[u] # "lost" /\ (fate[u] = "discarded" => fails[u] >= MaxRetries)
           AllCounted  == RowsCounted /\ HeldCounted /\ LastCounted /\ FateCounted
<1> SUFFICES AllCounted'
  OBVIOUS
<1> USE DEF Sound
<1>z. ~used.astray
  BY AstrayStays
<1>0. AllCounted
  BY <1>z DEF Counted
<1>a. Mishaps \in Nat /\ MaxRetries \in Nat \ {0} /\ (\A u \in Uids : fails[u] \in Nat) /\ \A u : Uncounted(u) \in {0, 1}
  BY CountsAreNumbers
<1>b. \A i \in Rows : i \in Ids /\ queue[i].uid \in Uids /\ queue[i].retries \in Nat
  BY RowsAreTasks
<1>c. worker.pc \in Holding => worker.id \in Ids /\ worker.task.uid \in Uids /\ worker.task.retries \in Nat
  BY QueueConstants DEF Held, Task
<1>1. CASE UNCHANGED <<queue, fails, fate, worker>>
  BY <1>0, <1>1 DEF Uncounted, Rows
<1>2. ASSUME NEW kind \in Kinds, NEW agent \in Agents, NEW key \in AnyKey, Enqueue(kind, agent, key)
      PROVE  AllCounted'
  <2>1. PICK i \in Ids, u \in Uids, t \in Task :
              /\ t.uid = u /\ t.retries = 0 /\ queue' = [queue EXCEPT ![i] = t]
              /\ fate' = [fate EXCEPT ![u] = "queued"]
    BY <1>2, Newborn
  <2>2. UNCHANGED <<worker, fails>>
    BY <1>2 DEF Enqueue
  <2>3. Rows' \subseteq Rows \cup {i} /\ queue'[i] = t /\ \A j \in Rows \ {i} : queue'[j] = queue[j]
    BY <2>1 DEF Rows, TypeOK
  <2>4. RowsCounted'
    BY <1>0, <1>a, <2>1, <2>2, <2>3
  <2>5. FateCounted'
    BY <1>0, <2>1, <2>2 DEF TypeOK
  <2> QED
    BY <1>0, <2>2, <2>4, <2>5 DEF Uncounted
<1>3. ASSUME NEW ids \in SUBSET Rows, NEW how \in {"wiped", "removed"}, Remove(ids, how)
      PROVE  AllCounted'
  <2>1. Rows' \subseteq Rows /\ \A i \in Rows' : queue'[i] = queue[i]
    BY <1>3, Removal
  <2>2. UNCHANGED <<worker, fails>>
    BY <1>3 DEF Remove
  <2>3. ASSUME NEW u \in Uids
        PROVE  fate'[u] = fate[u] \/ fate'[u] = how
    BY <1>3 DEF Remove
  <2>4. FateCounted'
    BY <1>0, <2>2, <2>3
  <2> QED
    BY <1>0, <2>1, <2>2, <2>4 DEF Uncounted
<1>4. CASE Fetch
  <2>1. UNCHANGED <<queue, fails, fate>> /\ Rows' = Rows
    BY <1>4 DEF Fetch, Rows
  <2>2. CASE Rows = {}
    <3>1. worker'.pc = "held"
      BY <1>4, <2>2 DEF Fetch, Go, TypeOK
    <3> QED
      BY <1>0, <2>1, <3>1 DEF Holding
  <2>3. CASE Rows # {}
    <3> DEFINE i == Min(Rows)
    <3>1. i \in Rows
      BY <2>3, LowestRow
    <3>2. worker' = [worker EXCEPT !.pc = IF queue[i].kind = "poison" THEN "drop" ELSE "gate", !.id = i, !.task = queue[i]]
      BY <1>4, <2>3 DEF Fetch
    <3> HIDE DEF i
    <3>3. worker'.task = queue[i] /\ worker'.pc \in {"drop", "gate"}
      BY <3>2 DEF TypeOK
    <3>4. \A u : Uncounted(u)' = 0
      BY <3>3 DEF Uncounted, Failing
    <3>5. HeldCounted'
      BY <1>0, <1>b, <2>1, <3>1, <3>3, <3>4
    <3> QED
      BY <1>0, <2>1, <3>3, <3>5
  <2> QED
    BY <2>2, <2>3
<1>5. CASE Gate \/ HandlerReturns \/ OnFailure
  <2>1. /\ UNCHANGED <<queue, fails, fate>> /\ worker.pc \in Holding /\ worker'.pc \in Holding
        /\ worker'.task = worker.task /\ (worker'.pc \in Failing <=> worker.pc \in Failing)
    BY <1>5 DEF Gate, HandlerReturns, OnFailure, Go, At, Holding, Failing, TypeOK
  <2>2. LastCounted'
    <3>1. CASE Gate \/ HandlerReturns
      BY <3>1 DEF Gate, HandlerReturns, Go, At, TypeOK
    <3>2. CASE OnFailure
      <4>1. worker'.pc = "discard" => worker.task.retries + 1 >= MaxRetries
        BY <3>2 DEF OnFailure, Go, TypeOK
      <4> QED
        BY <2>1, <4>1
    <3> QED
      BY <1>5, <3>1, <3>2
  <2> QED
    BY <1>0, <2>1, <2>2 DEF Uncounted, Rows
<1>6. CASE HandlerRaises \/ FinishRaises
  <2>1. /\ UNCHANGED <<queue, fate>> /\ worker.pc \in {"run", "finish"} /\ worker'.pc = "fail"
        /\ worker'.task = worker.task /\ fails' = Failed(worker.task.uid) /\ Rows' = Rows
    BY <1>6 DEF HandlerRaises, FinishRaises, Go, At, TypeOK, Rows
  <2>2. worker.pc \in Holding /\ worker.task.uid \in Uids
    BY <1>c, <2>1 DEF Holding
  <2>3. PICK w \in Uids : w = worker.task.uid
    BY <2>2
  <2>4. fails'[w] = fails[w] + 1 /\ \A u \in Uids : fails'[u] \in Nat /\ fails[u] <= fails'[u]
    BY <1>a, <2>1, <2>3 DEF Failed, TypeOK
  <2>5. Uncounted(w)' = 1 /\ Uncounted(w) = 0
    BY <2>1, <2>3 DEF Uncounted, Failing
  <2>6. HeldCounted'
    <3>1. worker.task.retries <= fails[w]
      BY <1>0, <1>a, <1>c, <2>2, <2>3, <2>5
    <3>2. worker.task.retries + 1 <= fails'[w]
      BY <1>a, <1>c, <2>2, <2>4, <3>1
    <3> QED
      BY <2>1, <2>3, <2>5, <3>2
  <2>7. RowsCounted'
    BY <1>0, <1>a, <1>b, <2>1, <2>4
  <2>8. FateCounted'
    BY <1>0, <1>a, <2>1, <2>4
  <2> QED
    BY <2>1, <2>6, <2>7, <2>8
<1>7. ASSUME NEW how \in {"done", "dropped", "discarded"}, worker.pc \in Holding, DeleteTask(how),
             how = "discarded" => worker.pc = "discard"
      PROVE  AllCounted'
  <2>1. Rows' = Rows \ {worker.id} /\ \A i \in Rows' : queue'[i] = queue[i]
    BY <1>7, Deletion
  <2>2. UNCHANGED fails /\ worker'.pc = "fetch"
    BY <1>7 DEF DeleteTask, Go, TypeOK
  <2>3. how = "discarded" => fails[worker.task.uid] >= MaxRetries
    <3>1. how = "discarded" => Uncounted(worker.task.uid) = 1
      BY <1>7 DEF Uncounted, Failing
    <3> QED
      BY <1>0, <1>7, <1>a, <1>c, <3>1
  <2>4. FateCounted'
    <3>1. CASE queue[worker.id] = NoTask
      BY <1>0, <1>7, <2>2, <3>1 DEF DeleteTask
    <3>2. CASE queue[worker.id] # NoTask
      <4>1. queue[worker.id] = worker.task
        BY <1>7, <1>c, <1>z, <3>2, HeldIsRow DEF Rows
      <4>2. fate' = [fate EXCEPT ![worker.task.uid] = how]
        BY <1>7, <3>2, <4>1 DEF DeleteTask
      <4> QED
        BY <1>0, <1>7, <1>c, <2>2, <2>3, <4>2 DEF TypeOK
    <3> QED
      BY <3>1, <3>2
  <2> QED
    BY <1>0, <2>1, <2>2, <2>4 DEF Holding
<1>8. CASE Retry \/ Requeue
  <2>1. /\ UNCHANGED <<fails, fate>> /\ worker.pc \in {"requeue", "retry"} /\ worker'.pc \in {"fetch", "reattribute"}
    BY <1>8 DEF Retry, Requeue, Go, At, TypeOK
  <2>2. worker.pc \in Holding /\ worker'.pc \notin Holding /\ worker'.pc # "discard" /\ Uncounted(worker.task.uid) = 1
    BY <2>1 DEF Holding, Uncounted, Failing
  <2>3. ASSUME NEW t, worker.id \in Rows, Recounted(t)
        PROVE  t.retries <= fails[t.uid]
    <3>1. queue[worker.id] = worker.task
      BY <1>z, <2>2, <2>3, HeldIsRow
    <3>2. t.uid = worker.task.uid /\ t.retries = worker.task.retries + 1
      BY <2>3, <3>1 DEF Recounted
    <3> QED
      BY <1>0, <2>2, <3>2
  <2>4. \A i \in Rows' : (\E j \in Rows \ {worker.id} : queue'[i] = queue[j]) \/ (worker.id \in Rows /\ Recounted(queue'[i]))
    <3>1. CASE worker.id \notin Rows /\ queue' = queue
      BY <3>1 DEF Rows
    <3>2. CASE worker.id \in Rows /\ Rows' = Rows /\ \E t : queue' = [queue EXCEPT ![worker.id] = t] /\ Recounted(t)
      BY <3>2 DEF Rows, TypeOK
    <3>3. CASE /\ worker.id \in Rows /\ Rows' = (Rows \ {worker.id}) \cup {Top + 1}
               /\ \A i \in Rows \ {worker.id} : queue'[i] = queue[i]
               /\ Recounted(queue'[Top + 1])
      BY <3>3
    <3> QED
      BY <1>8, <3>1, <3>2, <3>3, RetryCounts, RequeueMoves
  <2>5. RowsCounted'
    BY <1>0, <2>1, <2>3, <2>4
  <2> QED
    BY <1>0, <2>1, <2>2, <2>5
<1>9. CASE Wake \/ Reattribute \/ TakeHeld \/ SelectLive \/ ForgetVanished \/ Abort \/ Restart
  <2>1. UNCHANGED <<queue, fails, fate>> /\ worker'.pc \in {"fetch", "held", "select", "forget", "wait"}
    <3>1. CASE Wake \/ Reattribute \/ Abort
      BY <3>1 DEF Wake, Reattribute, Abort, Go, NoWork, TypeOK
    <3>2. CASE TakeHeld \/ SelectLive
      BY <3>2 DEF TakeHeld, SelectLive, TypeOK
    <3>3. CASE ForgetVanished \/ Restart
      BY <3>3 DEF ForgetVanished, Restart, NoWork
    <3> QED
      BY <1>9, <3>1, <3>2, <3>3
  <2> QED
    BY <1>0, <2>1 DEF Rows, Holding
<1>10. ASSUME NEW agent \in Agents, DeleteAgentRows(agent)
       PROVE  AllCounted'
  BY <1>3, <1>10 DEF DeleteAgentRows
<1>11. ASSUME NEW agent \in Agents, NEW u \in Uids, ClearStale(agent, u)
       PROVE  AllCounted'
  BY <1>3, <1>11 DEF ClearStale
<1>12. CASE Finish \/ Drop \/ Discard
  BY <1>7, <1>12 DEF Finish, Drop, Discard, Holding, At
<1>13. ASSUME NEW r \in attributing, Remember(r)
       PROVE  AllCounted'
  BY <1>1, <1>13 DEF Remember
<1>14. ASSUME NEW key \in AnyKey, Pause(key) \/ Unpause(key)
       PROVE  AllCounted'
  BY <1>1, <1>14 DEF Pause, Unpause
<1>15. CASE UNCHANGED vars
  BY <1>1, <1>15 DEF vars
<1> HIDE DEF AllCounted
<1> QED
  BY <1>2, <1>4, <1>5, <1>6, <1>8, <1>9, <1>10, <1>11, <1>12, <1>13, <1>14, <1>15 DEF Next, WorkerStep

\* No queued task is lost, none is given up before TASK_MAX_RETRIES attempts failed, and
\* none fails more often than the restarts and faults allow.
THEOREM NoQueuedTaskLost == Spec => []NoTaskLost
<1>1. Init => Counted
  BY CountedInit
<1>2. Sound /\ Counted /\ [Next]_vars => Counted'
  BY CountedStep
<1>3. Sound /\ Counted => NoTaskLost
  <2> SUFFICES ASSUME Sound, Counted PROVE NoTaskLost
    OBVIOUS
  <2>1. \A u \in Uids : fails[u] <= MaxRetries + Mishaps
    BY DEF Sound, Attempts
  <2>2. used.restarts \in Nat /\ used.faults \in Nat /\ MaxRetries \in Nat
    BY QueueConstants DEF Sound, TypeOK
  <2>3. \A u \in Uids : fails[u] <= MaxRetries + used.restarts + used.faults
    BY <2>1, <2>2 DEF Mishaps, Sound, TypeOK
  <2> QED
    BY <2>3 DEF NoTaskLost, Counted
<1> QED
  BY <1>1, <1>2, <1>3, QueueIsSound, PTL DEF Spec

----------------------------------------------------------------------------
(* Attribution                                                             *)

\* What _remember_session leaves under an id: the new key under the id it is given, and
\* under any other what was there or nothing.
LEMMA RememberedAt ==
    ASSUME NEW map, NEW i \in Ids, NEW key, NEW new, new = Remembered(map, i, key)
    PROVE  \A j \in Ids : (j = i => new[j] = key) /\ (j # i => new[j] \in {map[j], TransportKey})
<1> DEFINE held  == {j \in Ids : map[j] # TransportKey}
           evict == IF key # TransportKey /\ i \notin held /\ Cardinality(held) >= MaxAttributed
                    THEN {Min(held)} ELSE {}
<1>1. new = [j \in Ids |-> IF j = i THEN key ELSE IF j \in evict THEN TransportKey ELSE map[j]]
  BY DEF Remembered
<1> HIDE DEF evict
<1> QED
  BY <1>1

\* It holds before any attribution.
LEMMA AttributionInit == Init => Attribution
  BY DEF Init, Attribution, NoStaleEntry, RowsOwned, GateOwned, DropOwned, Moving, NoWork, Rows

\* The attribution of a write is its own session's or has been dropped, from the enqueue
\* through every requeue of a build in front of it to the gate.
LEMMA AttributionStep == Sound /\ Attribution /\ [Next]_vars => Attribution'
<1> DEFINE Owned == NoStaleEntry /\ RowsOwned /\ GateOwned /\ DropOwned
<1> SUFFICES ASSUME Sound, Attribution, [Next]_vars, ~used'.astray
             PROVE  Owned'
  BY DEF Attribution
<1> USE DEF Sound
<1>z. ~used.astray
  BY AstrayStays
<1>0. Owned
  BY <1>z DEF Attribution
<1>a. seq \in Nat /\ (\A i \in Ids : i \in Nat) /\ \A r \in attributing : r.id \in Ids
  BY QueueConstants DEF TypeOK, Ids
<1>b. \A i \in Rows : i \in Ids /\ queue[i] # NoTask
  BY DEF Rows
<1>c. worker.pc \in Holding => worker.id \in Ids
  BY DEF Held
<1>1. CASE UNCHANGED <<queue, seq, sessions, attributing, worker>>
  BY <1>0, <1>1 DEF NoStaleEntry, RowsOwned, GateOwned, DropOwned, OwnSession, Moving, Rows
<1>2. ASSUME NEW kind \in Kinds, NEW agent \in Agents, NEW key \in AnyKey, Enqueue(kind, agent, key)
      PROVE  Owned'
  <2>1. PICK i \in Ids, u \in Uids, t \in Task :
              /\ seq < i /\ (\A j \in Rows : j < i) /\ i \notin Rows
              /\ t.kind = kind /\ t.key = key
              /\ queue' = [queue EXCEPT ![i] = t] /\ seq' = i
              /\ attributing' = attributing \cup {[uid |-> u, id |-> i, key |-> key]}
    BY <1>2, Newborn
  <2>2. UNCHANGED <<worker, sessions>>
    BY <1>2 DEF Enqueue
  <2>3. queue'[i] = t /\ \A j \in Ids \ {i} : queue'[j] = queue[j]
    BY <2>1 DEF TypeOK
  <2>4. Rows' \subseteq Rows \cup {i} /\ \A j \in Rows : queue'[j] = queue[j]
    BY <2>1, <2>3 DEF Rows
  <2>5. Moving' <=> Moving
    BY <2>2 DEF Moving
  <2>6. Moving => worker.id < i /\ worker.to # i /\ worker.id \in Nat /\ worker.to \in Ids
    <3> SUFFICES ASSUME Moving PROVE worker.id < i /\ worker.to # i /\ worker.id \in Nat /\ worker.to \in Ids
      OBVIOUS
    <3>1. worker.id \in Ids
      BY DEF Held, Moving
    <3>2. worker.to \in Ids /\ worker.id < worker.to /\ (worker.to <= seq \/ worker.to \in Rows)
      BY <1>0 DEF NoStaleEntry, Rows
    <3> QED
      BY <1>a, <2>1, <3>1, <3>2
  <2>7. sessions[i] = TransportKey
    BY <1>0, <1>a, <2>1, <2>6 DEF NoStaleEntry, Rows
  <2>8. \A r \in attributing' : r \in attributing \/ (r.id = i /\ r.key = key)
    BY <2>1
  <2>9. NoStaleEntry'
    <3>1. \A j \in Ids : sessions'[j] # TransportKey => j <= seq' \/ queue'[j] # NoTask \/ (Moving' /\ j = worker'.id)
      BY <1>0, <1>a, <2>1, <2>2, <2>3, <2>5, <2>7 DEF NoStaleEntry
    <3>2. Moving => /\ worker.to \in Ids /\ worker.id < worker.to
                    /\ worker.to <= seq' \/ queue'[worker.to] # NoTask
                    /\ queue'[worker.to] # NoTask => queue'[worker.to].kind \in Derived
      BY <1>0, <1>a, <2>1, <2>3, <2>6 DEF NoStaleEntry
    <3>3. \A r \in attributing' : r.id <= seq'
      BY <1>0, <1>a, <2>1, <2>8 DEF NoStaleEntry
    <3> QED
      BY <2>2, <2>5, <3>1, <3>2, <3>3 DEF NoStaleEntry
  <2>10. ASSUME NEW j \in Ids, NEW s, j # i, OwnSession(j, s)
         PROVE  /\ j <= seq' /\ sessions'[j] \in {s.key, TransportKey}
                /\ \A r \in attributing' : r.id = j => r.key = s.key
    BY <1>a, <2>1, <2>2, <2>8, <2>10 DEF OwnSession
  <2>11. RowsOwned'
    <3>1. ASSUME NEW j \in Rows', queue'[j].kind \notin Derived
          PROVE  /\ j <= seq' /\ sessions'[j] \in {queue'[j].key, TransportKey}
                 /\ \A r \in attributing' : r.id = j => r.key = queue'[j].key
      <4>1. CASE j = i
        BY <1>0, <1>a, <2>1, <2>2, <2>3, <2>7, <2>8, <4>1 DEF NoStaleEntry
      <4>2. CASE j # i
        BY <1>0, <1>b, <2>4, <2>10, <3>1, <4>2 DEF RowsOwned
      <4> QED
        BY <4>1, <4>2
    <3> QED
      BY <3>1 DEF RowsOwned, OwnSession
  <2>12. GateOwned'
    <3>1. ASSUME worker.pc = "gate", worker.task.kind \notin Derived
          PROVE  /\ worker.id <= seq' /\ sessions'[worker.id] \in {worker.task.key, TransportKey}
                 /\ \A r \in attributing' : r.id = worker.id => r.key = worker.task.key
      <4>1. OwnSession(worker.id, worker.task) /\ worker.id \in Ids
        BY <1>0, <1>c, <3>1 DEF GateOwned, Holding
      <4>2. worker.id # i
        BY <1>a, <2>1, <4>1 DEF OwnSession
      <4> QED
        BY <2>10, <4>1, <4>2
    <3> QED
      BY <2>2, <3>1 DEF GateOwned, OwnSession
  <2> QED
    BY <1>0, <2>2, <2>9, <2>11, <2>12 DEF DropOwned
<1>3. ASSUME NEW r \in attributing, Remember(r)
      PROVE  Owned'
  <2>1. UNCHANGED <<queue, seq, worker>> /\ sessions' = Remembered(sessions, r.id, r.key) /\ attributing' \subseteq attributing
    BY <1>3 DEF Remember
  <2>2. r.id \in Ids /\ r.id <= seq
    BY <1>0, <1>a DEF NoStaleEntry
  <2>3. \A j \in Ids : (j = r.id => sessions'[j] = r.key) /\ (j # r.id => sessions'[j] \in {sessions[j], TransportKey})
    <3> DEFINE k == r.id
               new == sessions'
    <3>1. k \in Ids /\ new = Remembered(sessions, k, r.key)
      BY <2>1, <2>2
    <3>2. \A j \in Ids : (j = k => new[j] = r.key) /\ (j # k => new[j] \in {sessions[j], TransportKey})
      <4> HIDE DEF k, new
      <4> QED
        BY <3>1, RememberedAt
    <3> QED
      BY <3>2
  <2>4. Rows' = Rows /\ (Moving' <=> Moving)
    BY <2>1 DEF Rows, Moving
  <2>5. NoStaleEntry'
    BY <1>0, <2>1, <2>2, <2>3, <2>4 DEF NoStaleEntry
  <2>6. ASSUME NEW j \in Ids, NEW s, OwnSession(j, s)
        PROVE  /\ j <= seq' /\ sessions'[j] \in {s.key, TransportKey}
               /\ \A q \in attributing' : q.id = j => q.key = s.key
    BY <2>1, <2>3, <2>6 DEF OwnSession
  <2>7. RowsOwned'
    BY <1>0, <1>b, <2>1, <2>4, <2>6 DEF RowsOwned, OwnSession
  <2>8. GateOwned'
    BY <1>0, <1>c, <2>1, <2>6 DEF GateOwned, OwnSession, Holding
  <2> QED
    BY <1>0, <2>1, <2>5, <2>7, <2>8 DEF DropOwned
<1>4. ASSUME NEW ids \in SUBSET Rows, NEW how, how # "unborn", Remove(ids, how)
      PROVE  Owned'
  <2>1. Rows' = Rows \ ids /\ (\A i \in Rows' : queue'[i] = queue[i]) /\ (\A i \in Ids \ ids : queue'[i] = queue[i])
    BY <1>4, Removal
  <2>2. UNCHANGED <<seq, sessions, worker, attributing>> /\ used'.astray = Astray(ids)
    BY <1>4 DEF Remove, TypeOK
  <2>3. \A i \in ids : ~(i > seq)
    BY <2>2, Zenon DEF Astray
  <2>4. \A i \in ids : i <= seq /\ i \in Ids
    BY <1>a, <1>b, <2>3
  <2>5. Moving' <=> Moving
    BY <2>2 DEF Moving
  <2>6. NoStaleEntry'
    <3>1. \A i \in Ids : queue[i] # NoTask => queue'[i] # NoTask \/ i <= seq
      BY <2>1, <2>4 DEF Rows
    <3>2. \A i \in Ids : queue'[i] # NoTask => queue'[i] = queue[i]
      BY <2>1 DEF Rows
    <3> QED
      BY <1>0, <2>2, <2>5, <3>1, <3>2 DEF NoStaleEntry
  <2>7. RowsOwned' /\ GateOwned' /\ DropOwned'
    BY <1>0, <2>1, <2>2 DEF RowsOwned, GateOwned, DropOwned, OwnSession
  <2> QED
    BY <2>6, <2>7
<1>5. CASE Fetch
  <2>1. UNCHANGED <<queue, seq, sessions, attributing>> /\ Rows' = Rows /\ worker.pc = "fetch"
    BY <1>5 DEF Fetch, Rows, At
  <2>2. RowsOwned'
    BY <1>0, <2>1 DEF RowsOwned, OwnSession
  <2>3. CASE Rows = {}
    <3>1. worker'.pc = "held"
      BY <1>5, <2>3 DEF Fetch, Go, TypeOK
    <3> QED
      BY <1>0, <2>1, <2>2, <3>1 DEF NoStaleEntry, Moving, GateOwned, DropOwned
  <2>4. CASE Rows # {}
    <3> DEFINE i == Min(Rows)
    <3>1. i \in Rows
      BY <2>4, LowestRow
    <3>2. worker' = [worker EXCEPT !.pc = IF queue[i].kind = "poison" THEN "drop" ELSE "gate", !.id = i, !.task = queue[i]]
      BY <1>5, <2>4 DEF Fetch
    <3> HIDE DEF i
    <3>3. worker'.id = i /\ worker'.task = queue[i] /\ worker'.pc = IF queue[i].kind = "poison" THEN "drop" ELSE "gate"
      BY <3>2 DEF TypeOK
    <3>4. NoStaleEntry'
      BY <1>0, <2>1, <3>3 DEF NoStaleEntry, Moving
    <3>5. GateOwned' /\ DropOwned'
      BY <1>0, <2>1, <3>1, <3>3 DEF GateOwned, DropOwned, RowsOwned, OwnSession
    <3> QED
      BY <2>2, <3>4, <3>5
  <2> QED
    BY <2>3, <2>4
<1>6. CASE Gate
  <2>1. UNCHANGED <<queue, seq, sessions, attributing>> /\ Rows' = Rows /\ worker.pc = "gate"
    BY <1>6 DEF Gate, Rows, At
  <2>2. /\ worker'.pc \in {"drop", "run"} /\ worker'.task = worker.task /\ worker'.key = sessions[worker.id]
        /\ worker'.pc = "drop" => worker.task.kind \notin Derived
    BY <1>6 DEF Gate, TypeOK
  <2> QED
    BY <1>0, <2>1, <2>2 DEF NoStaleEntry, RowsOwned, GateOwned, DropOwned, OwnSession, Moving
<1>7. ASSUME UNCHANGED <<queue, seq, attributing>>, worker'.pc \notin {"gate", "drop", "reattribute"},
             worker.pc # "reattribute", \A i \in Ids : sessions'[i] \in {sessions[i], TransportKey}
      PROVE  Owned'
  <2>1. Rows' = Rows /\ ~Moving /\ ~Moving'
    BY <1>7 DEF Rows, Moving
  <2>2. NoStaleEntry'
    BY <1>0, <1>7, <2>1 DEF NoStaleEntry
  <2>3. RowsOwned'
    <3>1. ASSUME NEW i \in Rows, queue[i].kind \notin Derived
          PROVE  i <= seq /\ sessions'[i] \in {queue[i].key, TransportKey} /\ \A r \in attributing : r.id = i => r.key = queue[i].key
      BY <1>0, <1>7, <1>b, <3>1 DEF RowsOwned, OwnSession
    <3> QED
      BY <1>7, <2>1, <3>1 DEF RowsOwned, OwnSession
  <2> QED
    BY <1>7, <2>2, <2>3 DEF GateOwned, DropOwned
<1>8. CASE Wake \/ HandlerReturns \/ HandlerRaises \/ FinishRaises \/ OnFailure \/ TakeHeld \/ SelectLive \/ ForgetVanished
           \/ Abort
  <2>1. UNCHANGED <<queue, seq, attributing>> /\ \A i \in Ids : sessions'[i] \in {sessions[i], TransportKey}
    BY <1>8 DEF Wake, HandlerReturns, HandlerRaises, FinishRaises, OnFailure, TakeHeld, SelectLive, ForgetVanished, Abort, Forgotten
  <2>2. worker'.pc \notin {"gate", "drop", "reattribute"} /\ worker.pc # "reattribute"
    <3>1. CASE Wake \/ HandlerReturns \/ HandlerRaises
      BY <3>1 DEF Wake, HandlerReturns, HandlerRaises, Go, At, TypeOK
    <3>2. CASE FinishRaises \/ OnFailure
      BY <3>2 DEF FinishRaises, OnFailure, Go, At, TypeOK
    <3>3. CASE TakeHeld \/ SelectLive
      BY <3>3 DEF TakeHeld, SelectLive, At, TypeOK
    <3>4. CASE ForgetVanished
      BY <3>4 DEF ForgetVanished, NoWork, At
    <3>5. CASE Abort
      BY <3>5 DEF Abort, NoWork, TypeOK
    <3> QED
      BY <1>8, <3>1, <3>2, <3>3, <3>4, <3>5
  <2> QED
    BY <1>7, <2>1, <2>2
<1>9. ASSUME NEW how, how # "unborn", worker.pc \in Holding, DeleteTask(how)
      PROVE  Owned'
  <2>1. Rows' = Rows \ {worker.id} /\ \A i \in Rows' : queue'[i] = queue[i]
    BY <1>9, Deletion
  <2>2. UNCHANGED <<seq, attributing>> /\ worker'.pc = "fetch" /\ sessions' = Forgotten({worker.id})
    BY <1>9 DEF DeleteTask, Go, TypeOK
  <2>3. \A i \in Ids : IF i = worker.id THEN sessions'[i] = TransportKey ELSE sessions'[i] = sessions[i]
    BY <2>2 DEF Forgotten
  <2>4. ~Moving /\ ~Moving'
    BY <1>9, <2>2 DEF Moving, Holding
  <2>5. NoStaleEntry'
    BY <1>0, <2>1, <2>2, <2>3, <2>4 DEF NoStaleEntry, Rows
  <2>6. RowsOwned'
    <3>1. ASSUME NEW i \in Rows', queue'[i].kind \notin Derived
          PROVE  i <= seq /\ sessions'[i] \in {queue'[i].key, TransportKey} /\ \A r \in attributing : r.id = i => r.key = queue'[i].key
      BY <1>0, <1>b, <2>1, <2>3, <3>1 DEF RowsOwned, OwnSession
    <3> QED
      BY <2>2, <3>1 DEF RowsOwned, OwnSession
  <2> QED
    BY <2>2, <2>5, <2>6 DEF GateOwned, DropOwned
<1>10. CASE Retry
  <2>1. UNCHANGED <<seq, sessions, attributing>> /\ worker.pc = "retry" /\ worker'.pc = "fetch"
    BY <1>10 DEF Retry, Go, At, TypeOK
  <2>2. Rows' = Rows /\ \A i \in Rows : queue'[i].kind = queue[i].kind /\ queue'[i].key = queue[i].key
    <3>1. CASE queue' = queue
      BY <3>1 DEF Rows
    <3>2. CASE worker.id \in Rows /\ Rows' = Rows /\ \E t : queue' = [queue EXCEPT ![worker.id] = t] /\ Recounted(t)
      BY <3>2 DEF Rows, TypeOK, Recounted
    <3> QED
      BY <1>10, <3>1, <3>2, RetryCounts
  <2>3. ~Moving /\ ~Moving'
    BY <2>1 DEF Moving
  <2>4. NoStaleEntry'
    <3>1. \A i \in Ids : queue[i] # NoTask <=> queue'[i] # NoTask
      BY <2>2 DEF Rows
    <3> QED
      BY <1>0, <2>1, <2>3, <3>1 DEF NoStaleEntry
  <2> QED
    BY <1>0, <2>1, <2>2, <2>4 DEF GateOwned, DropOwned, RowsOwned, OwnSession
<1>11. CASE Requeue
  <2>1. UNCHANGED <<seq, sessions, attributing>> /\ worker.pc = "requeue" /\ worker'.id = worker.id
    BY <1>11 DEF Requeue, At, TypeOK
  <2>2. ~Moving /\ worker.pc \in Holding /\ worker.task.kind \in Derived
    BY <2>1 DEF Moving, Holding, Held
  <2>3. CASE worker.id \notin Rows /\ queue' = queue /\ worker' = [worker EXCEPT !.pc = "reattribute", !.to = 0]
    <3>1. worker'.pc = "reattribute" /\ worker'.to = 0
      BY <2>3 DEF TypeOK
    <3> QED
      BY <1>0, <2>1, <2>2, <2>3, <3>1 DEF NoStaleEntry, RowsOwned, GateOwned, DropOwned, OwnSession, Moving, Rows
  <2>4. CASE /\ worker.id \in Rows /\ Rows' = (Rows \ {worker.id}) \cup {Top + 1} /\ worker.id < Top + 1
             /\ Top + 1 \in Ids /\ Top + 1 \notin Rows
             /\ worker' = [worker EXCEPT !.pc = "reattribute", !.to = Top + 1]
             /\ \A i \in Rows \ {worker.id} : queue'[i] = queue[i]
             /\ queue'[worker.id] = NoTask
             /\ Recounted(queue'[Top + 1])
    <3>1. PICK k \in Ids : k = Top + 1
      BY <2>4
    <3>2. worker'.pc = "reattribute" /\ worker'.to = k
      BY <2>4, <3>1 DEF TypeOK
    <3>3. queue'[k].kind \in Derived /\ queue'[k] # NoTask
      <4>1. queue[worker.id] = worker.task
        BY <1>z, <2>2, <2>4, HeldIsRow
      <4> QED
        BY <2>2, <2>4, <3>1, <4>1, NoTaskAssumption DEF Recounted
    <3>4. worker.id < k /\ \A i \in Rows : i # worker.id => queue'[i] # NoTask
      BY <1>b, <2>4, <3>1
    <3>5. NoStaleEntry'
      <4>1. \A i \in Ids : sessions[i] # TransportKey => i <= seq \/ queue'[i] # NoTask \/ i = worker.id
        BY <1>0, <2>2, <3>4 DEF NoStaleEntry, Rows
      <4> QED
        BY <1>0, <1>a, <2>1, <3>1, <3>2, <3>3, <3>4, <4>1 DEF NoStaleEntry, Moving
    <3>6. RowsOwned'
      <4>1. \A i \in Rows' : queue'[i].kind \notin Derived => i \in Rows /\ queue'[i] = queue[i]
        BY <2>4, <3>1, <3>3
      <4> QED
        BY <1>0, <2>1, <4>1 DEF RowsOwned, OwnSession
    <3> QED
      BY <3>2, <3>5, <3>6 DEF GateOwned, DropOwned
  <2> QED
    BY <1>11, <2>3, <2>4, RequeueMoves
<1>12. CASE Reattribute
  <2>1. UNCHANGED <<queue, seq, attributing>> /\ worker.pc = "reattribute" /\ worker'.pc = "fetch" /\ Rows' = Rows
    BY <1>12 DEF Reattribute, Go, At, TypeOK, Rows
  <2>2. ~Moving' /\ (Moving <=> worker.to # 0)
    BY <2>1 DEF Moving
  <2>3. \A i \in Ids : \/ sessions'[i] = TransportKey
                       \/ sessions'[i] = sessions[i] /\ i # worker.id
                       \/ Moving /\ i = worker.to
    <3>1. CASE sessions' = Forgotten({worker.id})
      BY <3>1 DEF Forgotten
    <3>2. CASE Moving /\ sessions' = Remembered(Forgotten({worker.id}), worker.to, sessions[worker.id])
      <4>1. worker.to \in Ids
        BY <1>0, <3>2 DEF NoStaleEntry
      <4>2. \A j \in Ids : j # worker.to => sessions'[j] \in {Forgotten({worker.id})[j], TransportKey}
        BY <3>2, <4>1, RememberedAt
      <4> QED
        BY <3>2, <4>2 DEF Forgotten
    <3> QED
      BY <1>12, <2>2, <3>1, <3>2 DEF Reattribute
  <2>4. NoStaleEntry'
    BY <1>0, <2>1, <2>2, <2>3 DEF NoStaleEntry
  <2>5. RowsOwned'
    <3>1. ASSUME NEW i \in Rows, queue[i].kind \notin Derived
          PROVE  i <= seq /\ sessions'[i] \in {queue[i].key, TransportKey} /\ \A r \in attributing : r.id = i => r.key = queue[i].key
      <4>1. ~(Moving /\ i = worker.to)
        BY <1>0, <1>b, <3>1 DEF NoStaleEntry
      <4> QED
        BY <1>0, <1>b, <2>3, <3>1, <4>1 DEF RowsOwned, OwnSession
    <3> QED
      BY <2>1, <3>1 DEF RowsOwned, OwnSession
  <2> QED
    BY <2>1, <2>4, <2>5 DEF GateOwned, DropOwned
<1>13. CASE Restart
  <2>1. /\ UNCHANGED <<queue, seq>> /\ worker'.pc = "wait" /\ attributing' = {}
        /\ \A i \in Ids : sessions'[i] = TransportKey
    BY <1>13 DEF Restart, NoWork
  <2> QED
    <3>1. ~Moving' /\ Rows' = Rows
      BY <2>1 DEF Moving, Rows
    <3>2. RowsOwned'
      <4>1. \A i \in Rows : queue[i].kind \notin Derived => i <= seq
        BY <1>0 DEF RowsOwned, OwnSession
      <4> QED
        BY <1>b, <2>1, <3>1, <4>1 DEF RowsOwned, OwnSession
    <3> QED
      BY <2>1, <3>1, <3>2 DEF NoStaleEntry, GateOwned, DropOwned
<1>14. ASSUME NEW agent \in Agents, DeleteAgentRows(agent)
       PROVE  Owned'
  BY <1>4, <1>14 DEF DeleteAgentRows
<1>15. ASSUME NEW agent \in Agents, NEW u \in Uids, ClearStale(agent, u)
       PROVE  Owned'
  BY <1>4, <1>15 DEF ClearStale
<1>16. CASE Finish \/ Drop \/ Discard
  BY <1>9, <1>16 DEF Finish, Drop, Discard, Holding, At
<1>17. ASSUME NEW key \in AnyKey, Pause(key) \/ Unpause(key)
       PROVE  Owned'
  BY <1>1, <1>17 DEF Pause, Unpause
<1>18. CASE UNCHANGED vars
  BY <1>1, <1>18 DEF vars
<1> HIDE DEF Owned
<1> QED
  BY <1>2, <1>3, <1>5, <1>6, <1>8, <1>10, <1>11, <1>12, <1>13, <1>14, <1>15, <1>16, <1>17, <1>18 DEF Next, WorkerStep

\* A paused session's queued write is the only one its pause drops.
THEOREM PausesDropTheirOwn == Spec => []DroppedByOwnPause
<1>1. Init => Attribution
  BY AttributionInit
<1>2. Sound /\ Attribution /\ [Next]_vars => Attribution'
  BY AttributionStep
<1>3. Attribution => DroppedByOwnPause
  BY DEF Attribution, DropOwned, DroppedByOwnPause, At
<1> QED
  BY <1>1, <1>2, <1>3, QueueIsSound, PTL DEF Spec

----------------------------------------------------------------------------
(* Writes pass failing builds                                              *)

\* It holds before any build.
LEMMA PassingInit == Init => Passing
  BY DEF Init, Passing, Waiting, Rows

\* A write finds the failures of every build where they were when it was enqueued: a
\* build that fails in front of it is moved behind it before it runs again.
LEMMA PassingStep == Sound /\ Passing /\ [Next]_vars => Passing'
<1> DEFINE Passed(i) ==
             /\ \A u \in builds : fails[u] <= queue[i].since[u] + 1 + Mishaps
             /\ \A j \in Rows : j < i /\ queue[j].kind \in Derived =>
                   fails[queue[j].uid] <= queue[i].since[queue[j].uid] + Mishaps + Pending(queue[j].uid)
             /\ worker.pc \in Holding /\ worker.task.kind \in Derived =>
                   fails[worker.task.uid] <= queue[i].since[worker.task.uid] + Mishaps + Pending(worker.task.uid)
<1> SUFFICES ASSUME Sound, Passing, [Next]_vars, ~used'.astray, NEW i \in Ids, Waiting(i)'
             PROVE  Passed(i)'
  BY DEF Passing
<1> USE DEF Sound
<1>z. ~used.astray
  BY AstrayStays
<1>0. Waiting(i) => Passed(i)
  BY <1>z DEF Passing
<1>a. /\ Mishaps \in Nat /\ (\A u \in Uids : fails[u] \in Nat) /\ (\A u : Pending(u) \in {0, 1}) /\ builds \subseteq Uids
      /\ i \in Nat
  <2>1. used.restarts \in Nat /\ used.faults \in Nat
    BY QueueConstants DEF TypeOK
  <2>2. fails \in [Uids -> Nat] /\ builds \subseteq Uids
    BY DEF TypeOK
  <2>3. \A u : Pending(u) \in {0, 1}
    BY DEF Pending
  <2> QED
    BY <2>1, <2>2, <2>3, QueueConstants DEF Mishaps, Ids
<1>b. \A j \in Rows : j \in Ids /\ j \in Nat /\ queue[j].uid \in Uids /\ \A u \in Uids : queue[j].since[u] \in Nat
  BY QueueConstants DEF Rows, TypeOK, Task, Ids
<1>c. worker.pc \in Holding => worker.id \in Ids /\ worker.task.uid \in Uids
  BY DEF Held, Task
<1>d. \A j \in Rows : queue[j].uid \in builds <=> queue[j].kind \in Derived
  BY DEF Numbering
<1>1. CASE UNCHANGED <<queue, fails, builds, worker>> /\ Mishaps' = Mishaps
  <2>1. Rows' = Rows /\ (Waiting(i)' <=> Waiting(i)) /\ \A u : Pending(u)' = Pending(u)
    BY <1>1 DEF Rows, Waiting, Pending
  <2> QED
    BY <1>0, <1>1, <2>1
<1>2. ASSUME NEW kind \in Kinds, NEW agent \in Agents, NEW key \in AnyKey, Enqueue(kind, agent, key)
      PROVE  Passed(i)'
  <2>1. PICK k \in Ids, u \in Uids, t \in Task :
              /\ (\A j \in Rows : j < k) /\ k \notin Rows /\ ~Born(u)
              /\ t.uid = u /\ t.kind = kind
              /\ t.since = IF kind \in Derived THEN [v \in Uids |-> 0] ELSE fails
              /\ queue' = [queue EXCEPT ![k] = t]
              /\ builds' = IF kind \in Derived THEN builds \cup {u} ELSE builds
    BY <1>2, Newborn
  <2>2. UNCHANGED <<worker, fails, used>> /\ fails[u] = 0
    BY <1>2, <2>1 DEF Enqueue, Numbering
  <2>3. queue'[k] = t /\ (\A j \in Rows : queue'[j] = queue[j]) /\ Rows' \subseteq Rows \cup {k}
    BY <2>1 DEF Rows, TypeOK
  <2>4. Mishaps' = Mishaps /\ \A v : Pending(v)' = Pending(v)
    BY <2>2 DEF Mishaps, Pending
  <2>5. builds' \subseteq builds \cup {u}
    BY <2>1
  <2>6. CASE i = k
    <3>1. queue'[i].since = fails
      BY <2>1, <2>3, <2>6 DEF Waiting
    <3>2. \A v \in Uids : fails[v] <= fails[v] + 1 + Mishaps /\ \A p \in {0, 1} : fails[v] <= fails[v] + Mishaps + p
      BY <1>a
    <3>3. \A v \in builds' : fails'[v] <= queue'[i].since[v] + 1 + Mishaps'
      BY <1>a, <2>2, <2>4, <2>5, <3>1, <3>2
    <3>4. \A j \in Rows' : queue'[j].uid \in Uids
      BY <1>b, <2>1, <2>3
    <3>5. (\A j \in Rows : j < i /\ queue[j].kind \in Derived =>
              fails[queue[j].uid] <= queue[i].since[queue[j].uid] + Mishaps + Pending(queue[j].uid))'
      BY <1>a, <2>2, <2>4, <3>1, <3>2, <3>4
    <3>6. (worker.pc \in Holding /\ worker.task.kind \in Derived =>
              fails[worker.task.uid] <= queue[i].since[worker.task.uid] + Mishaps + Pending(worker.task.uid))'
      BY <1>a, <1>c, <2>2, <2>4, <3>1, <3>2
    <3> QED
      BY <3>3, <3>5, <3>6
  <2>7. CASE i # k
    <3>1. i \in Rows /\ queue'[i] = queue[i] /\ Waiting(i)
      BY <2>2, <2>3, <2>7 DEF Waiting
    <3>2. i < k
      BY <2>1, <3>1
    <3>3. \A v \in builds' : fails'[v] <= queue'[i].since[v] + 1 + Mishaps'
      BY <1>0, <1>a, <1>b, <2>2, <2>4, <2>5, <3>1
    <3>4. \A j \in Rows' : j < i => j \in Rows /\ queue'[j] = queue[j]
      BY <1>a, <2>1, <2>3, <3>2 DEF Ids
    <3>5. (\A j \in Rows : j < i /\ queue[j].kind \in Derived =>
              fails[queue[j].uid] <= queue[i].since[queue[j].uid] + Mishaps + Pending(queue[j].uid))'
      BY <1>0, <2>2, <2>4, <3>1, <3>4
    <3>6. (worker.pc \in Holding /\ worker.task.kind \in Derived =>
              fails[worker.task.uid] <= queue[i].since[worker.task.uid] + Mishaps + Pending(worker.task.uid))'
      BY <1>0, <2>2, <2>4, <3>1
    <3> QED
      BY <3>3, <3>5, <3>6
  <2> QED
    BY <2>6, <2>7
<1>3. ASSUME UNCHANGED <<fails, builds>>, Mishaps' = Mishaps,
             \* rows are kept, or moved behind the write, or gone
             \A j \in Rows' : j <= i => j \in Rows /\ queue'[j].uid = queue[j].uid /\ queue'[j].kind = queue[j].kind
                                          /\ queue'[j].since = queue[j].since,
             \A j \in Rows' : j < i /\ queue[j].kind \in Derived => Pending(queue[j].uid) <= (Pending(queue[j].uid))',
             worker'.pc \notin Holding \/ worker' = worker
      PROVE  Passed(i)'
  <2>1. i \in Rows' /\ i \in Rows /\ Waiting(i) /\ queue'[i].since = queue[i].since
    BY <1>3, <1>a DEF Waiting
  <2>2. \A v \in builds' : fails'[v] <= queue'[i].since[v] + 1 + Mishaps'
    BY <1>0, <1>3, <2>1
  <2>3. (\A j \in Rows : j < i /\ queue[j].kind \in Derived =>
              fails[queue[j].uid] <= queue[i].since[queue[j].uid] + Mishaps + Pending(queue[j].uid))'
    <3> SUFFICES ASSUME NEW j \in Rows', j < i, queue'[j].kind \in Derived
                 PROVE  fails'[queue'[j].uid] <= queue'[i].since[queue'[j].uid] + Mishaps' + (Pending(queue[j].uid))'
      OBVIOUS
    <3>1. j \in Rows /\ queue'[j].uid = queue[j].uid /\ queue[j].kind \in Derived
      BY <1>3, <1>a DEF Rows, Ids
    <3>2. fails[queue[j].uid] <= queue[i].since[queue[j].uid] + Mishaps + Pending(queue[j].uid)
      BY <1>0, <2>1, <3>1
    <3>3. (Pending(queue[j].uid))' \in {0, 1}
      BY DEF Pending
    <3> QED
      BY <1>3, <1>a, <1>b, <2>1, <3>1, <3>2, <3>3
  <2>4. (worker.pc \in Holding /\ worker.task.kind \in Derived =>
              fails[worker.task.uid] <= queue[i].since[worker.task.uid] + Mishaps + Pending(worker.task.uid))'
    <3>1. CASE worker'.pc \notin Holding
      BY <3>1
    <3>2. CASE worker' = worker
      <4>1. \A u : Pending(u)' = Pending(u)
        BY <3>2 DEF Pending
      <4> QED
        BY <1>0, <1>3, <2>1, <3>2, <4>1
    <3> QED
      BY <1>3, <3>1, <3>2
  <2> QED
    BY <2>2, <2>3, <2>4
<1>4. ASSUME NEW ids \in SUBSET Rows, NEW how, how # "unborn", Remove(ids, how)
      PROVE  Passed(i)'
  <2>1. Rows' \subseteq Rows /\ \A j \in Rows' : queue'[j] = queue[j]
    BY <1>4, Removal
  <2>2. UNCHANGED <<worker, fails, builds>> /\ used'.restarts = used.restarts /\ used'.faults = used.faults
    BY <1>4 DEF Remove, TypeOK
  <2>3. Mishaps' = Mishaps /\ \A u : Pending(u)' = Pending(u)
    BY <2>2 DEF Mishaps, Pending
  <2>4. \A j \in Rows' : Pending(queue[j].uid) <= (Pending(queue[j].uid))'
    BY <1>a, <2>1, <2>3
  <2> QED
    BY <1>3, <2>1, <2>2, <2>3, <2>4
<1>5. CASE Fetch
  <2>1. UNCHANGED <<queue, fails, builds, used>> /\ Rows' = Rows /\ Mishaps' = Mishaps /\ worker.pc = "fetch"
    BY <1>5 DEF Fetch, Rows, Mishaps, At
  <2>2. Rows # {} /\ i \in Rows /\ Waiting(i)
    BY <2>1 DEF Waiting
  <2> DEFINE k == Min(Rows)
  <2>3. k \in Rows /\ k <= i
    BY <2>2, LowestRow
  <2>4. worker' = [worker EXCEPT !.pc = IF queue[k].kind = "poison" THEN "drop" ELSE "gate", !.id = k, !.task = queue[k]]
    BY <1>5, <2>2 DEF Fetch
  <2> HIDE DEF k
  <2>5. worker'.task = queue[k] /\ worker'.pc \in {"drop", "gate"}
    BY <2>4 DEF TypeOK
  <2>6. \A u : Pending(u)' = 0 /\ Pending(u) = 0
    BY <2>1, <2>5 DEF Pending
  <2>7. queue[k].kind \in Derived => fails[queue[k].uid] <= queue[i].since[queue[k].uid] + Mishaps + 0
    <3>1. queue[k].kind \in Derived => k # i
      BY <2>2 DEF Waiting
    <3>2. Pending(queue[k].uid) = 0
      BY <2>6
    <3>3. k \in Rows /\ k \in Nat /\ k <= i /\ i \in Nat
      BY <1>a, <1>b, <2>3
    <3>4. CASE queue[k].kind \in Derived
      <4>1. k < i
        BY <3>1, <3>3, <3>4
      <4> QED
        BY <1>0, <2>2, <3>2, <3>3, <3>4, <4>1
    <3> QED
      BY <3>4
  <2>8. (worker.pc \in Holding /\ worker.task.kind \in Derived =>
              fails[worker.task.uid] <= queue[i].since[worker.task.uid] + Mishaps + Pending(worker.task.uid))'
    BY <2>1, <2>5, <2>6, <2>7
  <2> QED
    BY <1>0, <2>1, <2>2, <2>6, <2>8
<1>6. CASE Gate \/ HandlerReturns
  <2>1. /\ UNCHANGED <<queue, fails, builds, used>> /\ worker.pc \in Holding /\ worker'.task = worker.task
        /\ worker.pc \notin {"fail", "discard", "requeue"} /\ worker'.pc \notin {"fail", "discard", "requeue"}
    BY <1>6 DEF Gate, HandlerReturns, Go, At, Holding, TypeOK
  <2>2. Rows' = Rows /\ Mishaps' = Mishaps /\ Waiting(i) /\ \A u : Pending(u)' = 0 /\ Pending(u) = 0
    BY <2>1 DEF Rows, Mishaps, Pending, Waiting
  <2> QED
    BY <1>0, <2>1, <2>2
<1>7. CASE HandlerRaises \/ FinishRaises
  <2>1. /\ UNCHANGED <<queue, builds>> /\ worker.pc \in {"run", "finish"} /\ worker'.pc = "fail"
        /\ worker'.task = worker.task /\ fails' = Failed(worker.task.uid)
        /\ used'.restarts = used.restarts /\ (used'.faults = used.faults \/ used'.faults = used.faults + 1)
    BY <1>7 DEF HandlerRaises, FinishRaises, Go, At, TypeOK
  <2>2. worker.pc \in Holding /\ Mishaps' \in Nat /\ Mishaps <= Mishaps' /\ Rows' = Rows
    BY <2>1, QueueConstants DEF Holding, Mishaps, TypeOK, Rows
  <2>3. PICK w \in Uids : w = worker.task.uid
    BY <1>c, <2>2
  <2>4. fails'[w] = fails[w] + 1 /\ \A u \in Uids \ {w} : fails'[u] = fails[u]
    BY <2>1, <2>3 DEF Failed, TypeOK
  <2>5. (\A u : Pending(u)' = IF u = w THEN 1 ELSE 0) /\ \A u : Pending(u) = 0
    BY <2>1, <2>3 DEF Pending
  <2>6. i \in Rows /\ queue[i].uid # w /\ Waiting(i)
    <3>1. i \in Rows /\ queue[i].kind \notin Derived /\ fails'[queue[i].uid] = 0
      BY <2>1, <2>2 DEF Waiting
    <3>2. queue[i].uid # w
      BY <1>a, <2>4, <3>1
    <3> QED
      BY <1>b, <2>4, <3>1, <3>2 DEF Waiting
  <2>7. \A u \in Uids : queue[i].since[u] \in Nat
    BY <1>b, <2>6
  <2>8. w \in builds => fails[w] <= queue[i].since[w] + Mishaps
    <3>1. w \in builds => worker.task.kind \in Derived
      BY <2>2, <2>3 DEF Held
    <3> QED
      BY <1>0, <1>a, <2>2, <2>3, <2>5, <2>6, <2>7, <3>1
  <2>9. \A u \in builds : fails'[u] <= queue[i].since[u] + 1 + Mishaps'
    <3> SUFFICES ASSUME NEW u \in builds PROVE fails'[u] <= queue[i].since[u] + 1 + Mishaps'
      OBVIOUS
    <3>1. u \in Uids /\ fails[u] <= queue[i].since[u] + 1 + Mishaps
      BY <1>0, <1>a, <2>6
    <3>2. CASE u = w
      BY <1>a, <2>2, <2>4, <2>7, <2>8, <3>1, <3>2
    <3>3. CASE u # w
      BY <1>a, <2>2, <2>4, <2>7, <3>1, <3>3
    <3> QED
      BY <3>2, <3>3
  <2>10. ASSUME NEW j \in Rows, j < i, queue[j].kind \in Derived
         PROVE  fails'[queue[j].uid] <= queue[i].since[queue[j].uid] + Mishaps' + (IF queue[j].uid = w THEN 1 ELSE 0)
    <3>1. fails[queue[j].uid] <= queue[i].since[queue[j].uid] + Mishaps + 0
      BY <1>0, <2>5, <2>6, <2>10
    <3>2. queue[j].uid \in Uids
      BY <1>b
    <3> QED
      BY <1>a, <2>2, <2>4, <2>7, <3>1, <3>2
  <2>11. (\A j \in Rows : j < i /\ queue[j].kind \in Derived =>
              fails[queue[j].uid] <= queue[i].since[queue[j].uid] + Mishaps + Pending(queue[j].uid))'
    BY <2>1, <2>2, <2>5, <2>10
  <2>12. (worker.pc \in Holding /\ worker.task.kind \in Derived =>
              fails[worker.task.uid] <= queue[i].since[worker.task.uid] + Mishaps + Pending(worker.task.uid))'
    <3>1. worker.task.kind \in Derived => w \in builds
      BY <2>2, <2>3 DEF Held
    <3>2. w \in builds => fails'[w] <= queue[i].since[w] + Mishaps' + 1
      BY <1>a, <2>2, <2>4, <2>7, <2>8
    <3> QED
      BY <2>1, <2>3, <2>5, <3>1, <3>2
  <2> QED
    BY <2>1, <2>9, <2>11, <2>12
<1>8. CASE OnFailure
  <2>1. /\ UNCHANGED <<queue, fails, builds, used>> /\ worker.pc = "fail" /\ worker'.task = worker.task
        /\ worker'.pc = IF worker.task.retries + 1 >= MaxRetries THEN "discard"
                        ELSE IF worker.task.kind \in Derived /\ OtherWorkWaits THEN "requeue" ELSE "retry"
    BY <1>8 DEF OnFailure, Go, At, TypeOK
  <2>2. Rows' = Rows /\ Mishaps' = Mishaps /\ Waiting(i) /\ i \in Rows /\ worker.pc \in Holding
    BY <2>1 DEF Rows, Mishaps, Waiting, Holding
  <2>3. CASE worker.task.kind \in Derived
    <3>1. i # worker.id
      BY <1>z, <2>2, <2>3, HeldIsRow DEF Waiting
    <3>2. OtherWorkWaits
      BY <2>2, <3>1 DEF OtherWorkWaits, Waiting
    <3>3. worker'.pc \in {"discard", "requeue"}
      BY <2>1, <2>3, <3>2
    <3>4. \A u : Pending(u)' = Pending(u)
      BY <2>1, <3>3 DEF Pending
    <3> QED
      BY <1>0, <2>1, <2>2, <3>4
  <2>4. CASE worker.task.kind \notin Derived
    <3>1. worker.task.uid \notin builds
      BY <2>2, <2>4 DEF Held
    <3>2. \A j \in Rows : queue[j].kind \in Derived => queue[j].uid # worker.task.uid
      BY <1>d, <3>1
    <3>3. \A u : u # worker.task.uid => Pending(u)' = 0 /\ Pending(u) = 0
      BY <2>1 DEF Pending
    <3>4. (\A j \in Rows : j < i /\ queue[j].kind \in Derived =>
              fails[queue[j].uid] <= queue[i].since[queue[j].uid] + Mishaps + Pending(queue[j].uid))'
      BY <1>0, <2>1, <2>2, <3>2, <3>3
    <3> QED
      BY <1>0, <2>1, <2>2, <2>4, <3>4
  <2> QED
    BY <2>3, <2>4
<1>9. ASSUME NEW how, how # "unborn", worker.pc \in Holding, DeleteTask(how)
      PROVE  Passed(i)'
  <2>1. Rows' = Rows \ {worker.id} /\ \A j \in Rows' : queue'[j] = queue[j]
    BY <1>9, Deletion
  <2>2. UNCHANGED <<fails, builds, used>> /\ worker'.pc = "fetch"
    BY <1>9 DEF DeleteTask, Go, TypeOK
  <2>3. Mishaps' = Mishaps /\ worker'.pc \notin Holding /\ \A u : Pending(u)' = 0
    BY <2>2 DEF Mishaps, Pending, Holding
  <2>4. \A j \in Rows' : Pending(queue[j].uid) = 0
    BY <1>9, <2>1 DEF Held, Pending
  <2>5. \A j \in Rows' : Pending(queue[j].uid) <= (Pending(queue[j].uid))'
    BY <2>3, <2>4
  <2> QED
    BY <1>3, <2>1, <2>2, <2>3, <2>5
<1>10. CASE Retry
  <2>1. UNCHANGED <<fails, builds, used>> /\ worker.pc = "retry" /\ worker'.pc = "fetch"
    BY <1>10 DEF Retry, Go, At, TypeOK
  <2>2. Mishaps' = Mishaps /\ worker'.pc \notin Holding /\ \A u : Pending(u)' = 0 /\ Pending(u) = 0
    BY <2>1 DEF Mishaps, Pending, Holding
  <2>3. Rows' = Rows /\ \A j \in Rows : queue'[j].uid = queue[j].uid /\ queue'[j].kind = queue[j].kind /\ queue'[j].since = queue[j].since
    <3>1. CASE queue' = queue
      BY <3>1 DEF Rows
    <3>2. CASE worker.id \in Rows /\ Rows' = Rows /\ \E t : queue' = [queue EXCEPT ![worker.id] = t] /\ Recounted(t)
      BY <3>2 DEF Rows, TypeOK, Recounted
    <3> QED
      BY <1>10, <3>1, <3>2, RetryCounts
  <2>4. \A j \in Rows' : Pending(queue[j].uid) <= (Pending(queue[j].uid))'
    BY <2>2
  <2> QED
    BY <1>3, <2>1, <2>2, <2>3, <2>4
<1>11. CASE Requeue
  <2>1. UNCHANGED <<fails, builds, used>> /\ worker.pc = "requeue" /\ worker'.pc = "reattribute"
    BY <1>11 DEF Requeue, At, TypeOK
  <2>2. worker.pc \in Holding /\ Mishaps' = Mishaps /\ worker'.pc \notin Holding /\ \A u : Pending(u)' = 0
    BY <2>1 DEF Mishaps, Pending, Holding
  <2>3. \A j \in Rows \ {worker.id} : Pending(queue[j].uid) = 0
    BY <2>2 DEF Held, Pending
  <2>4. CASE worker.id \notin Rows /\ queue' = queue
    <3>1. Rows' = Rows
      BY <2>4 DEF Rows
    <3>2. \A j \in Rows' : Pending(queue[j].uid) <= (Pending(queue[j].uid))'
      BY <2>2, <2>3, <2>4, <3>1
    <3> QED
      BY <1>3, <2>1, <2>2, <2>4, <3>1, <3>2
  <2>5. CASE /\ worker.id \in Rows /\ Rows' = (Rows \ {worker.id}) \cup {Top + 1}
             /\ Top + 1 \in Ids /\ Top + 1 \notin Rows
             /\ \A j \in Rows \ {worker.id} : queue'[j] = queue[j] /\ j < Top + 1
             /\ Recounted(queue'[Top + 1])
    <3>1. PICK k \in Ids : k = Top + 1
      BY <2>5
    <3>2. queue'[k].kind \in Derived
      <4>1. queue[worker.id] = worker.task /\ worker.task.kind \in Derived
        BY <1>z, <2>1, <2>2, <2>5, HeldIsRow DEF Held
      <4> QED
        BY <2>5, <3>1, <4>1 DEF Recounted
    <3>3. i # k /\ i \in Rows' /\ k \in Nat
      BY <3>2, QueueConstants DEF Waiting, Ids
    <3>4. i < k
      BY <2>5, <3>1, <3>3
    <3>5. \A j \in Rows' : j <= i => j \in Rows \ {worker.id} /\ queue'[j] = queue[j]
      <4>1. ~(k <= i)
        BY <1>a, <3>3, <3>4
      <4> QED
        BY <2>5, <3>1, <4>1
    <3>6. \A j \in Rows' : j < i => Pending(queue[j].uid) = 0
      BY <1>a, <2>3, <3>5 DEF Rows, Ids
    <3>7. \A j \in Rows' : j < i => Pending(queue[j].uid) <= (Pending(queue[j].uid))'
      BY <2>2, <3>6
    <3> QED
      BY <1>3, <2>1, <2>2, <3>5, <3>7
  <2> QED
    BY <1>11, <2>4, <2>5, RequeueMoves
<1>12. CASE Abort \/ Restart
  <2>1. UNCHANGED <<queue, fails, builds>> /\ worker'.pc \in {"held", "wait"} /\ Mishaps' = Mishaps + 1
    BY <1>12, QueueConstants DEF Abort, Restart, NoWork, TypeOK, Mishaps
  <2>2. Rows' = Rows /\ Waiting(i) /\ i \in Rows /\ worker'.pc \notin Holding /\ \A u : Pending(u)' = 0
    BY <2>1 DEF Rows, Waiting, Pending, Holding
  <2>3. \A u \in builds : fails[u] <= queue[i].since[u] + 1 + (Mishaps + 1)
    BY <1>0, <1>a, <1>b, <2>2
  <2>4. \A j \in Rows : j < i /\ queue[j].kind \in Derived =>
            fails[queue[j].uid] <= queue[i].since[queue[j].uid] + (Mishaps + 1) + 0
    <3> SUFFICES ASSUME NEW j \in Rows, j < i, queue[j].kind \in Derived
                 PROVE  fails[queue[j].uid] <= queue[i].since[queue[j].uid] + (Mishaps + 1) + 0
      OBVIOUS
    <3>1. fails[queue[j].uid] <= queue[i].since[queue[j].uid] + Mishaps + Pending(queue[j].uid)
      BY <1>0, <2>2
    <3>2. /\ fails[queue[j].uid] \in Nat /\ queue[i].since[queue[j].uid] \in Nat /\ Mishaps \in Nat
          /\ Pending(queue[j].uid) = 0 \/ Pending(queue[j].uid) = 1
      BY <1>a, <1>b, <2>2
    <3> QED
      BY <3>1, <3>2
  <2> QED
    BY <2>1, <2>2, <2>3, <2>4
<1>13. CASE Wake \/ Reattribute \/ TakeHeld \/ SelectLive \/ ForgetVanished
  <2>1. /\ UNCHANGED <<queue, fails, builds, used>> /\ worker.pc \in {"wait", "reattribute", "held", "select", "forget"}
        /\ worker'.pc \in {"wait", "fetch", "select", "forget"}
    <3>1. CASE Wake \/ Reattribute
      BY <3>1 DEF Wake, Reattribute, Go, At, TypeOK
    <3>2. CASE TakeHeld \/ SelectLive
      BY <3>2 DEF TakeHeld, SelectLive, At, TypeOK
    <3>3. CASE ForgetVanished
      BY <3>3 DEF ForgetVanished, At, NoWork
    <3> QED
      BY <1>13, <3>1, <3>2, <3>3
  <2>2. worker'.pc \notin Holding /\ Rows' = Rows /\ Mishaps' = Mishaps /\ \A u : Pending(u)' = 0 /\ Pending(u) = 0
    BY <2>1 DEF Holding, Pending, Rows, Mishaps
  <2>3. \A j \in Rows' : Pending(queue[j].uid) <= (Pending(queue[j].uid))'
    BY <2>2
  <2> QED
    BY <1>3, <2>1, <2>2, <2>3
<1>14. ASSUME NEW agent \in Agents, DeleteAgentRows(agent)
       PROVE  Passed(i)'
  BY <1>4, <1>14 DEF DeleteAgentRows
<1>15. ASSUME NEW agent \in Agents, NEW u \in Uids, ClearStale(agent, u)
       PROVE  Passed(i)'
  BY <1>4, <1>15 DEF ClearStale
<1>16. CASE Finish \/ Drop \/ Discard
  BY <1>9, <1>16 DEF Finish, Drop, Discard, Holding, At
<1>17. ASSUME NEW r \in attributing, Remember(r)
       PROVE  Passed(i)'
  BY <1>1, <1>17 DEF Remember, Mishaps
<1>18. ASSUME NEW key \in AnyKey, Pause(key) \/ Unpause(key)
       PROVE  Passed(i)'
  BY <1>1, <1>18 DEF Pause, Unpause, Mishaps
<1>19. CASE UNCHANGED vars
  BY <1>1, <1>19 DEF vars, Mishaps
<1> HIDE DEF Passed
<1> QED
  BY <1>2, <1>5, <1>6, <1>7, <1>8, <1>10, <1>11, <1>12, <1>13, <1>14, <1>15, <1>16, <1>17, <1>18, <1>19 DEF Next, WorkerStep

\* A build that keeps failing never holds up a write for more than one attempt.
THEOREM FailingBuildsStepAside == Spec => []WritesPassFailingBuilds
<1>1. Init => Passing
  BY PassingInit
<1>2. Sound /\ Passing /\ [Next]_vars => Passing'
  BY PassingStep
<1>3. Sound /\ Passing => WritesPassFailingBuilds
  <2> SUFFICES ASSUME Sound, Passing, ~used.astray, NEW i \in Rows,
                      queue[i].kind \notin Derived, fails[queue[i].uid] = 0, NEW u \in builds
               PROVE  fails[u] <= queue[i].since[u] + 1 + used.restarts + used.faults
    BY DEF WritesPassFailingBuilds
  <2>1. fails[u] <= queue[i].since[u] + 1 + Mishaps
    BY DEF Passing, Waiting, Rows
  <2>2. used.restarts \in Nat /\ used.faults \in Nat /\ queue[i].since[u] \in Nat /\ fails[u] \in Nat
    BY QueueConstants DEF Sound, TypeOK, Rows, Task
  <2> QED
    BY <2>1, <2>2 DEF Mishaps
<1> QED
  BY <1>1, <1>2, <1>3, QueueIsSound, PTL DEF Spec

============================================================================
