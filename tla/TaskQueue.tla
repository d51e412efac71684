----------------------------- MODULE TaskQueue -----------------------------
(***************************************************************************)
(* The background task queue (cpersona/tasks.py, MemoryTaskQueue) and the  *)
(* per-session pause it consults (cpersona/session.py).                    *)
(*                                                                         *)
(* Rows of pending_memory_tasks are the crash-recoverable state; which     *)
(* session enqueued a row (_task_sessions), the wake-up event, the pauses  *)
(* and the one worker are process state and are lost at a restart. Every   *)
(* await of the worker and of enqueue is a point where the others run:     *)
(* callers that enqueue, sessions that pause, and the three handlers that  *)
(* delete queue rows without going through the queue.                      *)
(*                                                                         *)
(* Each task carries two things the program does not have: the number      *)
(* `uid` of its enqueue, since the program names a task by its row id and  *)
(* the properties ask whether the id still names the task it was read      *)
(* from, and for a write the failures counted `since` it was enqueued.     *)
(***************************************************************************)
EXTENDS Naturals, FiniteSets, FiniteSetsExt

CONSTANTS
    Agents,        \* agent ids
    Keys,          \* session keys a caller declares
    TransportKey,  \* session.TRANSPORT_KEY, the bucket every keyless caller shares
    Kinds,         \* the kinds of task enqueued: a subset of AllKinds
    NoTask,        \* the row does not exist
    MaxRetries,    \* TASK_MAX_RETRIES
    MaxAttributed, \* _MAX_ATTRIBUTED_TASKS
    MaxPaused,     \* _MAX_PAUSED_SESSIONS
    MaxTasks,      \* bound: tasks enqueued
    MaxId,         \* bound: row ids
    MaxRestarts,   \* bound: restarts of the process
    MaxFaults,     \* bound: database faults the worker meets
    MaxRemovals    \* bound: deletions behind the queue's back

\* "build": the derived builds (nodes, blocks, backfill, block index). "profile":
\* update_profile; archive_episode, whose payload has no summary, is one that always
\* raises. "poison": a payload that does not parse. (A row of a type the worker does
\* not know is deleted where a finished task is: a profile update that writes nothing.)
AllKinds == {"build", "profile", "poison"}

ASSUME QueueConstants ==
    /\ TransportKey \notin Keys /\ Kinds \subseteq AllKinds
    /\ MaxRetries \in Nat \ {0} /\ MaxAttributed \in Nat \ {0} /\ MaxPaused \in Nat \ {0}
    /\ MaxTasks \in Nat /\ MaxId \in Nat
    /\ MaxRestarts \in Nat /\ MaxFaults \in Nat /\ MaxRemovals \in Nat

VARIABLES
    queue,      \* pending_memory_tasks: id -> task
    seq,        \* its sqlite_sequence
    sessions,   \* _task_sessions; TransportKey where there is no entry
    event,      \* _event
    worker,     \* the one _loop task
    attributing,\* enqueues past their commit, before _remember_session
    paused,     \* the keys of _pauses whose deadline has not passed
    profiles,   \* the profiles table: agent -> uid of the task that wrote it, 0 for none
    fate,       \* history: what became of each task
    fails,      \* history: attempts of each task that raised
    builds,     \* history: the uids of derived tasks
    used        \* restarts, faults and removals so far; whether a removal was astray

vars == <<queue, seq, sessions, event, worker, attributing, paused, profiles, fate, fails, builds, used>>

----------------------------------------------------------------------------
(* Data                                                                    *)

Ids     == 1..MaxId
Uids    == 1..MaxTasks
AnyKey  == Keys \cup {TransportKey}
Derived == {"build"}

Task == [uid : Uids, kind : Kinds, agent : Agents, key : AnyKey, retries : 0..MaxRetries,
         since : [Uids -> Nat]]

ASSUME NoTaskAssumption == NoTask \notin Task

Fates == {"unborn", "queued", "done", "dropped", "discarded", "removed", "wiped", "lost"}

\* The worker's place, the row it fetched (task, id, the key of the gate), the id a
\* requeue moved it to, and the ids a reconcile holds.
NoWork == [pc |-> "wait", id |-> 0, task |-> NoTask, key |-> TransportKey, to |-> 0, held |-> {}]

Places == {"wait", "fetch", "gate", "run", "finish", "drop", "fail", "discard", "requeue",
           "reattribute", "retry", "held", "select", "forget"}

Rows        == {i \in Ids : queue[i] # NoTask}
Top         == IF Rows = {} THEN 0 ELSE Max(Rows)
Attributed  == {i \in Ids : sessions[i] # TransportKey}
Enqueued    == Cardinality({u \in Uids : fate[u] # "unborn"})
At(pc)      == worker.pc = pc
Go(pc)      == worker' = [worker EXCEPT !.pc = pc]

----------------------------------------------------------------------------
(* The attribution map                                                     *)

Forgotten(ids) == [i \in Ids |-> IF i \in ids THEN TransportKey ELSE sessions[i]]

\* _remember_session: the keyless bucket is stored as no entry; at the cap the oldest
\* entry makes room.
Remembered(map, i, key) ==
    LET held  == {j \in Ids : map[j] # TransportKey}
        evict == IF key # TransportKey /\ i \notin held /\ Cardinality(held) >= MaxAttributed
                 THEN {Min(held)} ELSE {}
    IN  [j \in Ids |-> IF j = i THEN key ELSE IF j \in evict THEN TransportKey ELSE map[j]]

----------------------------------------------------------------------------
(* Callers                                                                 *)

\* Mutant of NextId: a key without AUTOINCREMENT.
NextIdAboveRows == 1 + Top

\* AUTOINCREMENT takes the id above both the highest it has handed out and the highest
\* in the table.
NextId == 1 + Max({seq, Top})

\* enqueue, to the commit of its INSERT.
Enqueue(kind, agent, key) ==
    LET i == NextId
        u == Enqueued + 1
    IN  /\ u <= MaxTasks /\ i <= MaxId
        /\ queue' = [queue EXCEPT ![i] =
              [uid |-> u, kind |-> kind, agent |-> agent, key |-> key, retries |-> 0,
               since |-> IF kind \in Derived THEN [v \in Uids |-> 0] ELSE fails]]
        /\ seq' = i
        /\ fate' = [fate EXCEPT ![u] = "queued"]
        /\ attributing' = attributing \cup {[uid |-> u, id |-> i, key |-> key]}
        /\ builds' = IF kind \in Derived THEN builds \cup {u} ELSE builds
        /\ UNCHANGED <<sessions, event, worker, paused, profiles, fails, used>>

\* The rest of enqueue: attribute the row, then wake the worker.
Remember(r) ==
    /\ r \in attributing
    /\ attributing' = attributing \ {r}
    /\ sessions' = Remembered(sessions, r.id, r.key)
    /\ event' = TRUE
    /\ UNCHANGED <<queue, seq, worker, paused, profiles, fate, fails, builds, used>>

\* pause_for: a full map refuses a new key rather than evict another session's pause.
Pause(key) ==
    /\ key \in paused \/ Cardinality(paused) < MaxPaused
    /\ paused' = paused \cup {key}
    /\ UNCHANGED <<queue, seq, sessions, event, worker, attributing, profiles, fate, fails, builds, used>>

\* resume_for, or the TTL passing (_decay).
Unpause(key) ==
    /\ key \in paused
    /\ paused' = paused \ {key}
    /\ UNCHANGED <<queue, seq, sessions, event, worker, attributing, profiles, fate, fails, builds, used>>

----------------------------------------------------------------------------
(* Deletions behind the queue's back                                       *)

\* History: a removal is astray when it takes a row that a requeue had moved past
\* sqlite_sequence, the one case in which the id is handed out a second time.
Astray(ids) == used.astray \/ \E i \in ids : i > seq

Remove(ids, how) ==
    /\ used.removals < MaxRemovals
    /\ used' = [used EXCEPT !.removals = used.removals + 1, !.astray = Astray(ids)]
    /\ queue' = [i \in Ids |-> IF i \in ids THEN NoTask ELSE queue[i]]
    /\ fate' = [u \in Uids |-> IF \E i \in ids : queue[i].uid = u THEN how ELSE fate[u]]
    /\ UNCHANGED <<seq, sessions, event, worker, attributing, paused, fails, builds>>

\* _delete_agent_rows: the agent's profile and its queue rows, in one transaction.
DeleteAgentRows(agent) ==
    /\ Remove({i \in Rows : queue[i].agent = agent}, "wiped")
    /\ profiles' = [profiles EXCEPT ![agent] = 0]

\* check_stale_pending_tasks with fix (created_at is the enqueue's, and a requeue
\* keeps it). A move-mode merge's clearing of the source agent is the case above
\* without the profile, and is covered by the choice of rows here.
ClearStale(agent, u) ==
    /\ \E i \in Rows : queue[i].agent = agent /\ queue[i].uid <= u
    /\ Remove({i \in Rows : queue[i].agent = agent /\ queue[i].uid <= u}, "removed")
    /\ UNCHANGED profiles

----------------------------------------------------------------------------
(* The worker                                                              *)

\* _loop: the event is cleared before the drain looks at the table.
Wake ==
    /\ At("wait") /\ event
    /\ event' = FALSE
    /\ Go("fetch")
    /\ UNCHANGED <<queue, seq, sessions, attributing, paused, profiles, fate, fails, builds, used>>

\* _fetch_next: the row of the lowest id; none ends the pass.
Fetch ==
    /\ At("fetch")
    /\ IF Rows = {} THEN Go("held")
       ELSE worker' = [worker EXCEPT !.pc = IF queue[Min(Rows)].kind = "poison" THEN "drop" ELSE "gate",
                                     !.id = Min(Rows), !.task = queue[Min(Rows)]]
    /\ UNCHANGED <<queue, seq, sessions, event, attributing, paused, profiles, fate, fails, builds, used>>

\* Mutant of Gate: one switch for all sessions.
GateAnyPause ==
    /\ At("gate")
    /\ worker' = [worker EXCEPT !.key = IF paused = {} THEN TransportKey ELSE CHOOSE k \in paused : TRUE,
                     !.pc = IF worker.task.kind \notin Derived /\ paused # {} THEN "drop" ELSE "run"]
    /\ UNCHANGED <<queue, seq, sessions, event, attributing, paused, profiles, fate, fails, builds, used>>

\* The pause gate of _drain (do_update_profile asks again before its first await).
\* Derived work is never dropped.
Gate ==
    /\ At("gate")
    /\ LET key == sessions[worker.id]
       IN  worker' = [worker EXCEPT !.key = key,
                        !.pc = IF worker.task.kind \notin Derived /\ key \in paused THEN "drop" ELSE "run"]
    /\ UNCHANGED <<queue, seq, sessions, event, attributing, paused, profiles, fate, fails, builds, used>>

\* A handler returns, its own transaction committed: a build wrote its rows, a profile
\* update its upsert.
HandlerReturns ==
    /\ At("run")
    /\ Go("finish")
    /\ profiles' = IF worker.task.kind = "profile"
                   THEN [profiles EXCEPT ![worker.task.agent] = worker.task.uid] ELSE profiles
    /\ UNCHANGED <<queue, seq, sessions, event, attributing, paused, fate, fails, builds, used>>

Failed(u) == [fails EXCEPT ![u] = fails[u] + 1]

\* A handler raises or answers a failure.
HandlerRaises ==
    /\ At("run")
    /\ Go("fail")
    /\ fails' = Failed(worker.task.uid)
    /\ UNCHANGED <<queue, seq, sessions, event, attributing, paused, profiles, fate, builds, used>>

\* _delete_task(id), for a task whose fate is `how`. The row of that id is deleted
\* whichever task it is by now.
DeleteTask(how) ==
    /\ queue' = [queue EXCEPT ![worker.id] = NoTask]
    /\ fate' = IF queue[worker.id] = NoTask THEN fate
               ELSE [fate EXCEPT ![queue[worker.id].uid] =
                        IF queue[worker.id].uid = worker.task.uid THEN how ELSE "lost"]
    /\ sessions' = Forgotten({worker.id})
    /\ Go("fetch")
    /\ UNCHANGED <<seq, event, attributing, paused, profiles, fails, builds, used>>

Finish  == At("finish")  /\ DeleteTask("done")
Drop    == At("drop")    /\ DeleteTask("dropped")
Discard == At("discard") /\ DeleteTask("discarded")

\* The delete of a finished task raises inside the same try: a failed attempt.
FinishRaises ==
    /\ At("finish") /\ used.faults < MaxFaults
    /\ used' = [used EXCEPT !.faults = used.faults + 1]
    /\ Go("fail")
    /\ fails' = Failed(worker.task.uid)
    /\ UNCHANGED <<queue, seq, sessions, event, attributing, paused, profiles, fate, builds>>

\* Mutant of OtherWorkWaits: no other row counts.
NoWorkWaits == FALSE

\* _other_work_waits
OtherWorkWaits == \E i \in Rows \ {worker.id} : queue[i].kind \notin Derived

\* The except branch of _drain, by the retry count the fetch read.
OnFailure ==
    /\ At("fail")
    /\ Go(IF worker.task.retries + 1 >= MaxRetries THEN "discard"
          ELSE IF worker.task.kind \in Derived /\ OtherWorkWaits THEN "requeue" ELSE "retry")
    /\ UNCHANGED <<queue, seq, sessions, event, attributing, paused, profiles, fate, fails, builds, used>>

\* _increment_retry, then the delay: the row stays the head.
Retry ==
    /\ At("retry")
    /\ queue' = IF queue[worker.id] = NoTask THEN queue
                ELSE [queue EXCEPT ![worker.id].retries = queue[worker.id].retries + 1]
    /\ Go("fetch")
    /\ UNCHANGED <<seq, sessions, event, attributing, paused, profiles, fate, fails, builds, used>>

\* _requeue_at_tail, its transaction: the row takes the id above the highest in the
\* table. An UPDATE does not move sqlite_sequence.
Requeue ==
    /\ At("requeue") /\ Top < MaxId
    /\ IF queue[worker.id] = NoTask
       THEN worker' = [worker EXCEPT !.pc = "reattribute", !.to = 0] /\ UNCHANGED queue
       ELSE /\ queue' = [queue EXCEPT ![worker.id] = NoTask,
                  ![Top + 1] = [queue[worker.id] EXCEPT !.retries = queue[worker.id].retries + 1]]
            /\ worker' = [worker EXCEPT !.pc = "reattribute", !.to = Top + 1]
    /\ UNCHANGED <<seq, sessions, event, attributing, paused, profiles, fate, fails, builds, used>>

\* The rest of it: the attribution moves with the row.
Reattribute ==
    /\ At("reattribute")
    /\ sessions' = IF worker.to # 0 /\ sessions[worker.id] # TransportKey
                   THEN Remembered(Forgotten({worker.id}), worker.to, sessions[worker.id])
                   ELSE Forgotten({worker.id})
    /\ Go("fetch")
    /\ UNCHANGED <<queue, seq, event, attributing, paused, profiles, fate, fails, builds, used>>

\* _forget_vanished_rows: the ids held, the rows that exist, then the forgetting.
TakeHeld ==
    /\ At("held")
    /\ worker' = [worker EXCEPT !.pc = "select", !.held = Attributed]
    /\ UNCHANGED <<queue, seq, sessions, event, attributing, paused, profiles, fate, fails, builds, used>>

SelectLive ==
    /\ At("select")
    /\ worker' = [worker EXCEPT !.pc = "forget", !.held = worker.held \ Rows]
    /\ UNCHANGED <<queue, seq, sessions, event, attributing, paused, profiles, fate, fails, builds, used>>

\* Mutant of ForgetVanished: the event is cleared when the pass ends.
ForgetThenClear ==
    /\ At("forget")
    /\ sessions' = Forgotten(worker.held)
    /\ worker' = NoWork
    /\ event' = FALSE
    /\ UNCHANGED <<queue, seq, attributing, paused, profiles, fate, fails, builds, used>>

\* Mutant of ForgetVanished: the reconcile is left out of the pass.
ForgetNothing ==
    /\ At("forget")
    /\ worker' = NoWork
    /\ UNCHANGED <<queue, seq, sessions, event, attributing, paused, profiles, fate, fails, builds, used>>

ForgetVanished ==
    /\ At("forget")
    /\ sessions' = Forgotten(worker.held)
    /\ worker' = NoWork
    /\ UNCHANGED <<queue, seq, event, attributing, paused, profiles, fate, fails, builds, used>>

\* A database fault outside the task's own try aborts the pass: its reconcile runs,
\* and the loop waits for the next event. A fault of the reconcile is swallowed.
Abort ==
    /\ worker.pc \in {"fetch", "drop", "fail", "discard", "requeue", "retry", "select"}
    /\ used.faults < MaxFaults
    /\ used' = [used EXCEPT !.faults = used.faults + 1]
    /\ worker' = IF At("select") THEN NoWork ELSE [worker EXCEPT !.pc = "held"]
    /\ UNCHANGED <<queue, seq, sessions, event, attributing, paused, profiles, fate, fails, builds>>

\* The process ends at any await and starts again: start() sets the event.
Restart ==
    /\ used.restarts < MaxRestarts
    /\ used' = [used EXCEPT !.restarts = used.restarts + 1]
    /\ sessions' = [i \in Ids |-> TransportKey]
    /\ event' = TRUE
    /\ worker' = NoWork
    /\ attributing' = {}
    /\ paused' = {}
    /\ UNCHANGED <<queue, seq, profiles, fate, fails, builds>>

----------------------------------------------------------------------------
Init ==
    /\ queue = [i \in Ids |-> NoTask]
    /\ seq = 0
    /\ sessions = [i \in Ids |-> TransportKey]
    /\ event = TRUE
    /\ worker = NoWork
    /\ attributing = {}
    /\ paused = {}
    /\ profiles = [a \in Agents |-> 0]
    /\ fate = [u \in Uids |-> "unborn"]
    /\ fails = [u \in Uids |-> 0]
    /\ builds = {}
    /\ used = [restarts |-> 0, faults |-> 0, removals |-> 0, astray |-> FALSE]

WorkerStep ==
    \/ Wake \/ Fetch \/ Gate \/ HandlerReturns \/ HandlerRaises
    \/ Finish \/ Drop \/ Discard \/ OnFailure \/ Retry \/ Requeue \/ Reattribute
    \/ TakeHeld \/ SelectLive \/ ForgetVanished

Next ==
    \/ \E kind \in Kinds, agent \in Agents, key \in AnyKey : Enqueue(kind, agent, key)
    \/ \E r \in attributing : Remember(r)
    \/ \E key \in AnyKey : Pause(key) \/ Unpause(key)
    \/ \E agent \in Agents : DeleteAgentRows(agent)
    \/ \E agent \in Agents, u \in Uids : ClearStale(agent, u)
    \/ WorkerStep
    \/ FinishRaises \/ Abort \/ Restart

Spec == Init /\ [][Next]_vars

\* The event loop runs a coroutine that can go on: the worker, and an enqueue whose
\* commit has returned. Every handler returns or raises.
Fairness == WF_vars(WorkerStep) /\ WF_vars(\E r \in attributing : Remember(r))

FairSpec == Spec /\ Fairness

----------------------------------------------------------------------------
(* Properties                                                              *)

TypeOK ==
    /\ queue \in [Ids -> Task \cup {NoTask}] /\ seq \in 0..MaxId
    /\ sessions \in [Ids -> AnyKey] /\ event \in BOOLEAN
    /\ worker \in [pc : Places, id : 0..MaxId, task : Task \cup {NoTask}, key : AnyKey,
                   to : 0..MaxId, held : SUBSET Ids]
    /\ attributing \subseteq [uid : Uids, id : Ids, key : AnyKey]
    /\ paused \subseteq AnyKey /\ profiles \in [Agents -> 0..MaxTasks]
    /\ fate \in [Uids -> Fates] /\ fails \in [Uids -> Nat] /\ builds \subseteq Uids
    /\ used \in [restarts : 0..MaxRestarts, faults : 0..MaxFaults, removals : 0..MaxRemovals, astray : BOOLEAN]

\* A task the worker deletes is the one it ran, dropped or gave up on: unless a removal
\* was astray, none leaves the queue unprocessed because its row id came to name another
\* task, and none is given up before TASK_MAX_RETRIES attempts failed. None ever fails more
\* often than that, but for one attempt per restart or fault that kept its retry from
\* being counted.
NoTaskLost ==
    \A u \in Uids :
        /\ ~used.astray => fate[u] # "lost" /\ (fate[u] = "discarded" => fails[u] >= MaxRetries)
        /\ fails[u] <= MaxRetries + used.restarts + used.faults

\* Tasks are "processed asynchronously in FIFO order, and deleted on success" (the
\* docstring of MemoryTaskQueue): no task is deleted in the place of another. The code
\* breaks it after a removal astray.
DeletedOnSuccess == \A u \in Uids : fate[u] # "lost"

\* A queued write is dropped only for the pause of its own session, or for the shared
\* bucket's once its attribution is gone (restart, cap), unless a removal was astray:
\* never for a parallel session's.
DroppedByOwnPause ==
    At("drop") /\ worker.task.kind # "poison" /\ ~used.astray =>
        worker.key \in {worker.task.key, TransportKey}

\* A failing build does not hold up the writes behind it (bug-463): unless a removal was
\* astray, while a write waits for its first attempt no build fails more than once, but
\* for one more attempt per restart or fault that kept the requeue from happening.
WritesPassFailingBuilds ==
    ~used.astray => \A i \in Rows : queue[i].kind \notin Derived /\ fails[queue[i].uid] = 0 =>
        \A u \in builds : fails[u] <= queue[i].since[u] + 1 + used.restarts + used.faults

\* n faults so far, and the worker has been woken since the last of them (or none struck).
Woken(n) == used.faults = n /\ (n = 0 \/ event)

\* Every enqueued task leaves the queue -- run, dropped or given up -- through restarts,
\* failures and whatever is enqueued while a drain is ending: no wake-up is lost. A fault
\* of the database ends the pass it strikes and leaves the rest waiting (tasks.py:214);
\* whatever then sets the event, an enqueue or a restart, gets all of it out.
QueueDrains ==
    \A u \in Uids, n \in 0..MaxFaults :
        (fate[u] = "queued" /\ Woken(n)) ~> (fate[u] # "queued" \/ used.faults > n)

\* The attribution map does not outlive the rows it describes: an entry whose row went
\* by any path, the queue's own or another's, is dropped in the end, or, when a fault
\* kept the reconcile from it, once the worker is woken again.
AttributionsDrain ==
    \A i \in Ids, n \in 0..MaxFaults :
        (sessions[i] # TransportKey /\ queue[i] = NoTask /\ Woken(n))
            ~> (sessions[i] = TransportKey \/ queue[i] # NoTask \/ used.faults > n)
=============================================================================
