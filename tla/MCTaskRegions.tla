--------------------------- MODULE MCTaskRegions ---------------------------
(***************************************************************************)
(* The safety run of TaskQueue covers four regions: "faults", three builds *)
(* of two agents without a session key; "pauses", two tasks of one agent   *)
(* under two session keys, where the process restarts, or rows are deleted *)
(* behind the queue's back, and no fault of the database is met; "poison", *)
(* two tasks of which some have a payload that does not parse; and         *)
(* "requeue", three builds and writes of which none is paused, so that a   *)
(* row is moved to the tail and its id may be handed out again.            *)
(***************************************************************************)
EXTENDS MCTaskQueue

VARIABLE region

Bounds ==
    [faults |-> [kinds |-> {"build"}, agents |-> Agents, keys |-> {TransportKey}, tasks |-> 3, faults |-> 1, mishaps |-> 2],
     pauses |-> [kinds |-> {"build", "profile"}, agents |-> {a1}, keys |-> AnyKey, tasks |-> 2, faults |-> 0, mishaps |-> 1],
     poison |-> [kinds |-> {"build", "poison"}, agents |-> {a1}, keys |-> {TransportKey}, tasks |-> 2, faults |-> 1, mishaps |-> 1],
     requeue |-> [kinds |-> {"build", "profile"}, agents |-> {a1}, keys |-> {TransportKey}, tasks |-> 3, faults |-> 0, mishaps |-> 1]]

Here == Bounds[region]
MayPause == IF region = "requeue" THEN {} ELSE Here.keys

RegionInit == Init /\ region \in DOMAIN Bounds

RegionNext ==
    /\ UNCHANGED region
    /\ \/ /\ Enqueued < Here.tasks
          /\ \E kind \in Here.kinds, agent \in Here.agents, key \in Here.keys : Enqueue(kind, agent, key)
       \/ \E r \in attributing : Remember(r)
       \/ \E key \in MayPause : Pause(key) \/ Unpause(key)
       \/ \E agent \in Here.agents : DeleteAgentRows(agent)
       \/ \E agent \in Here.agents, u \in Uids : ClearStale(agent, u)
       \/ WorkerStep
       \/ FinishRaises \/ Restart
       \/ used.faults < Here.faults /\ Abort
    /\ used'.restarts + used'.removals + used'.faults <= Here.mishaps

RegionSpec == RegionInit /\ [][RegionNext]_<<vars, region>>
=============================================================================
