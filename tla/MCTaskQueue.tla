---------------------------- MODULE MCTaskQueue ----------------------------
(***************************************************************************)
(* The instances of TaskQueue that TLC checks: the values of its constants *)
(***************************************************************************)
EXTENDS TaskQueue, TLC

CONSTANTS a1, a2, k1, k2

OneAgent  == {a1}
TwoAgents == {a1, a2}
NoKeys    == {}
OneKey    == {k1}
TwoKeys   == {k1, k2}

BuildsOnly == {"build"}
WritesToo  == {"build", "profile"}
EveryKind  == AllKinds

\* The liveness run: a restart, a fault of the database and a deletion behind the queue's
\* back, two of them at most.
LiveNext == Next /\ used'.restarts + used'.faults + used'.removals <= 2
LiveSpec == Init /\ [][LiveNext]_vars /\ Fairness

KeySymmetry == Permutations({k1, k2})
=============================================================================
