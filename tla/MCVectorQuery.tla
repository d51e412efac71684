--------------------------- MODULE MCVectorQuery ---------------------------
(***************************************************************************)
(* The instance of VectorQuery that TLC checks, in two regions the one run *)
(* covers both of. "system" runs every action of the system beside the     *)
(* query, over one row. "window" starts where the operator's build has     *)
(* just ended, over every content of a small table, and lets only row      *)
(* writes run beside the query: it spends the states on the data (windows, *)
(* widths, times) that the first cannot afford.                            *)
(***************************************************************************)
EXTENDS VectorQuery, TLC

CONSTANTS a1, a2, v1, v2, wide

OneAgent    == {a1}
TwoAgents   == {a1, a2}
OneVector   == {v1}
TwoVectors  == {v1, v2}
MixedWidths == {v1, v2, wide}
WideOnly    == {wide}
None        == {}
OneTime     == {1}
TwoTimes    == {1, 2}
EarlyOnly   == {1}

VectorSymmetry == Permutations({v1, v2})

VARIABLE region

SmallRow(row) == row.vec \notin WideVectors /\ row.at = 1

SystemInit == QInit /\ region = "system"

WindowInit ==
    /\ region = "window"
    /\ rows \in {t \in Table : t[MaxRows] = NoRow}
    /\ lastId = MaxRows - 1
    /\ clock = [logging |-> TRUE, generation |-> 1, head |-> 0, pruned_through |-> 0]
    /\ log = {}
    /\ schema = [cookie |-> 0, triggers |-> TRUE]
    /\ ~Declines(rows)
    /\ \E w \in 0..MaxRows :
          /\ IsWatermark(w, rows)
          /\ files = [n \in FileNames |-> PlanRows("operator", w)]
    /\ builds = [b \in Builders |-> Idle]
    /\ purges = 0
    /\ dropping = [a \in Agents |-> {}]
    /\ purged = {}
    /\ q = NoQuery

Write ==
    \/ \E row \in Row : Store(row)
    \/ \E i \in Ids, row \in Row : Update(i, row)
    \/ \E i \in Ids : Delete(i)

SystemNext ==
    /\ region = "system" /\ UNCHANGED region
    /\ QNext
    /\ lastId' <= 1 /\ \A i \in Ids : rows'[i] # NoRow => SmallRow(rows'[i])

WindowNext ==
    /\ region = "window" /\ UNCHANGED region
    /\ (Write /\ Observed) \/ QueryStep

RegionSpec == (SystemInit \/ WindowInit) /\ [][SystemNext \/ WindowNext]_<<qvars, region>>
=============================================================================
