--------------------------- MODULE MCVectorIndex ---------------------------
(***************************************************************************)
(* The instance of VectorIndex that TLC checks, in two regions the one run *)
(* covers both of: "log", where two rows and three logged changes meet two *)
(* builds, and "faults", where one row meets lost triggers, schema changes *)
(* and a purge.                                                            *)
(***************************************************************************)
EXTENDS VectorIndex

CONSTANTS a1, a2, v1, v2, wide

OneAgent    == {a1}
TwoAgents   == {a1, a2}
OneVector   == {v1}
TwoVectors  == {v1, v2}
MixedWidths == {v1, wide}
OneTime     == {1}
TwoTimes    == {1, 2}
None        == {}
WideOnly    == {wide}
EarlyOnly   == {1}

VARIABLE region

Within ==
    \/ region = "log" /\ schema.cookie = 0 /\ purges = 0
    \/ region = "faults" /\ lastId <= 1 /\ clock.head <= 2

SmallInit == Init /\ region \in {"log", "faults"}
SmallNext == Next /\ UNCHANGED region /\ Within'

SmallSpec == SmallInit /\ [][SmallNext]_<<vars, region>>
=============================================================================
