----------------------------- MODULE MCRecords -----------------------------
(***************************************************************************)
(* The memories table under its writers, checked in one run: the handlers  *)
(* in flight, over the two regions of MCMemoryStore, and the repairs of a  *)
(* health run (HealthRepairs), which hold the write lock from the first    *)
(* check to the commit. A behaviour moves one of the two models; in the    *)
(* region <<"repairs">> it is the repairs.                                 *)
(***************************************************************************)
EXTENDS MCMemoryStore, HealthRepairs

\* The texts of records: plain, annotated with a mention, over the length limit, and
\* nothing but an annotation.
Text(b, a, m, l) == [body |-> b, annotated |-> a, mention |-> m, long |-> l]
SomeTexts == {Text("b", FALSE, FALSE, FALSE), Text("b", TRUE, TRUE, FALSE), Text("b", FALSE, FALSE, TRUE),
              Text("", TRUE, FALSE, FALSE)}

InRepairs == region[1] = "repairs"

\* Bound: the last record has a declared association (duplicates keep an earlier one).
LastIsLinked == fixing.pc = "idle" /\ MemIds(mem) # {} => linked = {Largest(MemIds(mem))}

RecordsInit ==
    /\ HealthInit
    /\ \/ RegionInit
       \/ FewRows /\ rows[1] = NoRow /\ region = <<"repairs">>

RecordsNext ==
    \/ ~InRepairs /\ RegionNext /\ UNCHANGED healthVars
    \/ InRepairs /\ HealthNext /\ LastIsLinked' /\ UNCHANGED <<vars, region>>

RecordsSpec == RecordsInit /\ [][RecordsNext]_<<vars, region, healthVars>>
=============================================================================
