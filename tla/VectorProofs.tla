---------------------------- MODULE VectorProofs -----------------------------
(***************************************************************************)
(* What VectorIndex guarantees for every number of rows, changes, restarts *)
(* of the log, schema changes and purges; and, from the exactness of the   *)
(* files the change log vouches for, what a local vector query guarantees  *)
(* for every table, window, limit and behaviour of the system beside it.   *)
(***************************************************************************)
EXTENDS VectorQuery, FiniteSetTheorems, TLAPS

----------------------------------------------------------------------------
(* The inductive invariants                                                *)

\* What holds of a built file from the moment its snapshot is pinned, published or
\* not. The positions it recorded lie behind the database's, so a change of the
\* generation or of the cookie can only move away from it; while the cookie is its
\* own the triggers have never been missing; and it is exact while vouched for.
Held(f) ==
    /\ f.generation <= clock.generation
    /\ f.built_seq <= clock.head
    /\ f.schema_cookie <= schema.cookie
    /\ f.watermark <= lastId
    /\ f.schema_cookie = schema.cookie => schema.triggers
    /\ Vouches(f) => Exact(f)

\* A file on disk, or one a build has still to publish.
InUse(f) ==
    /\ f # NoFile
    /\ \/ \E n \in FileNames : files[n] = f
       \/ \E b \in Builders : builds[b].plan = f

ExactInv ==
    /\ \A i \in Ids : rows[i] # NoRow => i <= lastId
    /\ \A f \in File : InUse(f) => Held(f)

\* A purged id is gone for good, since AUTOINCREMENT never hands it out again; the
\* server's build that began after the last purge read none of them.
Gone(i) == rows[i] = NoRow /\ i <= lastId

PurgeInv ==
    /\ \A i \in Ids : rows[i] # NoRow => i <= lastId
    /\ \A i \in purged : Gone(i)
    /\ \A a \in Agents : \A i \in dropping[a] : Gone(i)
    /\ \A b \in Builders : builds[b].plan # NoFile => builds[b].plan.by = b
    /\ builds["server"].purges_at_start <= purges
    /\ builds["server"].plan # NoFile /\ builds["server"].purges_at_start = purges =>
          \A i \in purged : builds["server"].plan.kept[i] = NoRow
    /\ NoResurrection

USE IndexConstants DEF Ids, FileNames, Builders, Widths

----------------------------------------------------------------------------
(* Facts about the operators                                               *)

\* The rows one transaction changes are finitely many, so the numbers the log gives
\* them are ordinary ones.
LEMMA FiniteIds ==
    ASSUME NEW S, S \subseteq Ids
    PROVE  IsFiniteSet(S) /\ Cardinality(S) \in Nat
<1>1. IsFiniteSet(Ids)
  BY FS_Interval
<1> QED
  BY <1>1, FS_Subset, FS_CardinalityType

\* What the commit of a transaction over `ids` does to the log: it only grows, and
\* while the triggers stand every changed row gets a number above the old head.
LEMMA LogChangesEffect ==
    ASSUME TypeOK, NEW ids, ids \subseteq Ids, LogChanges(ids)
    PROVE  /\ clock' \in Clock
           /\ log' \subseteq Change
           /\ clock'.logging = clock.logging
           /\ clock'.generation = clock.generation
           /\ clock'.pruned_through = clock.pruned_through
           /\ clock'.head >= clock.head
           /\ log \subseteq log'
           /\ clock.logging /\ schema.triggers =>
                 \A i \in ids : \E e \in log' : e.id = i /\ e.seq > clock.head
<1>1. Cardinality(ids) \in Nat
  BY FiniteIds
<1>2. clock \in Clock /\ log \subseteq Change
  BY DEF TypeOK
<1>3. CASE clock.logging /\ schema.triggers
  <2>1. PICK seqOf \in [ids -> (clock.head + 1)..(clock.head + Cardinality(ids))] :
           log' = log \cup {[seq |-> seqOf[i], id |-> i] : i \in ids}
    BY <1>3 DEF LogChanges
  <2>2. /\ clock.head + Cardinality(ids) <= MaxHead
        /\ clock' = [clock EXCEPT !.head = clock.head + Cardinality(ids)]
    BY <1>3 DEF LogChanges
  <2>3. \A i \in ids : seqOf[i] \in 1..MaxHead /\ seqOf[i] > clock.head
    BY <1>1, <1>2, <2>1, <2>2 DEF Clock
  <2>4. log' \subseteq Change
    BY <1>2, <2>1, <2>3 DEF Change
  <2>5. \A i \in ids : [seq |-> seqOf[i], id |-> i] \in log'
    BY <2>1
  <2>6. \A i \in ids : \E e \in log' : e.id = i /\ e.seq > clock.head
    BY <2>3, <2>5
  <2>7. clock' \in Clock /\ clock'.head >= clock.head
    BY <1>1, <1>2, <2>2 DEF Clock
  <2> QED
    BY <1>2, <2>1, <2>2, <2>4, <2>6, <2>7 DEF Clock
<1>4. CASE ~(clock.logging /\ schema.triggers)
  BY <1>2, <1>4 DEF LogChanges, Clock
<1> QED
  BY <1>3, <1>4

\* What a prune does: the log loses rows only up to a mark it keeps.
LEMMA PruneLogEffect ==
    ASSUME TypeOK, PruneLog
    PROVE  /\ clock' \in Clock
           /\ log' \subseteq log
           /\ clock'.logging = clock.logging
           /\ clock'.generation = clock.generation
           /\ clock'.head = clock.head
           /\ clock'.pruned_through >= clock.pruned_through
           /\ \A e \in log : e.seq > clock'.pruned_through => e \in log'
<1>1. clock \in Clock /\ log \subseteq Change
  BY DEF TypeOK
<1>2. CASE UNCHANGED <<clock, log>>
  BY <1>1, <1>2 DEF Clock
<1>3. ASSUME NEW mark \in Heads,
             log' = {c \in log : c.seq > mark},
             clock' = [clock EXCEPT !.pruned_through =
                          IF mark > clock.pruned_through THEN mark ELSE clock.pruned_through]
      PROVE  /\ clock' \in Clock
             /\ clock'.pruned_through >= clock.pruned_through
             /\ \A e \in log : e.seq > clock'.pruned_through => e \in log'
  <2>1. mark \in 0..MaxHead
    BY <1>3 DEF Heads, TypeOK, File
  <2>2. clock'.pruned_through \in Nat /\ clock'.pruned_through >= mark
    BY <1>1, <1>3, <2>1 DEF Clock
  <2>3. clock' \in Clock /\ clock'.pruned_through >= clock.pruned_through
    BY <1>1, <1>3, <2>1 DEF Clock
  <2>4. ASSUME NEW e \in log, e.seq > clock'.pruned_through
        PROVE  e \in log'
    <3>1. e.seq \in Nat
      BY <1>1 DEF Change
    <3> QED
      BY <3>1, <2>1, <2>2, <2>4, <1>3
  <2> QED
    BY <2>3, <2>4
<1> QED
  BY <1>1, <1>2, <1>3 DEF PruneLog, Clock

\* A plan is a well-formed file.
LEMMA PlanIsFile ==
    ASSUME TypeOK, NEW b \in Builders, NEW w \in 0..MaxRows
    PROVE  PlanRows(b, w) \in File
<1>1. rows \in Table /\ clock \in Clock /\ schema \in Schema
  BY DEF TypeOK
<1>2. [i \in Ids |-> IF i \in Embedded(rows) \ Excluded(rows) THEN rows[i] ELSE NoRow] \in Table
  BY <1>1 DEF Table
<1>3. Excluded(rows) \cup Unembedded(rows) \subseteq Ids
  BY DEF Excluded, Unembedded, Embedded, Live
<1>4. WidthOf(rows[CHOOSE i \in Embedded(rows) : TRUE].vec) \in Widths
  BY DEF WidthOf
<1>5. /\ clock.generation \in 0..MaxGeneration /\ clock.head \in 0..MaxHead
      /\ schema.cookie \in 0..MaxCookie
  BY <1>1 DEF Clock, Schema
<1> QED
  BY <1>2, <1>3, <1>4, <1>5 DEF PlanRows, File

----------------------------------------------------------------------------
(* Type correctness                                                        *)

\* A process with nothing in flight is a well-formed build state.
LEMMA IdleIsBuild == Idle \in Build /\ AtRest("stopping") \in Build /\ AtRest("planned") \in Build
  BY DEF Idle, AtRest, Build

\* The fresh database, with no log, file or build, is well-typed.
LEMMA TypeInit == Init => TypeOK
  BY IdleIsBuild DEF Init, TypeOK, Table, Clock, Schema

\* Every write, build step, prune, restart and schema change keeps the types.
LEMMA TypeStep == TypeOK /\ [Next]_vars => TypeOK'
<1> SUFFICES ASSUME TypeOK, [Next]_vars PROVE TypeOK'
  OBVIOUS
<1>1. ASSUME NEW row \in Row, Store(row) PROVE TypeOK'
  <2>1. rows' \in Table /\ lastId' \in 0..MaxRows
    BY <1>1 DEF TypeOK, Store, Table
  <2> QED
    BY <1>1, <2>1 DEF TypeOK, Store
<1>2. ASSUME NEW i \in Ids, NEW row \in Row, Update(i, row) PROVE TypeOK'
  <2>1. rows' \in Table
    BY <1>2 DEF TypeOK, Update, Table
  <2>2. clock' \in Clock /\ log' \subseteq Change
    BY <1>2, LogChangesEffect DEF Update
  <2> QED
    BY <1>2, <2>1, <2>2 DEF TypeOK, Update
<1>3. ASSUME NEW i \in Ids, Delete(i) PROVE TypeOK'
  <2>1. rows' \in Table
    BY <1>3 DEF TypeOK, Delete, Table
  <2>2. clock' \in Clock /\ log' \subseteq Change
    BY <1>3, LogChangesEffect DEF Delete
  <2> QED
    BY <1>3, <2>1, <2>2 DEF TypeOK, Delete
<1>4. ASSUME NEW a \in Agents, NEW holds \in BOOLEAN, DeleteAgent(a, holds) PROVE TypeOK'
  <2>0. RowsOf(a) \subseteq Ids
    BY DEF RowsOf, Live
  <2>1. rows' \in Table /\ dropping' \in [Agents -> SUBSET Ids]
    BY <1>4, <2>0 DEF TypeOK, DeleteAgent, Table
  <2>2. clock' \in Clock /\ log' \subseteq Change
    BY <1>4, <2>0, LogChangesEffect DEF DeleteAgent
  <2> QED
    BY <1>4, <2>1, <2>2 DEF TypeOK, DeleteAgent
<1>5. ASSUME NEW a \in Agents, DropIndexes(a) PROVE TypeOK'
  <2>1. purges' \in 0..MaxPurges
    BY <1>5 DEF TypeOK, DropIndexes
  <2>2. dropping' \in [Agents -> SUBSET Ids] /\ purged' \subseteq Ids
    BY <1>5 DEF TypeOK, DropIndexes
  <2>3. files' \in [FileNames -> File \cup {NoFile}]
    BY <1>5 DEF DropIndexes
  <2> QED
    BY <1>5, <2>1, <2>2, <2>3 DEF TypeOK, DropIndexes
<1>6. ASSUME NEW b \in Builders, StartLogging(b) PROVE TypeOK'
  <2>0. clock \in Clock
    BY DEF TypeOK
  <2>1. clock' \in Clock
    <3>1. CASE UNCHANGED clock
      BY <2>0, <3>1
    <3>2. CASE /\ clock.generation < MaxGeneration
               /\ clock' = [clock EXCEPT !.logging = TRUE, !.generation = clock.generation + 1]
      <4>1. clock.generation + 1 \in 0..MaxGeneration
        BY <2>0, <3>2 DEF Clock
      <4>2. clock' = [logging |-> TRUE, generation |-> clock.generation + 1,
                      head |-> clock.head, pruned_through |-> clock.pruned_through]
        BY <2>0, <3>2 DEF Clock
      <4> QED
        BY <2>0, <4>1, <4>2 DEF Clock
    <3> QED
      BY <1>6, <3>1, <3>2 DEF StartLogging
  <2>2. builds' \in [Builders -> Build]
    BY <1>6 DEF TypeOK, StartLogging, Build
  <2> QED
    BY <1>6, <2>1, <2>2 DEF TypeOK, StartLogging
<1>7. ASSUME NEW b \in Builders, PinSnapshot(b) PROVE TypeOK'
  <2>1. PICK w \in 0..MaxRows : builds' = [builds EXCEPT ![b] =
              [pc |-> "planned", built |-> FALSE, todo |-> TargetsOf(b),
               plan |-> IF PositionRefused \/ Declines(rows) THEN NoFile ELSE PlanRows(b, w),
               purges_at_start |-> IF b = "server" THEN purges ELSE 0]]
    BY <1>7 DEF PinSnapshot
  <2>2. PlanRows(b, w) \in File
    BY PlanIsFile
  <2>3. TargetsOf(b) \subseteq FileNames /\ (IF b = "server" THEN purges ELSE 0) \in 0..MaxPurges
    BY DEF TargetsOf, TypeOK
  <2>4. builds' \in [Builders -> Build]
    BY <2>1, <2>2, <2>3 DEF TypeOK, Build
  <2> QED
    BY <1>7, <2>4 DEF TypeOK, PinSnapshot
<1>8. ASSUME NEW b \in Builders, FinishBuilt(b) PROVE TypeOK'
  <2>1. clock' \in Clock /\ log' \subseteq Change
    BY <1>8, PruneLogEffect DEF FinishBuilt, TypeOK
  <2>2. builds' \in [Builders -> Build]
    BY <1>8, IdleIsBuild DEF FinishBuilt, TypeOK
  <2> QED
    BY <1>8, <2>1, <2>2 DEF TypeOK, FinishBuilt
<1>9. ASSUME NEW b \in Builders, FinishDeclined(b) PROVE TypeOK'
  BY <1>9, IdleIsBuild DEF TypeOK, FinishDeclined, db
<1>10. ASSUME NEW b \in Builders, NEW n \in FileNames, Publish(b, n) PROVE TypeOK'
  <2>1. builds[b].plan \in File
    BY <1>10 DEF Publish, TypeOK, Build
  <2>2. files' \in [FileNames -> File \cup {NoFile}]
    BY <1>10, <2>1 DEF Publish, TypeOK
  <2>3. builds' \in [Builders -> Build]
    BY <1>10 DEF Publish, TypeOK, Build, PurgedSince
  <2> QED
    BY <1>10, <2>2, <2>3 DEF TypeOK, Publish
<1>11. CASE StopLogging
  <2>1. clock' \in Clock /\ log' \subseteq Change
    BY <1>11 DEF StopLogging, TypeOK, Clock
  <2>2. builds' \in [Builders -> Build]
    BY <1>11, IdleIsBuild DEF StopLogging, TypeOK
  <2> QED
    BY <1>11, <2>1, <2>2 DEF TypeOK, StopLogging
<1>12. CASE RestartServer
  <2>0. schema \in Schema
    BY DEF TypeOK
  <2>1. schema' \in Schema
    <3>1. CASE UNCHANGED schema
      BY <2>0, <3>1
    <3>2. CASE /\ schema.cookie < MaxCookie
               /\ schema' = [cookie |-> schema.cookie + 1, triggers |-> TRUE]
      BY <2>0, <3>2 DEF Schema
    <3> QED
      BY <1>12, <3>1, <3>2 DEF RestartServer
  <2>2. builds' \in [Builders -> Build]
    BY <1>12, IdleIsBuild DEF RestartServer, TypeOK
  <2> QED
    BY <1>12, <2>1, <2>2 DEF TypeOK, RestartServer
<1>13. CASE InterruptOperator
  BY <1>13, IdleIsBuild DEF TypeOK, InterruptOperator, db
<1>14. ASSUME NEW t \in BOOLEAN, AlterSchema(t) PROVE TypeOK'
  BY <1>14 DEF TypeOK, AlterSchema, Schema
<1>15. ASSUME NEW n \in FileNames, Discard(n) PROVE TypeOK'
  BY <1>15 DEF TypeOK, Discard, db
<1>16. CASE BuildFails
  BY <1>16, IdleIsBuild DEF TypeOK, BuildFails, db
<1>17. CASE UNCHANGED vars
  BY <1>17 DEF TypeOK, vars
<1> QED
  BY <1>1, <1>2, <1>3, <1>4, <1>5, <1>6, <1>7, <1>8, <1>9, <1>10, <1>11, <1>12, <1>13,
     <1>14, <1>15, <1>16, <1>17 DEF Next

\* Type correctness of the table, the log, the files and the builds in flight.
THEOREM TypeCorrect == Spec => []TypeOK
  BY TypeInit, TypeStep, PTL DEF Spec

----------------------------------------------------------------------------
(* What any step may do to the database                                    *)

\* The positions only rise; the log restarts under a higher generation; the mark
\* of a running log only rises; triggers do not change under one cookie; with log
\* and triggers standing every changed row is named above the old head; only rows
\* at or below the mark leave a running log; an id is used once.
Effect ==
    /\ lastId <= lastId'
    /\ clock.generation <= clock'.generation
    /\ clock.head <= clock'.head
    /\ schema.cookie <= schema'.cookie
    /\ clock'.logging /\ ~clock.logging => clock.generation < clock'.generation
    /\ clock'.logging => clock.pruned_through <= clock'.pruned_through
    /\ schema'.cookie = schema.cookie => schema'.triggers = schema.triggers
    /\ clock'.logging /\ clock.logging /\ schema.triggers =>
          \A i \in Ids : i <= lastId /\ rows'[i] # rows[i] =>
              \E e \in log' : e.id = i /\ e.seq > clock.head
    /\ clock'.logging => \A e \in log : e.seq > clock'.pruned_through => e \in log'
    /\ \A i \in Ids : rows'[i] # NoRow /\ rows[i] = NoRow => lastId < i /\ i <= lastId'

\* Every step of the system is bounded by Effect.
LEMMA StepEffect ==
    ASSUME TypeOK, [Next]_vars
    PROVE  Effect
<1>0. /\ lastId \in 0..MaxRows /\ rows \in Table /\ log \subseteq Change
      /\ clock.generation \in 0..MaxGeneration /\ clock.head \in 0..MaxHead
      /\ clock.pruned_through \in 0..MaxHead /\ clock.logging \in BOOLEAN
      /\ schema.cookie \in 0..MaxCookie /\ schema.triggers \in BOOLEAN
      /\ clock \in Clock
  BY DEF TypeOK, Clock, Schema
<1>1. ASSUME NEW row \in Row, Store(row) PROVE Effect
  <2>1. /\ lastId' = lastId + 1 /\ UNCHANGED <<clock, log, schema>>
        /\ \A i \in Ids : rows'[i] = IF i = lastId + 1 THEN row ELSE rows[i]
    BY <1>0, <1>1 DEF Store, Table
  <2> QED
    BY <1>0, <2>1 DEF Effect
<1>2. ASSUME NEW ids, ids \subseteq Ids, LogChanges(ids), UNCHANGED <<lastId, schema>>,
             \A i \in Ids : rows'[i] # rows[i] => i \in ids /\ rows[i] # NoRow
      PROVE  Effect
  <2>1. /\ clock'.logging = clock.logging
        /\ clock'.generation = clock.generation
        /\ clock'.pruned_through = clock.pruned_through
        /\ clock'.head >= clock.head
        /\ log \subseteq log'
        /\ clock.logging /\ schema.triggers =>
              \A i \in ids : \E e \in log' : e.id = i /\ e.seq > clock.head
        /\ clock' \in Clock
    BY <1>2, LogChangesEffect
  <2> QED
    BY <1>0, <1>2, <2>1 DEF Effect, Clock
<1>3. ASSUME UNCHANGED db PROVE Effect
  BY <1>0, <1>3 DEF Effect, db
<1>4. ASSUME NEW i \in Ids, NEW row \in Row, Update(i, row) PROVE Effect
  <2>1. \A j \in Ids : rows'[j] # rows[j] => j \in {i} /\ rows[j] # NoRow
    BY <1>0, <1>4 DEF Update, Table
  <2> QED
    BY <1>2, <1>4, <2>1 DEF Update
<1>5. ASSUME NEW i \in Ids, Delete(i) PROVE Effect
  <2>1. \A j \in Ids : rows'[j] # rows[j] => j \in {i} /\ rows[j] # NoRow
    BY <1>0, <1>5 DEF Delete, Table
  <2> QED
    BY <1>2, <1>5, <2>1 DEF Delete
<1>6. ASSUME NEW a \in Agents, NEW holds \in BOOLEAN, DeleteAgent(a, holds) PROVE Effect
  <2>1. \A j \in Ids : rows'[j] # rows[j] => j \in RowsOf(a) /\ rows[j] # NoRow
    BY <1>6 DEF DeleteAgent, RowsOf, Live
  <2>2. RowsOf(a) \subseteq Ids
    BY DEF RowsOf, Live
  <2> QED
    BY <1>2, <1>6, <2>1, <2>2 DEF DeleteAgent
<1>7. ASSUME NEW a \in Agents, DropIndexes(a) PROVE Effect
  BY <1>3, <1>7 DEF DropIndexes, db
<1>8. ASSUME NEW b \in Builders, StartLogging(b) PROVE Effect
  <2>1. CASE UNCHANGED clock
    BY <1>3, <1>8, <2>1 DEF StartLogging, db
  <2>2. CASE /\ ~clock.logging
             /\ clock' = [clock EXCEPT !.logging = TRUE, !.generation = clock.generation + 1]
    <3>1. /\ clock'.generation = clock.generation + 1 /\ clock'.head = clock.head
          /\ clock'.pruned_through = clock.pruned_through
      BY <1>0, <2>2 DEF Clock
    <3> QED
      BY <1>0, <1>8, <2>2, <3>1 DEF StartLogging, Effect
  <2> QED
    BY <1>8, <2>1, <2>2 DEF StartLogging
<1>9. ASSUME NEW b \in Builders, FinishBuilt(b) PROVE Effect
  <2>1. /\ clock' \in Clock
        /\ clock'.generation = clock.generation
        /\ clock'.head = clock.head
        /\ clock'.logging = clock.logging
        /\ clock'.pruned_through >= clock.pruned_through
        /\ \A e \in log : e.seq > clock'.pruned_through => e \in log'
    BY <1>9, PruneLogEffect DEF FinishBuilt
  <2>2. UNCHANGED <<rows, lastId, schema>>
    BY <1>9 DEF FinishBuilt
  <2> QED
    BY <1>0, <2>1, <2>2 DEF Effect, Clock
<1>10. CASE StopLogging
  <2>1. CASE UNCHANGED <<clock, log>>
    BY <1>3, <1>10, <2>1 DEF StopLogging, db
  <2>2. CASE clock' = [clock EXCEPT !.logging = FALSE, !.pruned_through = clock.head]
    <3>1. /\ clock'.generation = clock.generation /\ clock'.head = clock.head
          /\ clock'.logging = FALSE
      BY <1>0, <2>2 DEF Clock
    <3>2. UNCHANGED <<rows, lastId, schema>>
      BY <1>10 DEF StopLogging
    <3> QED
      BY <1>0, <3>1, <3>2 DEF Effect
  <2> QED
    BY <1>10, <2>1, <2>2 DEF StopLogging
<1>11. ASSUME schema'.cookie = schema.cookie + 1, UNCHANGED <<rows, lastId, clock, log>>
       PROVE  Effect
  BY <1>0, <1>11 DEF Effect
<1>12. CASE RestartServer
  <2>1. UNCHANGED schema \/ schema'.cookie = schema.cookie + 1
    BY <1>12 DEF RestartServer
  <2> QED
    BY <1>3, <1>11, <1>12, <2>1 DEF RestartServer, db
<1>13. ASSUME NEW t \in BOOLEAN, AlterSchema(t) PROVE Effect
  BY <1>11, <1>13 DEF AlterSchema
<1>14. ASSUME NEW b \in Builders, PinSnapshot(b) PROVE Effect
  BY <1>3, <1>14 DEF PinSnapshot, db
<1>15. ASSUME NEW b \in Builders, FinishDeclined(b) PROVE Effect
  BY <1>3, <1>15 DEF FinishDeclined
<1>16. ASSUME NEW b \in Builders, NEW n \in FileNames, Publish(b, n) PROVE Effect
  BY <1>3, <1>16 DEF Publish, db
<1>17. CASE InterruptOperator
  BY <1>3, <1>17 DEF InterruptOperator
<1>18. ASSUME NEW n \in FileNames, Discard(n) PROVE Effect
  BY <1>3, <1>18 DEF Discard
<1>19. CASE BuildFails
  BY <1>3, <1>19 DEF BuildFails
<1>20. CASE UNCHANGED vars
  BY <1>3, <1>20 DEF vars, db
<1> QED
  BY <1>1, <1>4, <1>5, <1>6, <1>7, <1>8, <1>9, <1>10, <1>12, <1>13, <1>14, <1>15, <1>16,
     <1>17, <1>18, <1>19, <1>20 DEF Next
----------------------------------------------------------------------------
(* Files the log vouches for are exact                                     *)

\* The log takes no file back: a file it vouches for after a step it vouched for
\* before, since each condition it can fail moves one way only.
LEMMA VouchedBefore ==
    ASSUME TypeOK, TypeOK', Effect, NEW f \in File, Vouches(f)',
           f.generation <= clock.generation, f.built_seq <= clock.head,
           f.schema_cookie <= schema.cookie
    PROVE  Vouches(f)
<1>1. /\ f.generation \in Nat /\ f.built_seq \in Nat /\ f.schema_cookie \in Nat
      /\ clock \in Clock /\ clock' \in Clock /\ schema \in Schema /\ schema' \in Schema
  BY DEF File, TypeOK
<1>2. /\ clock'.logging /\ clock'.generation = f.generation
      /\ clock'.pruned_through <= f.built_seq /\ schema'.cookie = f.schema_cookie
  BY DEF Vouches
<1>3. clock.logging
  BY <1>1, <1>2 DEF Effect, Clock
<1> QED
  BY <1>1, <1>2, <1>3 DEF Effect, Clock, Schema, Vouches

\* Every step keeps a held file held.
LEMMA HeldStep ==
    ASSUME TypeOK, TypeOK', Effect, NEW f \in File, Held(f)
    PROVE  Held(f)'
<1>1. /\ f.generation \in Nat /\ f.built_seq \in Nat /\ f.schema_cookie \in Nat
      /\ f.watermark \in 0..MaxRows /\ f.holes \subseteq Ids
  BY DEF File
<1>2. /\ clock \in Clock /\ clock' \in Clock /\ schema \in Schema /\ schema' \in Schema
      /\ lastId \in 0..MaxRows /\ lastId' \in 0..MaxRows
      /\ log \subseteq Change /\ log' \subseteq Change
  BY DEF TypeOK
<1>3. /\ f.generation <= clock'.generation
      /\ f.built_seq <= clock'.head
      /\ f.schema_cookie <= schema'.cookie
      /\ f.watermark <= lastId'
      /\ f.schema_cookie = schema'.cookie => schema'.triggers
  BY <1>1, <1>2 DEF Held, Effect, Clock, Schema
<1>4. ASSUME Vouches(f)' PROVE Exact(f)'
  <2>1. Vouches(f) /\ Exact(f)
    BY <1>4, VouchedBefore DEF Held
  <2>2. clock.logging /\ clock'.logging /\ schema.triggers
    BY <1>4, <2>1 DEF Vouches, Held
  <2>3. clock'.pruned_through <= f.built_seq /\ f.built_seq <= clock.head
    BY <1>4, <2>1 DEF Vouches
  <2>4. ASSUME NEW i \in 1..f.watermark, i \notin ChangedSince(f)' \cup f.holes
        PROVE  rows'[i] = f.kept[i]
    <3>1. i \in Ids /\ i <= lastId
      BY <1>1, <1>2 DEF Held
    <3>2. \A e \in log' : e.seq > f.built_seq => e.id # i
      BY <2>4 DEF ChangedSince
    <3>3. \A e \in log : e.seq > f.built_seq => e.seq > clock'.pruned_through
      BY <1>1, <1>2, <2>3 DEF Change, Clock
    <3>4. i \notin ChangedSince(f)
      BY <2>2, <3>2, <3>3 DEF ChangedSince, Effect
    <3>5. \A e \in log' : e.seq > clock.head => e.seq > f.built_seq
      BY <1>1, <1>2, <2>3 DEF Change, Clock
    <3>6. rows'[i] = rows[i]
      BY <2>2, <3>1, <3>2, <3>5 DEF Effect
    <3> QED
      BY <2>1, <2>4, <3>4, <3>6 DEF Exact
  <2> QED
    BY <2>4 DEF Exact
<1> QED
  BY <1>3, <1>4 DEF Held

\* A plan pinned on the live table is held: it keeps the rows it can spell, names
\* the other live ones as holes, and its position is the log's own.
LEMMA PlanHeld ==
    ASSUME TypeOK, NEW b \in Builders, NEW w \in 0..MaxRows, IsWatermark(w, rows),
           ~PositionRefused, \A i \in Ids : rows[i] # NoRow => i <= lastId
    PROVE  Held(PlanRows(b, w))
<1> DEFINE f == PlanRows(b, w)
<1>1. /\ f.generation = clock.generation /\ f.built_seq = clock.head
      /\ f.schema_cookie = schema.cookie /\ f.watermark = w
      /\ f.holes = Excluded(rows) \cup Unembedded(rows)
      /\ \A i \in Ids : f.kept[i] = IF i \in Embedded(rows) \ Excluded(rows) THEN rows[i] ELSE NoRow
  BY DEF PlanRows
<1>2. /\ clock.generation \in Nat /\ clock.head \in Nat /\ schema.cookie \in Nat
      /\ lastId \in Nat
  BY DEF TypeOK, Clock, Schema
<1>3. w <= lastId
  BY <1>2 DEF IsWatermark, Live
<1>4. schema.triggers
  BY DEF PositionRefused
<1>5. ASSUME NEW i \in 1..w, i \notin f.holes PROVE rows[i] = f.kept[i]
  <2>1. i \in Ids
    OBVIOUS
  <2>2. i \in Live(rows) => i \in Embedded(rows) \ Excluded(rows)
    BY <1>1, <1>5 DEF Unembedded
  <2> QED
    BY <1>1, <2>1, <2>2 DEF Live
<1>6. Exact(f)
  BY <1>1, <1>5 DEF Exact
<1> HIDE DEF f
<1>7. Held(f)
  BY <1>1, <1>2, <1>3, <1>4, <1>6 DEF Held
<1> QED
  BY <1>7 DEF f

\* A file comes into use only as the plan of a build that pins its snapshot.
LEMMA OnlyPinMakesFiles ==
    ASSUME TypeOK, [Next]_vars, NEW f \in File, InUse(f)', ~InUse(f)
    PROVE  \E b \in Builders, w \in 0..MaxRows :
              PinSnapshot(b) /\ IsWatermark(w, rows) /\ ~PositionRefused /\ f = PlanRows(b, w)
<1>0. /\ files \in [FileNames -> File \cup {NoFile}] /\ builds \in [Builders -> Build]
      /\ f # NoFile
  BY DEF TypeOK, InUse
<1>1. ASSUME \A n \in FileNames : files'[n] # f \/ files'[n] = files[n]
                                \/ \E b \in Builders : files'[n] = builds[b].plan,
             \A b \in Builders : builds'[b].plan \in {NoFile, builds[b].plan}
      PROVE  FALSE
  BY <1>0, <1>1 DEF InUse
<1>2. ASSUME NEW b \in Builders, PinSnapshot(b)
      PROVE  \E w \in 0..MaxRows :
                IsWatermark(w, rows) /\ ~PositionRefused /\ f = PlanRows(b, w)
  <2>1. PICK w \in 0..MaxRows :
          /\ IsWatermark(w, rows)
          /\ builds' = [builds EXCEPT ![b] =
                [pc |-> "planned", built |-> FALSE, todo |-> TargetsOf(b),
                 plan |-> IF PositionRefused \/ Declines(rows) THEN NoFile ELSE PlanRows(b, w),
                 purges_at_start |-> IF b = "server" THEN purges ELSE 0]]
    BY <1>2 DEF PinSnapshot
  <2>2. /\ builds'[b].plan = IF PositionRefused \/ Declines(rows) THEN NoFile ELSE PlanRows(b, w)
        /\ \A c \in Builders \ {b} : builds'[c] = builds[c]
    BY <1>0, <2>1
  <2>3. files' = files
    BY <1>2 DEF PinSnapshot
  <2>4. builds'[b].plan = f
    BY <2>2, <2>3 DEF InUse
  <2> QED
    BY <1>0, <2>1, <2>2, <2>4
<1>3. ASSUME NEW a \in Agents, DropIndexes(a) PROVE FALSE
  BY <1>0, <1>1, <1>3 DEF DropIndexes
<1>4. ASSUME NEW b \in Builders, StartLogging(b) PROVE FALSE
  BY <1>0, <1>1, <1>4 DEF StartLogging, Build
<1>5. ASSUME NEW b \in Builders, builds' = [builds EXCEPT ![b] = Idle], UNCHANGED files
      PROVE  FALSE
  BY <1>0, <1>1, <1>5 DEF Idle, AtRest
<1>6. ASSUME NEW b \in Builders, FinishDeclined(b) PROVE FALSE
  BY <1>0, <1>1, <1>6 DEF FinishDeclined, Idle, AtRest
<1>7. ASSUME NEW b \in Builders, NEW n \in FileNames, Publish(b, n) PROVE FALSE
  <2>1. \A c \in Builders : builds'[c].plan = builds[c].plan
    BY <1>0, <1>7 DEF Publish, Build
  <2>2. \A m \in FileNames : files'[m] = files[m] \/ files'[m] = builds[b].plan
    BY <1>0, <1>7 DEF Publish
  <2> QED
    BY <1>1, <2>1, <2>2
<1>8. CASE RestartServer
  BY <1>0, <1>1, <1>8 DEF RestartServer, Idle, AtRest
<1>9. ASSUME UNCHANGED <<files, builds>> PROVE FALSE
  BY <1>1, <1>9
<1>10. ASSUME NEW n \in FileNames, Discard(n) PROVE FALSE
  BY <1>0, <1>1, <1>10 DEF Discard
<1>11. CASE BuildFails
  BY <1>0, <1>1, <1>11 DEF BuildFails, AtRest
<1> QED
  BY <1>2, <1>3, <1>4, <1>5, <1>6, <1>7, <1>8, <1>9, <1>10, <1>11
  DEF Next, Store, Update, Delete, DeleteAgent, FinishBuilt, StopLogging, InterruptOperator,
      AlterSchema, vars

\* The invariant that carries the exactness of the files through a step.
LEMMA ExactStep ==
    ASSUME TypeOK, TypeOK', ExactInv, [Next]_vars
    PROVE  ExactInv'
<1>1. Effect
  BY StepEffect
<1>2. \A i \in Ids : rows'[i] # NoRow => i <= lastId'
  BY <1>1 DEF Effect, ExactInv, TypeOK
<1>3. ASSUME NEW f \in File, InUse(f)' PROVE Held(f)'
  <2>1. CASE InUse(f)
    BY <1>1, <2>1, HeldStep DEF ExactInv
  <2>2. CASE ~InUse(f)
    <3>1. PICK b \in Builders, w \in 0..MaxRows :
             IsWatermark(w, rows) /\ ~PositionRefused /\ f = PlanRows(b, w)
      BY <1>3, <2>2, OnlyPinMakesFiles
    <3>2. Held(PlanRows(b, w))
      BY <3>1, PlanHeld DEF ExactInv
    <3>3. Held(f)
      BY <3>1, <3>2
    <3> QED
      BY <1>1, <3>3, HeldStep
  <2> QED
    BY <2>1, <2>2
<1> QED
  BY <1>2, <1>3 DEF ExactInv

\* A file changed_since_build accepts answers exactly for every row its reader does
\* not take from the live table, whatever writes, purges, prunes, restarts of the
\* log, interrupted builds and lost triggers fell in between, and however often.
THEOREM VouchedFilesExact == Spec => []FileExact
<1>1. Init => TypeOK /\ ExactInv
  <2>1. Init => TypeOK
    BY TypeInit
  <2>2. Init => ExactInv
    BY DEF Init, ExactInv, InUse, Idle, AtRest
  <2> QED
    BY <2>1, <2>2
<1>2. TypeOK /\ ExactInv /\ [Next]_vars => TypeOK' /\ ExactInv'
  BY TypeStep, ExactStep
<1>3. TypeOK /\ ExactInv => FileExact
  <2> SUFFICES ASSUME TypeOK, ExactInv, NEW n \in FileNames, files[n] # NoFile, Vouches(files[n])
               PROVE  Exact(files[n])
    BY DEF FileExact
  <2>1. files[n] \in File /\ InUse(files[n])
    BY DEF TypeOK, InUse
  <2>2. Held(files[n])
    BY <2>1 DEF ExactInv
  <2> QED
    BY <2>2 DEF Held
<1> QED
  BY <1>1, <1>2, <1>3, PTL DEF Spec

\* A file the log refused once is refused for good: no restart of the log, prune,
\* schema repair or run of new changes brings an out-of-date file back into use.
THEOREM RefusedForGood == Spec => RefusalIsFinal
<1>1. Init => TypeOK /\ ExactInv
  BY TypeInit DEF Init, ExactInv, InUse, Idle, AtRest
<1>2. TypeOK /\ ExactInv /\ [Next]_vars => TypeOK' /\ ExactInv'
  BY TypeStep, ExactStep
<1>3. TypeOK /\ ExactInv /\ TypeOK' /\ [Next]_vars =>
        [\A n \in FileNames : files[n] # NoFile /\ files'[n] = files[n] /\ ~Vouches(files[n])
            => ~Vouches(files[n])']_vars
  <2> SUFFICES ASSUME TypeOK, ExactInv, TypeOK', [Next]_vars, NEW n \in FileNames,
                      files[n] # NoFile, files'[n] = files[n], Vouches(files[n])'
               PROVE  Vouches(files[n])
    OBVIOUS
  <2>1. PICK f \in File : f = files[n]
    BY DEF TypeOK
  <2>2. Held(f)
    BY <2>1 DEF ExactInv, InUse
  <2>3. Vouches(f)'
    BY <2>1 DEF Vouches
  <2>4. Vouches(f)
    BY <2>2, <2>3, StepEffect, VouchedBefore DEF Held
  <2> QED
    BY <2>1, <2>4
<1> QED
  BY <1>1, <1>2, <1>3, PTL DEF Spec, RefusalIsFinal

\* Pruning never turns a file a reader may use into a refused one: the mark is the
\* oldest position any file on disk of the running generation was built at.
THEOREM PruningKeepsFiles == Spec => PruneKeepsFiles
<1> DEFINE Kept == \A n \in FileNames :
              files[n] # NoFile /\ files'[n] = files[n] /\ Vouches(files[n])
              /\ clock'.pruned_through # clock.pruned_through /\ clock'.logging
                 => Vouches(files[n])'
<1>1. TypeOK /\ [Next]_vars => Kept
  <2> SUFFICES ASSUME TypeOK, [Next]_vars, NEW n \in FileNames, files[n] # NoFile,
                      files'[n] = files[n], Vouches(files[n]),
                      clock'.pruned_through # clock.pruned_through, clock'.logging
               PROVE  Vouches(files[n])'
    OBVIOUS
  <2>0. clock \in Clock
    BY DEF TypeOK
  <2>1. PICK b \in Builders : FinishBuilt(b)
    <3>1. ASSUME NEW ids, ids \subseteq Ids, LogChanges(ids) PROVE FALSE
      BY <3>1, LogChangesEffect
    <3>2. ASSUME NEW b \in Builders, StartLogging(b) PROVE FALSE
      BY <2>0, <3>2 DEF StartLogging, Clock
    <3>3. ASSUME StopLogging PROVE FALSE
      BY <2>0, <3>3 DEF StopLogging, Clock
    <3>4. ASSUME UNCHANGED clock PROVE FALSE
      BY <3>4
    <3>5. \A a \in Agents : RowsOf(a) \subseteq Ids
      BY DEF RowsOf, Live
    <3> QED
      BY <3>1, <3>2, <3>3, <3>4, <3>5
      DEF Next, Store, Update, Delete, DeleteAgent, DropIndexes, PinSnapshot, FinishDeclined,
          Publish, RestartServer, BuildFails, InterruptOperator, AlterSchema, Discard, vars, db
  <2>2. PICK mark \in Heads :
          /\ \A h \in Heads : mark <= h
          /\ clock' = [clock EXCEPT !.pruned_through =
                          IF mark > clock.pruned_through THEN mark ELSE clock.pruned_through]
    BY <2>1 DEF FinishBuilt, PruneLog
  <2>3. mark <= files[n].built_seq
    BY <2>2 DEF Heads, Vouches
  <2>4. /\ clock'.logging = clock.logging /\ clock'.generation = clock.generation
        /\ clock'.head = clock.head
        /\ clock'.pruned_through = IF mark > clock.pruned_through THEN mark ELSE clock.pruned_through
    BY <2>0, <2>2 DEF Clock
  <2>5. schema' = schema
    BY <2>1 DEF FinishBuilt
  <2> QED
    BY <2>3, <2>4, <2>5 DEF Vouches
<1>2. TypeOK /\ [Next]_vars => [Kept]_vars
  BY <1>1
<1> HIDE DEF Kept
<1>3. Spec => [][Kept]_vars
  BY <1>2, TypeCorrect, PTL DEF Spec
<1> QED
  BY <1>3 DEF Kept, PruneKeepsFiles

----------------------------------------------------------------------------
(* A purged row does not come back to disk                                 *)

\* An id that is gone stays gone: AUTOINCREMENT does not hand it out again.
LEMMA GoneStaysGone ==
    ASSUME TypeOK, TypeOK', Effect, NEW i \in Ids, Gone(i)
    PROVE  Gone(i)'
  BY DEF Gone, Effect, TypeOK

\* The invariant that carries the purge through a step, for the parts no step but
\* a purge or a build moves.
LEMMA PurgeStep ==
    ASSUME TypeOK, TypeOK', PurgeInv, [Next]_vars
    PROVE  PurgeInv'
<1>0. /\ Effect
      /\ files \in [FileNames -> File \cup {NoFile}] /\ builds \in [Builders -> Build]
      /\ purges \in Nat /\ purged \subseteq Ids /\ dropping \in [Agents -> SUBSET Ids]
      /\ builds["server"].purges_at_start \in Nat
  BY StepEffect DEF TypeOK, Build
<1>1. /\ \A i \in Ids : rows'[i] # NoRow => i <= lastId'
      /\ \A i \in purged : Gone(i)'
      /\ \A a \in Agents : \A i \in dropping[a] : Gone(i)'
  BY <1>0, GoneStaysGone DEF PurgeInv, Effect, TypeOK
<1>2. ASSUME UNCHANGED <<files, builds, purges, purged>>,
             \A a \in Agents : \A i \in dropping'[a] : Gone(i)'
      PROVE  PurgeInv'
  BY <1>1, <1>2 DEF PurgeInv, NoResurrection
<1>3. ASSUME UNCHANGED <<files, purges, dropping, purged>>,
             \A b \in Builders : \/ builds'[b].plan = NoFile /\ builds'[b].purges_at_start = 0
                                 \/ /\ builds'[b].plan = builds[b].plan
                                    /\ builds'[b].purges_at_start = builds[b].purges_at_start
      PROVE  PurgeInv'
  BY <1>0, <1>1, <1>3 DEF PurgeInv, NoResurrection
<1>4. ASSUME NEW row \in Row, Store(row) PROVE PurgeInv'
  BY <1>1, <1>2, <1>4 DEF Store
<1>5. ASSUME NEW i \in Ids, NEW row \in Row, Update(i, row) PROVE PurgeInv'
  BY <1>1, <1>2, <1>5 DEF Update
<1>6. ASSUME NEW i \in Ids, Delete(i) PROVE PurgeInv'
  BY <1>1, <1>2, <1>6 DEF Delete
<1>7. ASSUME NEW a \in Agents, NEW holds \in BOOLEAN, DeleteAgent(a, holds) PROVE PurgeInv'
  <2>1. \A i \in RowsOf(a) : Gone(i)'
    <3>1. \A i \in RowsOf(a) : i \in Ids /\ rows'[i] = NoRow
      BY <1>7 DEF DeleteAgent, RowsOf, Live
    <3>2. \A i \in RowsOf(a) : i <= lastId'
      BY <1>7 DEF DeleteAgent, RowsOf, Live, PurgeInv
    <3> QED
      BY <3>1, <3>2 DEF Gone
  <2>2. \A c \in Agents : dropping'[c] \subseteq dropping[c] \cup RowsOf(a)
    BY <1>0, <1>7 DEF DeleteAgent
  <2> QED
    BY <1>1, <1>2, <1>7, <2>1, <2>2 DEF DeleteAgent
<1>8. ASSUME NEW a \in Agents, DropIndexes(a) PROVE PurgeInv'
  <2>1. /\ purges' = purges + 1 /\ purged' = purged \cup dropping[a]
        /\ \A n \in FileNames : files'[n] = NoFile
        /\ \A c \in Agents : dropping'[c] \subseteq dropping[c]
        /\ builds' = builds
    BY <1>0, <1>8 DEF DropIndexes
  <2>2. builds["server"].purges_at_start < purges'
    BY <1>0, <2>1 DEF PurgeInv
  <2>3. \A i \in purged' : Gone(i)'
    BY <1>1, <2>1
  <2> QED
    BY <1>0, <1>1, <2>1, <2>2, <2>3 DEF PurgeInv, NoResurrection
<1>9. ASSUME NEW b \in Builders, StartLogging(b) PROVE PurgeInv'
  <2>1. \A c \in Builders : /\ builds'[c].plan = builds[c].plan
                            /\ builds'[c].purges_at_start = builds[c].purges_at_start
    BY <1>0, <1>9 DEF StartLogging, Build
  <2> QED
    BY <1>3, <1>9, <2>1 DEF StartLogging
<1>10. ASSUME NEW b \in Builders, PinSnapshot(b) PROVE PurgeInv'
  <2>1. PICK w \in 0..MaxRows :
          builds' = [builds EXCEPT ![b] =
                [pc |-> "planned", built |-> FALSE, todo |-> TargetsOf(b),
                 plan |-> IF PositionRefused \/ Declines(rows) THEN NoFile ELSE PlanRows(b, w),
                 purges_at_start |-> IF b = "server" THEN purges ELSE 0]]
    BY <1>10 DEF PinSnapshot
  <2>2. /\ builds'[b].plan = IF PositionRefused \/ Declines(rows) THEN NoFile ELSE PlanRows(b, w)
        /\ builds'[b].purges_at_start = IF b = "server" THEN purges ELSE 0
        /\ \A c \in Builders \ {b} : builds'[c] = builds[c]
    BY <1>0, <2>1
  <2>3. PlanRows(b, w).by = b /\ \A i \in purged : PlanRows(b, w).kept[i] = NoRow
    BY <1>0 DEF PlanRows, PurgeInv, Gone, Embedded, Live
  <2>4. UNCHANGED <<files, purges, dropping, purged>>
    BY <1>10 DEF PinSnapshot
  <2> QED
    BY <1>0, <1>1, <2>2, <2>3, <2>4 DEF PurgeInv, NoResurrection
<1>11. ASSUME NEW b \in Builders, NEW n \in FileNames, Publish(b, n) PROVE PurgeInv'
  <2>1. \A c \in Builders : /\ builds'[c].plan = builds[c].plan
                            /\ builds'[c].purges_at_start = builds[c].purges_at_start
    BY <1>0, <1>11 DEF Publish, Build
  <2>2. UNCHANGED <<purges, dropping, purged>>
    BY <1>11 DEF Publish
  <2>3. \A m \in FileNames : files'[m] = files[m] \/ (files'[m] = builds[b].plan /\ ~PurgedSince(b))
    BY <1>0, <1>11 DEF Publish
  <2>4. NoResurrection'
    BY <2>2, <2>3 DEF PurgeInv, NoResurrection, PurgedSince
  <2> QED
    BY <1>1, <2>1, <2>2, <2>4 DEF PurgeInv
<1>12. ASSUME NEW b \in Builders, builds' = [builds EXCEPT ![b] = Idle],
              UNCHANGED <<files, purges, dropping, purged>>
       PROVE  PurgeInv'
  BY <1>0, <1>3, <1>12 DEF Idle, AtRest
<1>13. ASSUME NEW b \in Builders, FinishDeclined(b) PROVE PurgeInv'
  BY <1>0, <1>3, <1>13 DEF FinishDeclined, Idle, AtRest
<1>14. CASE RestartServer
  <2>1. /\ builds'["server"].plan = NoFile /\ builds'["server"].purges_at_start = 0
        /\ builds'["operator"] = builds["operator"]
        /\ purges' = 0 /\ UNCHANGED <<files, purged>>
        /\ \A a \in Agents : dropping'[a] = {}
    BY <1>0, <1>14 DEF RestartServer, Idle, AtRest
  <2> QED
    BY <1>1, <2>1 DEF PurgeInv, NoResurrection
<1>15. ASSUME NEW t \in BOOLEAN, AlterSchema(t) PROVE PurgeInv'
  BY <1>1, <1>2, <1>15 DEF AlterSchema
<1>16. ASSUME NEW n \in FileNames, Discard(n) PROVE PurgeInv'
  <2>1. /\ \A m \in FileNames : files'[m] \in {NoFile, files[m]}
        /\ UNCHANGED <<builds, purges, dropping, purged>>
    BY <1>0, <1>16 DEF Discard
  <2> QED
    BY <1>1, <2>1 DEF PurgeInv, NoResurrection
<1>17. CASE BuildFails
  BY <1>0, <1>3, <1>17 DEF BuildFails, AtRest
<1>18. CASE UNCHANGED vars
  BY <1>1, <1>2, <1>18 DEF vars
<1> QED
  BY <1>4, <1>5, <1>6, <1>7, <1>8, <1>9, <1>10, <1>11, <1>12, <1>13, <1>14, <1>15, <1>16,
     <1>17, <1>18
  DEF Next, FinishBuilt, StopLogging, InterruptOperator

\* Once a purge has dropped the index files, no file the server's own build publishes
\* holds a row that purge deleted, however the build, the purge and a restart interleave.
THEOREM PurgedStaysGone == Spec => []NoResurrection
<1>1. Init => TypeOK /\ PurgeInv
  BY TypeInit DEF Init, PurgeInv, NoResurrection, Idle, AtRest
<1>2. TypeOK /\ PurgeInv /\ [Next]_vars => TypeOK' /\ PurgeInv'
  BY TypeStep, PurgeStep
<1>3. PurgeInv => NoResurrection
  BY DEF PurgeInv
<1> QED
  BY <1>1, <1>2, <1>3, PTL DEF Spec

----------------------------------------------------------------------------
(* The first rows of a set, in the scan's order                            *)

\* ORDER BY created_at DESC, id ASC is a strict total order of the rows there are.
LEMMA BeforeIsOrder ==
    ASSUME NEW t \in Table
    PROVE  /\ \A i \in Live(t) : ~Before(t, i, i)
           /\ \A i, j, k \in Live(t) : Before(t, i, j) /\ Before(t, j, k) => Before(t, i, k)
           /\ \A i, j \in Live(t) : i = j \/ Before(t, i, j) \/ Before(t, j, i)
<1>1. \A i \in Live(t) : i \in Nat /\ t[i] \in Row
  BY IndexConstants DEF Live, Table, Ids
<1>2. \A i \in Live(t) : t[i].at \in Nat
  BY <1>1, IndexConstants DEF Row
<1> QED
  BY <1>1, <1>2 DEF Before

\* A row that is not among the first n of a set has n of the first before it.
LEMMA FirstAreBefore ==
    ASSUME NEW t \in Table, NEW A, A \subseteq Live(t), NEW n \in Nat, NEW p \in A, p \notin First(t, A, n)
    PROVE  Cardinality({j \in First(t, A, n) : Before(t, j, p)}) >= n
<1> DEFINE F == First(t, A, n)
           D == A \ F
<1>1. F \subseteq A /\ D \subseteq A /\ p \in D /\ A \subseteq Ids
  BY DEF First, Live
<1>2. \A i \in A : i \in F <=> Cardinality({j \in A : Before(t, j, i)}) < n
  BY DEF First
<1> HIDE DEF F
<1>3. \A i, j, k \in A : /\ ~Before(t, i, i) /\ (Before(t, i, j) /\ Before(t, j, k) => Before(t, i, k))
                         /\ i = j \/ Before(t, i, j) \/ Before(t, j, i)
  BY BeforeIsOrder
<1>4. PICK x \in D : \A y \in D : ~Before(t, y, x)
  <2> DEFINE below(x) == {y \in D : Before(t, y, x)}
             family   == {below(x) : x \in D}
             R        == StrictSubsetOrdering(D)
  <2>1. IsFiniteSet(D)
    BY <1>1, FiniteIds
  <2>2. family \subseteq FiniteSubsetsOf(D) /\ family # {}
    <3>1. \A x \in D : below(x) \in SUBSET D
      OBVIOUS
    <3>2. \A x \in D : IsFiniteSet(below(x))
      BY <2>1, <3>1, FS_Subset
    <3> HIDE DEF D
    <3> QED
      BY <1>1, <3>1, <3>2 DEF FiniteSubsetsOf
  <2>3. PICK G \in family : \A H \in family : <<H, G>> \notin R
    <3>1. IsWellFoundedOn(R, FiniteSubsetsOf(D))
      BY <2>1, FS_StrictSubsetOrderingWellFounded
    <3> HIDE DEF R, family
    <3> QED
      BY <2>2, <3>1, WFMin
  <2>4. PICK x \in D : G = below(x)
    OBVIOUS
  <2>5. ASSUME NEW y \in D, Before(t, y, x) PROVE FALSE
    <3>1. \A z \in D : Before(t, z, y) => Before(t, z, x)
      BY <1>1, <1>3, <2>5
    <3>2. ~Before(t, y, y)
      BY <1>1, <1>3
    <3> HIDE DEF D
    <3>3. below(y) \subseteq below(x) /\ y \in below(x) /\ y \notin below(y)
      BY <2>5, <3>1, <3>2, Zenon
    <3>4. below(y) \in SUBSET D /\ below(x) \in SUBSET D
      OBVIOUS
    <3>5. <<below(y), below(x)>> \in R
      BY <3>3, <3>4 DEF StrictSubsetOrdering
    <3> QED
      BY <2>3, <2>4, <3>5
  <2> QED
    BY <2>5
<1> DEFINE P == {j \in A : Before(t, j, x)}
           Q == {j \in F : Before(t, j, p)}
<1>5. ~(Cardinality(P) < n)
  BY <1>2
<1>6. P \subseteq Q
  BY <1>1, <1>3, <1>4
<1>7. P \subseteq Ids /\ Q \subseteq Ids
  BY <1>1
<1> HIDE DEF P, Q
<1>8. IsFiniteSet(Q) /\ Cardinality(Q) \in Nat /\ Cardinality(P) \in Nat
  BY <1>7, FiniteIds
<1>9. Cardinality(P) <= Cardinality(Q)
  BY <1>6, <1>8, FS_Subset
<1>10. Cardinality(Q) >= n
  BY <1>5, <1>8, <1>9
<1> QED
  BY <1>10 DEF Q, F

\* Two runs, each cut to the window, merged and cut to it hold the window of all their rows:
\* the limit may be taken of each first (_window_selection).
LEMMA FirstOfRuns ==
    ASSUME NEW t \in Table, NEW A, A \subseteq Live(t), NEW B, B \subseteq Live(t), NEW n \in Nat
    PROVE  First(t, First(t, A, n) \cup First(t, B, n), n) = First(t, A \cup B, n)
<1> DEFINE FA == First(t, A, n)
           FB == First(t, B, n)
           U  == A \cup B
           M  == FA \cup FB
           Pre(S, i) == {j \in S : Before(t, j, i)}
<1>1. FA \subseteq A /\ FB \subseteq B /\ U \subseteq Live(t) /\ U \subseteq Ids
  BY DEF First, Live
<1>2. \A S, i : S \subseteq U => IsFiniteSet(Pre(S, i)) /\ Cardinality(Pre(S, i)) \in Nat
  <2> SUFFICES ASSUME NEW S, NEW i, S \subseteq U PROVE Pre(S, i) \subseteq Ids
    BY FiniteIds
  <2> QED
    BY <1>1
<1>3. \A S, T, i : S \subseteq T /\ T \subseteq U => Cardinality(Pre(S, i)) <= Cardinality(Pre(T, i))
  <2> SUFFICES ASSUME NEW S, NEW T, NEW i, S \subseteq T, T \subseteq U
               PROVE  Cardinality(Pre(S, i)) <= Cardinality(Pre(T, i))
    OBVIOUS
  <2>1. Pre(S, i) \in SUBSET Pre(T, i)
    OBVIOUS
  <2>2. IsFiniteSet(Pre(T, i))
    BY <1>2
  <2> HIDE DEF Pre
  <2> QED
    BY <2>1, <2>2, FS_Subset
<1>4. /\ \A i : i \in FA <=> i \in A /\ Cardinality(Pre(A, i)) < n
      /\ \A i : i \in FB <=> i \in B /\ Cardinality(Pre(B, i)) < n
      /\ \A i : i \in First(t, M, n) <=> i \in M /\ Cardinality(Pre(M, i)) < n
      /\ \A i : i \in First(t, U, n) <=> i \in U /\ Cardinality(Pre(U, i)) < n
  BY DEF First
<1>5. ASSUME NEW p \in U, p \notin M PROVE Cardinality(Pre(M, p)) >= n
  <2>1. CASE p \in A
    <3>1. Cardinality(Pre(FA, p)) >= n
      BY <1>5, <2>1, FirstAreBefore
    <3> HIDE DEF FA, FB, Pre
    <3>2. M \subseteq U /\ FA \subseteq M /\ FA \subseteq U
      BY <1>1
    <3>3. Cardinality(Pre(FA, p)) <= Cardinality(Pre(M, p)) /\ Cardinality(Pre(FA, p)) \in Nat /\ Cardinality(Pre(M, p)) \in Nat
      BY <1>2, <1>3, <3>2
    <3> QED
      BY <3>1, <3>3
  <2>2. CASE p \in B
    <3>1. Cardinality(Pre(FB, p)) >= n
      BY <1>5, <2>2, FirstAreBefore
    <3> HIDE DEF FA, FB, Pre
    <3>2. M \subseteq U /\ FB \subseteq M /\ FB \subseteq U
      BY <1>1
    <3>3. Cardinality(Pre(FB, p)) <= Cardinality(Pre(M, p)) /\ Cardinality(Pre(FB, p)) \in Nat /\ Cardinality(Pre(M, p)) \in Nat
      BY <1>2, <1>3, <3>2
    <3> QED
      BY <3>1, <3>3
  <2> QED
    BY <2>1, <2>2
<1>6. ASSUME NEW i \in First(t, U, n) PROVE i \in First(t, M, n)
  <2>1. i \in U /\ Cardinality(Pre(U, i)) < n
    BY <1>4
  <2>2. A \subseteq U /\ B \subseteq U /\ M \subseteq U
    BY <1>1
  <2> HIDE DEF FA, FB, U, M, Pre
  <2>3. \A S : S \subseteq U => Cardinality(Pre(S, i)) < n
    <3> SUFFICES ASSUME NEW S, S \subseteq U PROVE Cardinality(Pre(S, i)) < n
      OBVIOUS
    <3>1. Cardinality(Pre(S, i)) <= Cardinality(Pre(U, i)) /\ Cardinality(Pre(S, i)) \in Nat /\ Cardinality(Pre(U, i)) \in Nat
      BY <1>2, <1>3
    <3> QED
      BY <2>1, <3>1
  <2>4. i \in M
    BY <1>4, <2>1, <2>2, <2>3 DEF U, M
  <2> QED
    BY <1>4, <2>2, <2>3, <2>4
<1>7. ASSUME NEW i \in First(t, M, n) PROVE i \in First(t, U, n)
  <2>1. i \in M /\ Cardinality(Pre(M, i)) < n /\ i \in U /\ M \subseteq U
    BY <1>1, <1>4
  <2>2. ASSUME NEW p \in Pre(U, i), p \notin M PROVE FALSE
    <3>1. p \in U /\ Before(t, p, i)
      OBVIOUS
    <3>2. Cardinality(Pre(M, p)) >= n
      BY <1>5, <2>2, <3>1
    <3>3. Pre(M, p) \in SUBSET Pre(M, i)
      BY <1>1, <2>1, <3>1, BeforeIsOrder
    <3>4. IsFiniteSet(Pre(M, i)) /\ Cardinality(Pre(M, i)) \in Nat /\ Cardinality(Pre(M, p)) \in Nat
      BY <1>2, <2>1
    <3> HIDE DEF M, Pre
    <3>5. Cardinality(Pre(M, p)) <= Cardinality(Pre(M, i))
      BY <3>3, <3>4, FS_Subset
    <3> QED
      BY <2>1, <3>2, <3>4, <3>5
  <2>3. Pre(U, i) = Pre(M, i)
    BY <2>1, <2>2
  <2> QED
    BY <1>4, <2>1, <2>3
<1> QED
  BY <1>6, <1>7

\* Which rows come first depends only on the rows they are taken from.
LEMMA FirstOfSame ==
    ASSUME NEW t, NEW u, NEW S, NEW n, \A i \in S : u[i] = t[i]
    PROVE  First(u, S, n) = First(t, S, n)
<1>1. \A i, j \in S : Before(u, j, i) <=> Before(t, j, i)
  BY DEF Before
<1>2. \A i \in S : {j \in S : Before(u, j, i)} = {j \in S : Before(t, j, i)}
  BY <1>1
<1> QED
  BY <1>2 DEF First

----------------------------------------------------------------------------
(* The invariant                                                           *)

\* What a file holds lies at or below its watermark, is not a hole, and is embedded.
Shape(f) == \A i \in Live(f.kept) : i <= f.watermark /\ i \notin f.holes /\ f.kept[i].vec # NoVec

ShapeInv == \A f \in File : InUse(f) => Shape(f)

\* Before the log is read the query's file is as good as one on disk.
QueryReads == q.pc = "log" => q.index \in File /\ Held(q.index) /\ Shape(q.index)

\* The rows the query takes from the file.
FromFile == {i \in Live(q.index.kept) : q.index.kept[i].agent = QueryAgent /\ i \notin q.changed}

\* Once the log vouched for it, the rows taken from it were in the table at that moment,
\* and still are while the table is quiet.
QueryTrusts ==
    q.pc \in {"probe", "count", "tail"} =>
        /\ q.index \in File /\ Shape(q.index)
        /\ \A i \in FromFile : <<i, q.index.kept[i].vec>> \in q.seen
        /\ q.quiet => \A i \in 1..q.index.watermark : i \notin q.changed \cup q.index.holes => rows[i] = q.index.kept[i]

\* A ranked window holds what was seen, and is the scan's while the table is quiet.
QueryRanks ==
    q.pc \in {"hydrate", "fill"} =>
        /\ Scores(q.window, Survivors(q.window)) \subseteq q.seen
        /\ q.quiet => q.window = ScanWindow(rows)

\* The history has every scored row the table held since the query began.
QueryWitnesses == q.pc # "idle" => Scores(rows, InScope(rows)) \subseteq q.seen

QueryAnswers == /\ q.answer \subseteq q.seen
                /\ q.pc # "done" => q.answer = {}
                /\ q.pc = "done" /\ q.quiet => q.answer = ScanAnswer(rows)

QInv == QueryReads /\ QueryTrusts /\ QueryRanks /\ QueryWitnesses /\ QueryAnswers

\* A planned file has its shape, so every file in use has.
LEMMA ShapeStep ==
    ASSUME TypeOK, ShapeInv, [Next]_vars
    PROVE  ShapeInv'
<1> SUFFICES ASSUME NEW f \in File, InUse(f)' PROVE Shape(f)
  BY DEF ShapeInv, Shape
<1>1. CASE InUse(f)
  BY <1>1 DEF ShapeInv
<1>2. CASE ~InUse(f)
  <2>1. PICK b \in Builders, w \in 0..MaxRows : IsWatermark(w, rows) /\ f = PlanRows(b, w)
    BY <1>2, OnlyPinMakesFiles
  <2>2. /\ f.watermark = w /\ f.holes = Excluded(rows) \cup Unembedded(rows)
        /\ f.kept = [i \in Ids |-> IF i \in Embedded(rows) \ Excluded(rows) THEN rows[i] ELSE NoRow]
    BY <2>1 DEF PlanRows
  <2>3. \A i \in Live(f.kept) : i \in Embedded(rows) /\ i \notin Excluded(rows) /\ f.kept[i] = rows[i]
    BY <2>2 DEF Live
  <2> QED
    BY <2>1, <2>2, <2>3 DEF Shape, IsWatermark, Embedded, Unembedded
<1> QED
  BY <1>1, <1>2

\* The scored rows of a window, and of the table, are ids with vectors.
LEMMA ScoresTyped ==
    ASSUME NEW w \in Table
    PROVE  /\ Survivors(w) \subseteq Live(w) /\ Scores(w, Survivors(w)) \subseteq Scored
           /\ InScope(w) \subseteq Live(w) /\ Scores(w, InScope(w)) \subseteq Scored
           /\ \A S : Only(w, S) \in Table
<1>1. \A i \in Live(w) : i \in Ids /\ w[i] \in Row
  BY DEF Live, Table
<1>2. \A i \in Live(w) : w[i].vec \in Vectors \cup {NoVec}
  BY <1>1 DEF Row
<1>3. \A S : Only(w, S) \in Table
  BY DEF Only, Table
<1>4. \A i \in Survivors(w) : i \in Live(w) /\ w[i].vec \in Vectors
  BY QueryConstants DEF Survivors
<1>5. \A i \in InScope(w) : i \in Live(w) /\ w[i].vec \in Vectors
  BY <1>2 DEF InScope, Embedded
<1> QED
  BY <1>1, <1>3, <1>4, <1>5 DEF Scores, Scored

\* The rows the two runs are taken from.
FromTable == {i \in InScope(rows) : i > q.index.watermark \/ i \in q.index.holes \cup q.changed}

\* The merged window holds rows of the file that were trusted and rows of the table.
LEMMA MergedRows ==
    ASSUME TypeOK, q.index \in File
    PROVE  /\ Merged \in Table
           /\ \A i \in Live(Merged) : (i \in FromTable /\ Merged[i] = rows[i]) \/ (i \in FromFile /\ Merged[i] = q.index.kept[i])
<1> DEFINE both == [i \in Ids |-> IF i \in Tail THEN rows[i] ELSE IF i \in Selection THEN q.index.kept[i] ELSE NoRow]
           S == First(both, Tail \cup Selection, Window)
<1>1. rows \in Table /\ q.index.kept \in Table
  BY DEF TypeOK, File
<1>2. both \in Table
  BY <1>1 DEF Table
<1>3. Merged = Only(both, S)
  BY DEF Merged
<1>4. Tail \subseteq FromTable /\ Selection \subseteq FromFile /\ S \subseteq Tail \cup Selection
  BY DEF Tail, Selection, First, FromTable, FromFile
<1>5. \A i \in Ids : both[i] = IF i \in Tail THEN rows[i] ELSE IF i \in Selection THEN q.index.kept[i] ELSE NoRow
  OBVIOUS
<1> HIDE DEF both, S
<1>6. \A i \in Live(Merged) : i \in Ids /\ i \in S /\ Merged[i] = both[i]
  BY <1>3 DEF Only, Live
<1>7. \A i \in Live(Merged) : (i \in FromTable /\ Merged[i] = rows[i]) \/ (i \in FromFile /\ Merged[i] = q.index.kept[i])
  BY <1>4, <1>5, <1>6
<1> QED
  BY <1>2, <1>3, <1>7, ScoresTyped

\* Where the file is exact for the table, the window merged from both is the scan's.
LEMMA MergedIsScan ==
    ASSUME TypeOK, q.index \in File, Shape(q.index),
           \A i \in 1..q.index.watermark : i \notin q.changed \cup q.index.holes => rows[i] = q.index.kept[i]
    PROVE  Merged = ScanWindow(rows)
<1> DEFINE kept == q.index.kept
           both == [i \in Ids |-> IF i \in Tail THEN rows[i] ELSE IF i \in Selection THEN kept[i] ELSE NoRow]
           A == FromFile
           B == FromTable
<1>1. rows \in Table /\ kept \in Table /\ q.index.watermark \in 0..MaxRows
  BY DEF TypeOK, File
<1>2. \A i \in A : i \in Ids /\ kept[i] # NoRow /\ kept[i].agent = QueryAgent /\ kept[i].vec # NoVec /\ kept[i] = rows[i]
  <2> SUFFICES ASSUME NEW i \in A PROVE i \in Ids /\ kept[i] # NoRow /\ kept[i].agent = QueryAgent /\ kept[i].vec # NoVec /\ kept[i] = rows[i]
    OBVIOUS
  <2>1. i \in Live(kept) /\ kept[i].agent = QueryAgent /\ i \notin q.changed
    BY DEF FromFile
  <2>2. i \in Ids /\ kept[i] # NoRow /\ i <= q.index.watermark /\ i \notin q.index.holes /\ kept[i].vec # NoVec
    BY <2>1 DEF Shape, Live
  <2>3. i \in 1..q.index.watermark
    BY <1>1, <2>2 DEF Ids
  <2> QED
    BY <2>1, <2>2, <2>3
<1>3. A \subseteq InScope(rows)
  BY <1>2 DEF InScope, Embedded, Live
<1>4. \A i \in InScope(rows) : i \in A \/ i \in B
  <2> SUFFICES ASSUME NEW i \in InScope(rows), i \notin B PROVE i \in A
    OBVIOUS
  <2>1. i \in Ids /\ rows[i] # NoRow /\ rows[i].agent = QueryAgent
    BY DEF InScope, Embedded, Live
  <2>2. ~(i > q.index.watermark) /\ i \notin q.index.holes \cup q.changed
    BY DEF FromTable
  <2>3. i \in 1..q.index.watermark
    BY <1>1, <2>1, <2>2 DEF Ids
  <2> QED
    BY <2>1, <2>2, <2>3 DEF FromFile, Live
<1>5. A \cup B = InScope(rows) /\ InScope(rows) \subseteq Live(rows)
  BY <1>3, <1>4 DEF FromTable, InScope, Embedded
<1>6. Selection = First(rows, A, Window) /\ Tail = First(rows, B, Window)
  <2>1. Selection = First(kept, A, Window)
    BY DEF Selection, FromFile
  <2>2. First(kept, A, Window) = First(rows, A, Window)
    <3>1. \A i \in A : kept[i] = rows[i]
      BY <1>2
    <3> HIDE DEF A, kept
    <3> QED
      BY <3>1, FirstOfSame
  <2>3. Tail = First(rows, B, Window)
    BY DEF Tail, FromTable
  <2> QED
    BY <2>1, <2>2, <2>3
<1>7. First(rows, Tail \cup Selection, Window) = First(rows, InScope(rows), Window)
  <2>1. First(rows, First(rows, A, Window) \cup First(rows, B, Window), Window) = First(rows, A \cup B, Window)
    <3>1. A \subseteq Live(rows) /\ B \subseteq Live(rows) /\ Window \in Nat
      BY <1>5, QueryConstants
    <3> HIDE DEF A, B
    <3> QED
      BY <1>1, <3>1, FirstOfRuns
  <2>2. Tail \cup Selection = First(rows, A, Window) \cup First(rows, B, Window)
    BY <1>6
  <2> QED
    BY <1>5, <2>1, <2>2
<1>8. Tail \subseteq B /\ Selection \subseteq A
  BY DEF Tail, Selection, First, FromTable, FromFile
<1>9. \A i \in Tail \cup Selection : i \in Ids /\ both[i] = rows[i]
  BY <1>2, <1>5, <1>8 DEF Live
<1>10. Merged = Only(both, First(both, Tail \cup Selection, Window))
  BY DEF Merged
<1> HIDE DEF both
<1>11. First(both, Tail \cup Selection, Window) = First(rows, Tail \cup Selection, Window)
  BY <1>9, FirstOfSame
<1> DEFINE F == First(rows, Tail \cup Selection, Window)
<1>12. F \subseteq Tail \cup Selection
  BY DEF First
<1>13. Merged = Only(both, F) /\ ScanWindow(rows) = Only(rows, F)
  BY <1>7, <1>10, <1>11 DEF ScanWindow
<1> HIDE DEF F
<1>14. Only(both, F) = Only(rows, F)
  BY <1>9, <1>12 DEF Only
<1> QED
  BY <1>13, <1>14

\* Every row of the scan's window that survives is one the hydration finds, and was seen.
LEMMA ScanRows ==
    ASSUME TypeOK
    PROVE  /\ ScanWindow(rows) \in Table
           /\ \A i \in Survivors(ScanWindow(rows)) : i \in InScope(rows) /\ ScanWindow(rows)[i] = rows[i]
<1>1. rows \in Table
  BY DEF TypeOK
<1> DEFINE F == First(rows, InScope(rows), Window)
<1>2. F \subseteq InScope(rows) /\ ScanWindow(rows) = Only(rows, F)
  BY DEF First, ScanWindow
<1> HIDE DEF F
<1>3. \A i \in Survivors(ScanWindow(rows)) : i \in F /\ i \in Ids /\ ScanWindow(rows)[i] = rows[i]
  BY <1>2 DEF Survivors, Live, Only
<1> QED
  BY <1>1, <1>2, <1>3, ScoresTyped

----------------------------------------------------------------------------
(* Every step keeps the query's invariant                                  *)

\* What the system does beside the query adds to its histories and nothing else.
LEMMA BesideStep ==
    ASSUME TypeOK, TypeOK', ExactInv, q \in Query, QInv, Beside
    PROVE  q' \in Query /\ QInv'
<1>1. CASE q.pc = "idle"
  <2>1. q' = q
    BY <1>1 DEF Beside, Observed
  <2> QED
    BY <1>1, <2>1 DEF QInv, QueryReads, QueryTrusts, QueryRanks, QueryWitnesses, QueryAnswers
<1>2. CASE q.pc # "idle"
  <2> DEFINE quiet == q.quiet /\ rows' = rows
             seen  == q.seen \cup Scores(rows', InScope(rows'))
  <2>1. q' = [q EXCEPT !.quiet = quiet, !.seen = seen]
    BY <1>2 DEF Beside, Observed
  <2>2. seen \subseteq Scored
    <3>1. rows' \in Table
      BY DEF TypeOK
    <3>2. Scores(rows', InScope(rows')) \subseteq Scored
      BY <3>1, ScoresTyped
    <3> QED
      BY <3>2 DEF Query
  <2>3. quiet \in BOOLEAN
    BY Zenon
  <2>4. (quiet => q.quiet /\ rows' = rows) /\ q.seen \subseteq seen /\ Scores(rows', InScope(rows')) \subseteq seen
    OBVIOUS
  <2> HIDE DEF quiet, seen
  <2>5. q' \in Query
    BY <2>1, <2>2, <2>3 DEF Query
  <2>6. /\ q'.pc = q.pc /\ q'.index = q.index /\ q'.changed = q.changed /\ q'.window = q.window
        /\ q'.answer = q.answer /\ q'.quiet = quiet /\ q'.seen = seen
    BY <2>1 DEF Query
  <2>7. QueryReads'
    <3> SUFFICES ASSUME q.pc = "log" PROVE QueryReads'
      BY <2>6 DEF QueryReads
    <3>1. PICK f \in File : f = q.index
      BY DEF QInv, QueryReads
    <3>2. Held(f) /\ Shape(f)
      BY <3>1 DEF QInv, QueryReads
    <3>3. Held(f)'
      BY <3>2, StepEffect, HeldStep DEF Beside
    <3>4. f = q'.index
      BY <2>6, <3>1
    <3> QED
      BY <3>2, <3>3, <3>4 DEF QueryReads, Shape, Held, Vouches, Exact, ChangedSince
  <2>8. QueryTrusts'
    BY <2>4, <2>6 DEF QInv, QueryTrusts, FromFile, Shape
  <2>9. QueryRanks'
    BY <2>4, <2>6 DEF QInv, QueryRanks
  <2>10. QueryWitnesses'
    BY <2>4, <2>6 DEF QueryWitnesses
  <2>11. QueryAnswers'
    BY <2>4, <2>6 DEF QInv, QueryAnswers
  <2> QED
    BY <2>5, <2>7, <2>8, <2>9, <2>10, <2>11 DEF QInv
<1> QED
  BY <1>1, <1>2

\* Each statement of the query, while the system stands still.
LEMMA QueryStepKept ==
    ASSUME TypeOK, ExactInv, ShapeInv, q \in Query, QInv, QueryStep
    PROVE  q' \in Query /\ QInv'
<1>0. UNCHANGED vars
  BY DEF QueryStep, Begin, ReadLog, ProbeLost, ProbeGone, ReadTail, FailOpen, Scan, Hydrate, Fill, Respond
<1>r. rows' = rows /\ UNCHANGED <<clock, log, schema, lastId, files>>
  BY <1>0 DEF vars
<1>t. rows \in Table /\ Scores(rows, InScope(rows)) \subseteq Scored
  BY ScoresTyped DEF TypeOK
<1>n. NoQuery \in Query /\ NoQuery.pc = "idle" /\ NoQuery.answer = {}
  <2>1. NoRows \in Table
    BY DEF NoRows, Table
  <2> QED
    BY <2>1 DEF NoQuery, Query
<1>1. CASE Begin
  <2> DEFINE pc == IF files["vec"] # NoFile /\ files["vec"].dim = "native" THEN "log" ELSE "scan"
             f  == files["vec"]
             seen == Scores(rows, InScope(rows))
  <2>1. q' = [NoQuery EXCEPT !.pc = pc, !.index = f, !.seen = seen]
    BY <1>1 DEF Begin
  <2>2. pc \in {"log", "scan"} /\ (pc = "log" => f # NoFile) /\ f \in File \cup {NoFile} /\ f = files["vec"]
    BY DEF TypeOK, FileNames
  <2> HIDE DEF pc, f
  <2>3. q'.pc = pc /\ q'.index = f /\ q'.seen = seen /\ q'.answer = {}
    BY <1>n, <2>1 DEF Query
  <2>4. q' \in Query
    BY <1>n, <1>t, <2>1, <2>2 DEF Query
  <2>5. QueryReads'
    <3> SUFFICES ASSUME pc = "log" PROVE QueryReads'
      BY <2>3 DEF QueryReads
    <3>1. f \in File /\ InUse(f)
      BY <2>2 DEF InUse, FileNames
    <3>2. Held(f) /\ Shape(f)
      BY <3>1 DEF ExactInv, ShapeInv
    <3> QED
      BY <1>r, <2>3, <3>1, <3>2 DEF QueryReads, Shape, Held, Vouches, Exact, ChangedSince
  <2> QED
    BY <1>r, <2>2, <2>3, <2>4, <2>5 DEF QInv, QueryTrusts, QueryRanks, QueryWitnesses, QueryAnswers
\* A step that only sends the query to the scan.
<1>s. ASSUME q' = [q EXCEPT !.pc = "scan"], q.pc \notin {"idle", "done"}
      PROVE  q' \in Query /\ QInv'
  <2>1. /\ q' \in Query /\ q'.pc = "scan" /\ q'.seen = q.seen /\ q'.answer = q.answer
    BY <1>s DEF Query
  <2> QED
    BY <1>r, <1>s, <2>1 DEF QInv, QueryReads, QueryTrusts, QueryRanks, QueryWitnesses, QueryAnswers
<1>2. CASE ReadLog
  <2>1. CASE q' = [q EXCEPT !.pc = "scan"]
    BY <1>2, <1>s, <2>1 DEF ReadLog
  <2>2. CASE Vouches(q.index) /\ q' = [q EXCEPT !.pc = "probe", !.changed = ChangedSince(q.index)]
    <3>1. q.pc = "log" /\ q.index \in File /\ Shape(q.index) /\ Exact(q.index)
      BY <1>2, <2>2 DEF ReadLog, QInv, QueryReads, Held
    <3>2. ChangedSince(q.index) \subseteq Ids
      BY DEF ChangedSince, TypeOK, Change
    <3>3. /\ q' \in Query /\ q'.pc = "probe" /\ q'.index = q.index /\ q'.changed = ChangedSince(q.index)
          /\ q'.seen = q.seen /\ q'.answer = q.answer
      BY <2>2, <3>2 DEF Query
    <3>4. \A i \in 1..q.index.watermark : i \notin q'.changed \cup q.index.holes => rows[i] = q.index.kept[i]
      BY <3>1, <3>3 DEF Exact
    <3>5. ASSUME NEW i \in Live(q.index.kept), q.index.kept[i].agent = QueryAgent, i \notin q'.changed
          PROVE  <<i, q.index.kept[i].vec>> \in q.seen
      <4>1. i \in Ids /\ i <= q.index.watermark /\ i \notin q.index.holes /\ q.index.kept[i].vec # NoVec /\ q.index.kept[i] # NoRow
        BY <3>1 DEF Shape, Live
      <4>2. i \in 1..q.index.watermark
        <5>1. q.index.watermark \in Nat
          BY <3>1 DEF File
        <5> QED
          BY <4>1, <5>1 DEF Ids
      <4>3. rows[i] = q.index.kept[i]
        BY <3>4, <3>5, <4>1, <4>2
      <4>4. i \in InScope(rows)
        BY <3>5, <4>1, <4>3 DEF InScope, Embedded, Live
      <4>5. <<i, rows[i].vec>> \in Scores(rows, InScope(rows))
        BY <4>4 DEF Scores
      <4> QED
        BY <3>1, <4>3, <4>5 DEF QInv, QueryWitnesses
    <3>6. QueryTrusts'
      BY <1>r, <3>1, <3>3, <3>4, <3>5 DEF QueryTrusts, FromFile, Shape
    <3> QED
      BY <1>r, <3>1, <3>3, <3>6 DEF QInv, QueryReads, QueryRanks, QueryWitnesses, QueryAnswers
  <2> QED
    BY <1>2, <2>1, <2>2 DEF ReadLog
<1>3. CASE ProbeLost \/ ProbeGone
  <2>1. q.pc \in {"probe", "count"} /\ \E pc \in {"scan", "count", "tail"} : q' = [q EXCEPT !.pc = pc]
    BY <1>3 DEF ProbeLost, ProbeGone
  <2>2. PICK pc \in {"scan", "count", "tail"} : q' = [q EXCEPT !.pc = pc]
    BY <2>1
  <2>3. CASE pc = "scan"
    BY <1>s, <2>1, <2>2, <2>3
  <2>4. CASE pc # "scan"
    <3>1. /\ q' \in Query /\ q'.pc = pc /\ q'.seen = q.seen /\ q'.answer = q.answer /\ q'.index = q.index
          /\ q'.changed = q.changed /\ q'.quiet = q.quiet
      BY <2>2 DEF Query
    <3>2. QueryTrusts'
      BY <1>r, <2>1, <3>1 DEF QInv, QueryTrusts, FromFile, Shape
    <3> QED
      BY <1>r, <2>1, <2>4, <3>1, <3>2 DEF QInv, QueryReads, QueryRanks, QueryWitnesses, QueryAnswers
  <2> QED
    BY <2>3, <2>4
<1>4. CASE FailOpen
  BY <1>4, <1>s DEF FailOpen
\* A step that ranks a window.
<1>w. ASSUME NEW w \in Table, NEW next \in {"hydrate", "fill"}, Rank(w, next), q.pc \notin {"idle", "done"},
             Scores(w, Survivors(w)) \subseteq q.seen, q.quiet => w = ScanWindow(rows)
      PROVE  q' \in Query /\ QInv'
  <2>1. /\ q' \in Query /\ q'.window = w /\ q'.pc = IF Survivors(w) = {} THEN "done" ELSE next
        /\ q'.seen = q.seen /\ q'.answer = q.answer /\ q'.quiet = q.quiet
    BY <1>w DEF Rank, Query
  <2>2. q.answer = {}
    BY <1>w DEF QInv, QueryAnswers
  <2>3. q.quiet /\ Survivors(w) = {} => ScanAnswer(rows) = {}
    BY <1>w DEF ScanAnswer, Scores
  <2>4. QueryRanks'
    BY <1>r, <1>w, <2>1 DEF QueryRanks
  <2>5. QueryAnswers'
    <3>1. ScanAnswer(rows)' = ScanAnswer(rows)
      BY <1>r DEF ScanAnswer, ScanWindow, InScope, Embedded, Live, Survivors
    <3> QED
      BY <2>1, <2>2, <2>3, <3>1 DEF QueryAnswers
  <2> QED
    BY <1>r, <1>w, <2>1, <2>4, <2>5 DEF QInv, QueryReads, QueryTrusts, QueryWitnesses
<1>5. CASE ReadTail
  <2>1. CASE q' = [q EXCEPT !.pc = "scan"]
    BY <1>5, <1>s, <2>1 DEF ReadTail
  <2>2. CASE Rank(Merged, "hydrate")
    <3>1. q.pc = "tail" /\ q.index \in File /\ Shape(q.index)
      BY <1>5 DEF ReadTail, QInv, QueryTrusts
    <3>2. Merged \in Table
      BY <3>1, MergedRows
    <3>3. Scores(Merged, Survivors(Merged)) \subseteq q.seen
      <4>1. \A i \in Survivors(Merged) : i \in Live(Merged)
        BY <3>2, ScoresTyped
      <4>2. \A i \in FromTable : <<i, rows[i].vec>> \in q.seen
        BY <3>1 DEF FromTable, Scores, QInv, QueryWitnesses
      <4>3. \A i \in FromFile : <<i, q.index.kept[i].vec>> \in q.seen
        BY <3>1 DEF QInv, QueryTrusts
      <4>4. \A i \in Survivors(Merged) : <<i, Merged[i].vec>> \in q.seen
        BY <3>1, <4>1, <4>2, <4>3, MergedRows
      <4> QED
        BY <4>4 DEF Scores
    <3>4. q.quiet => Merged = ScanWindow(rows)
      BY <3>1, MergedIsScan DEF QInv, QueryTrusts
    <3> QED
      BY <1>w, <2>2, <3>1, <3>2, <3>3, <3>4
  <2> QED
    BY <1>5, <2>1, <2>2 DEF ReadTail
<1>6. CASE Scan
  <2>1. q.pc = "scan" /\ Rank(ScanWindow(rows), "fill") /\ ScanWindow(rows) \in Table
    BY <1>6, ScanRows DEF Scan
  <2>2. Scores(ScanWindow(rows), Survivors(ScanWindow(rows))) \subseteq q.seen
    BY <2>1, ScanRows DEF Scores, QInv, QueryWitnesses
  <2> QED
    BY <1>w, <2>1, <2>2
<1>7. CASE q.pc \in {"hydrate", "fill"} /\ q' = [q EXCEPT !.pc = "done", !.answer = Scores(q.window, Payload)]
  <2>1. q.window \in Table /\ Payload \subseteq Survivors(q.window)
    BY DEF Query, Payload
  <2>2. Scores(q.window, Payload) \subseteq Scores(q.window, Survivors(q.window))
    BY <2>1 DEF Scores
  <2>3. Scores(q.window, Payload) \subseteq Scored
    BY <2>1, <2>2, ScoresTyped
  <2>4. Scores(q.window, Payload) \subseteq q.seen
    BY <1>7, <2>2 DEF QInv, QueryRanks
  <2>5. q.quiet => Scores(q.window, Payload) = ScanAnswer(rows)
    <3> SUFFICES ASSUME q.quiet PROVE Payload = Survivors(ScanWindow(rows)) /\ q.window = ScanWindow(rows)
      BY DEF ScanAnswer
    <3>1. q.window = ScanWindow(rows)
      BY <1>7 DEF QInv, QueryRanks
    <3>2. \A i \in Survivors(q.window) : i \in Live(rows) /\ rows[i].agent = QueryAgent
      BY <3>1, ScanRows DEF InScope, Embedded
    <3> QED
      BY <3>1, <3>2 DEF Payload
  <2>6. /\ q' \in Query /\ q'.pc = "done" /\ q'.answer = Scores(q.window, Payload) /\ q'.seen = q.seen /\ q'.quiet = q.quiet
    BY <1>7, <2>3 DEF Query
  <2>7. ScanAnswer(rows)' = ScanAnswer(rows)
    BY <1>r DEF ScanAnswer, ScanWindow, InScope, Embedded, Live, Survivors
  <2>8. QueryAnswers'
    BY <2>4, <2>5, <2>6, <2>7 DEF QueryAnswers
  <2> QED
    BY <1>7, <1>r, <2>6, <2>8 DEF QInv, QueryReads, QueryTrusts, QueryRanks, QueryWitnesses
<1>8. CASE Hydrate \/ Fill
  <2>1. q.pc \in {"hydrate", "fill"}
    BY <1>8 DEF Hydrate, Fill
  <2>2. q' = [q EXCEPT !.pc = "scan"] \/ q' = [q EXCEPT !.pc = "done", !.answer = Scores(q.window, Payload)]
    BY <1>8 DEF Hydrate, Fill
  <2> QED
    BY <1>7, <1>s, <2>1, <2>2
<1>9. CASE Respond
  BY <1>9, <1>n DEF Respond, QInv, QueryReads, QueryTrusts, QueryRanks, QueryWitnesses, QueryAnswers
<1> QED
  BY <1>1, <1>2, <1>3, <1>4, <1>5, <1>6, <1>8, <1>9 DEF QueryStep

\* The whole invariant: that of the files, and the query's.
Whole == TypeOK /\ ExactInv /\ ShapeInv /\ q \in Query /\ QInv

\* It holds before the first query.
LEMMA WholeInit == QInit => Whole
<1> SUFFICES ASSUME QInit PROVE Whole
  OBVIOUS
<1>1. TypeOK
  BY TypeInit DEF QInit
<1>2. ExactInv /\ ShapeInv
  BY DEF QInit, Init, ExactInv, ShapeInv, InUse, Idle, AtRest
<1>3. q \in Query /\ q.pc = "idle" /\ q.answer = {}
  <2>1. NoRows \in Table
    BY DEF NoRows, Table
  <2> QED
    BY <2>1 DEF QInit, NoQuery, Query
<1>4. QInv
  BY <1>3 DEF QInv, QueryReads, QueryTrusts, QueryRanks, QueryWitnesses, QueryAnswers
<1> QED
  BY <1>1, <1>2, <1>3, <1>4 DEF Whole

\* Every step of the system or of the query keeps it.
LEMMA WholeStep == Whole /\ [QNext]_qvars => Whole'
<1> SUFFICES ASSUME TypeOK, ExactInv, ShapeInv, q \in Query, QInv, [QNext]_qvars PROVE Whole'
  BY DEF Whole
<1>1. [Next]_vars
  BY DEF QNext, Beside, QueryStep, Begin, ReadLog, ProbeLost, ProbeGone, ReadTail, FailOpen, Scan, Hydrate, Fill, Respond, qvars
<1>2. TypeOK' /\ ExactInv' /\ ShapeInv'
  BY <1>1, TypeStep, ExactStep, ShapeStep
<1>3. q' \in Query /\ QInv'
  <2>1. CASE Beside
    BY <1>2, <2>1, BesideStep
  <2>2. CASE QueryStep
    BY <2>2, QueryStepKept
  <2>3. CASE UNCHANGED qvars
    BY <2>3, SMTT(30) DEF qvars, vars, QInv, QueryReads, QueryTrusts, QueryRanks, QueryWitnesses, QueryAnswers, FromFile, Shape, Held,
       Vouches, Exact, ChangedSince, ScanAnswer, ScanWindow, InScope, Embedded, Live, Survivors
  <2> QED
    BY <2>1, <2>2, <2>3 DEF QNext
<1> QED
  BY <1>2, <1>3 DEF Whole

\* Types of the whole system with a query in flight.
THEOREM QueryTyped == QSpec => []QTypeOK
<1>1. Whole => QTypeOK
  BY DEF Whole, QTypeOK
<1> QED
  BY <1>1, WholeInit, WholeStep, PTL DEF QSpec

\* Under any writes, builds, prunes and purges beside it, a query ranks no row by a vector
\* or under an agent the row did not have at some moment of the query
\* (_scan_memories_local and _index_phase1).
THEOREM NoQueryIsStale == QSpec => []NoStaleAnswer
<1>1. Whole => NoStaleAnswer
  BY DEF Whole, QInv, QueryAnswers, NoStaleAnswer
<1> QED
  BY <1>1, WholeInit, WholeStep, PTL DEF QSpec

\* If no commit touches the rows while it runs, a query answers what the scan of the table
\* answers, whichever of the two supplied its rows: for every table, window and number of
\* changes since the file was built.
THEOREM QueryEqualsScan == QSpec => []IndexEqualsScan
<1>1. Whole => IndexEqualsScan
  BY DEF Whole, QInv, QueryAnswers, IndexEqualsScan
<1> QED
  BY <1>1, WholeInit, WholeStep, PTL DEF QSpec
=============================================================================
