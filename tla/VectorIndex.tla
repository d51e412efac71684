---------------------------- MODULE VectorIndex ----------------------------
(***************************************************************************)
(* The contiguous and the coarse vector index of CPersona as derived files *)
(* of one SQLite table (cpersona/vector_index.py, cpersona/coarse_index.py)*)
(* and the change log they are read through (VECTOR_LOG_SQL in             *)
(* cpersona/database.py).                                                  *)
(*                                                                         *)
(* A file holds the rows as they were at its build. It stays usable while  *)
(* the table moves because every later change of a held row is named by    *)
(* the log: a reader takes those rows, the rows the build named as holes   *)
(* and the rows above the watermark from the live table, and the rest from *)
(* the file. The log can stop, restart, lose its triggers and be pruned,   *)
(* each while builds of two processes are reading; a file the log cannot   *)
(* vouch for must be refused.                                              *)
(*                                                                         *)
(* One table ("memories") with its two files is modelled. A database       *)
(* transaction, a file rename and an unlink are atomic steps; what lies    *)
(* between two of them is a point where the other process runs.            *)
(***************************************************************************)
EXTENDS Naturals, FiniteSets

CONSTANTS
    Agents,        \* agent ids, the isolation axis a purge goes by
    Vectors,       \* embeddings, each of the width WidthOf gives it
    WideVectors,   \* those of another width, left by an embedding-model swap
    Times,         \* values of created_at, in the order SQLite compares them
    CanonicalTimes,\* the ones the file's fixed-width column can spell
    NoVec,         \* embedding IS NULL
    NoRow,         \* the row does not exist
    NoFile,        \* the file does not exist, or the build declined
    MaxHoles,      \* VECTOR_INDEX_MAX_EXCLUDED_IDS
    MaxRows,       \* bound: ids handed out by AUTOINCREMENT
    MaxHead,       \* bound: changes logged
    MaxGeneration, \* bound: times the log is turned on
    MaxCookie,     \* bound: schema changes
    MaxPurges      \* bound: purges between two server starts

ASSUME IndexConstants ==
    /\ WideVectors \subseteq Vectors /\ NoVec \notin Vectors
    /\ Times \subseteq Nat /\ CanonicalTimes \subseteq Times
    /\ MaxHoles \in Nat /\ MaxRows \in Nat /\ MaxHead \in Nat
    /\ MaxGeneration \in Nat /\ MaxCookie \in Nat /\ MaxPurges \in Nat

VARIABLES
    rows,     \* the table: id -> row, NoRow where there is none
    lastId,   \* sqlite_sequence: the highest id AUTOINCREMENT has handed out
    clock,    \* vector_log_clock
    log,      \* record_vector_changes
    schema,   \* the schema cookie, and whether the six logging triggers stand
    files,    \* the index files on disk
    builds,   \* the builds in flight, one per process that can run one
    purges,   \* _purges: purges the server process counted since it started
    dropping, \* per agent, ids a committed purge deleted, its files not yet dropped
    purged    \* history: ids whose purge finished dropping the files

db   == <<rows, lastId, clock, log, schema>>
vars == <<rows, lastId, clock, log, schema, files, builds, purges, dropping, purged>>

----------------------------------------------------------------------------
(* Data                                                                    *)

Ids       == 1..MaxRows
FileNames == {"vec", "coarse"}
Builders  == {"operator", "server"}

Row   == [agent : Agents, vec : Vectors \cup {NoVec}, at : Times]
Table == [Ids -> Row \cup {NoRow}]

\* length(embedding): the two widths a corpus can mix.
Widths     == {"native", "wide"}
WidthOf(v) == IF v \in WideVectors THEN "wide" ELSE "native"

Clock  == [logging : BOOLEAN, generation : 0..MaxGeneration,
           head : 0..MaxHead, pruned_through : 0..MaxHead]
Change == [seq : 1..MaxHead, id : Ids]
Schema == [cookie : 0..MaxCookie, triggers : BOOLEAN]

\* A file: the header (log position, watermark, named holes, width) and the rows.
File == [by : Builders, kept : Table, watermark : 0..MaxRows, holes : SUBSET Ids,
         dim : Widths, generation : 0..MaxGeneration, built_seq : 0..MaxHead,
         schema_cookie : 0..MaxCookie]

Build == [pc : {"idle", "logged", "planned", "stopping"}, plan : File \cup {NoFile},
          todo : SUBSET FileNames, built : BOOLEAN, purges_at_start : 0..MaxPurges]

\* Nothing in flight, or only what follows a build: the `finally` of a repair, the
\* pending stop_logging of a process that saw no file.
AtRest(pc) == [pc |-> pc, plan |-> NoFile, todo |-> {}, built |-> FALSE, purges_at_start |-> 0]
Idle       == AtRest("idle")

Live(t)     == {i \in Ids : t[i] # NoRow}
Embedded(t) == {i \in Live(t) : t[i].vec # NoVec}

NoFilePresent == \A n \in FileNames : files[n] = NoFile

----------------------------------------------------------------------------
(* What a reader asks of the log (changed_since_build)                     *)

\* The log accounts for every change since the build of f.
Vouches(f) ==
    /\ clock.logging
    /\ clock.generation = f.generation
    /\ f.built_seq <= clock.head
    /\ clock.pruned_through <= f.built_seq
    /\ schema.cookie = f.schema_cookie

\* The ids the log names for a reader of f.
ChangedSince(f) == {e.id : e \in {c \in log : c.seq > f.built_seq}}

----------------------------------------------------------------------------
(* Writes to the table, and the triggers that log them                     *)

\* The commit of a transaction that changes or deletes the rows `ids`: with the
\* log on, the triggers give each its own number above the head.
LogChanges(ids) ==
    IF clock.logging /\ schema.triggers
    THEN /\ clock.head + Cardinality(ids) <= MaxHead
         /\ clock' = [clock EXCEPT !.head = clock.head + Cardinality(ids)]
         /\ \E seqOf \in [ids -> (clock.head + 1)..(clock.head + Cardinality(ids))] :
               /\ \A i, j \in ids : seqOf[i] = seqOf[j] => i = j
               /\ log' = log \cup {[seq |-> seqOf[i], id |-> i] : i \in ids}
    ELSE UNCHANGED <<clock, log>>

\* An INSERT takes the next AUTOINCREMENT id and is not logged. An import
\* carries the created_at of the exporting database.
Store(row) ==
    /\ lastId < MaxRows
    /\ lastId' = lastId + 1
    /\ rows' = [rows EXCEPT ![lastId + 1] = row]
    /\ UNCHANGED <<clock, log, schema, files, builds, purges, dropping, purged>>

\* An UPDATE of a column the files copy: a new vector, a cleared one, a re-tag, a
\* repaired time. One that changes none of them is not logged and moves nothing here.
Update(i, row) ==
    /\ rows[i] \notin {NoRow, row}
    /\ rows' = [rows EXCEPT ![i] = row]
    /\ LogChanges({i})
    /\ UNCHANGED <<lastId, schema, files, builds, purges, dropping, purged>>

Delete(i) ==
    /\ rows[i] # NoRow
    /\ rows' = [rows EXCEPT ![i] = NoRow]
    /\ LogChanges({i})
    /\ UNCHANGED <<lastId, schema, files, builds, purges, dropping, purged>>

RowsOf(a) == {i \in Live(rows) : rows[i].agent = a}

\* The delete transaction of do_delete_agent_data. The files go only for a caller
\* that holds every agent, and only when rows went.
DeleteAgent(a, holdsEveryAgent) ==
    /\ RowsOf(a) # {} /\ dropping[a] = {}
    /\ rows' = [i \in Ids |-> IF i \in RowsOf(a) THEN NoRow ELSE rows[i]]
    /\ LogChanges(RowsOf(a))
    /\ dropping' = [dropping EXCEPT ![a] = IF holdsEveryAgent THEN RowsOf(a) ELSE {}]
    /\ UNCHANGED <<lastId, schema, files, builds, purges, purged>>

\* After that commit, without an await: count the purge, then unlink the files.
DropIndexes(a) ==
    /\ dropping[a] # {}
    /\ purges < MaxPurges
    /\ purges' = purges + 1
    /\ files' = [n \in FileNames |-> NoFile]
    /\ purged' = purged \cup dropping[a]
    /\ dropping' = [dropping EXCEPT ![a] = {}]
    /\ UNCHANGED <<rows, lastId, clock, log, schema, builds>>

\* discard_if_holding unlinks the coarse file after a repair re-timed a row it holds;
\* an operator may delete either file at any time.
Discard(n) ==
    /\ files[n] # NoFile
    /\ files' = [files EXCEPT ![n] = NoFile]
    /\ UNCHANGED <<db, builds, purges, dropping, purged>>

----------------------------------------------------------------------------
(* Builds: the operator command ("operator", its own process) and the      *)
(* coarse repair of check_health ("server")                                *)

\* Mutant of StartLogging: the log resumes under the generation it stopped with.
StartLoggingSameGeneration(b) ==
    /\ builds[b].pc = "idle"
    /\ clock' = [clock EXCEPT !.logging = TRUE]
    /\ builds' = [builds EXCEPT ![b].pc = "logged"]
    /\ UNCHANGED <<rows, lastId, log, schema, files, purges, dropping, purged>>

\* start_logging, in a commit of its own before the build reads anything.
StartLogging(b) ==
    /\ builds[b].pc = "idle"
    /\ \/ clock.logging /\ UNCHANGED clock
       \/ /\ ~clock.logging
          /\ clock.generation < MaxGeneration
          /\ clock' = [clock EXCEPT !.logging = TRUE, !.generation = clock.generation + 1]
    /\ builds' = [builds EXCEPT ![b].pc = "logged"]
    /\ UNCHANGED <<rows, lastId, log, schema, files, purges, dropping, purged>>

Excluded(t)   == {i \in Embedded(t) : t[i].at \notin CanonicalTimes}
Unembedded(t) == Live(t) \ Embedded(t)

\* plan_rows declines a corpus it cannot hold exactly.
Declines(t) ==
    \/ Cardinality({WidthOf(t[i].vec) : i \in Embedded(t)}) # 1
    \/ Cardinality(Excluded(t) \cup Unembedded(t)) > MaxHoles
    \/ Embedded(t) \subseteq Excluded(t)

\* log_position refuses a build that began without complete logging.
PositionRefused == ~clock.logging \/ ~schema.triggers

\* MAX(id) of the snapshot, 0 for an empty table.
IsWatermark(w, t) == /\ w \in Live(t) \cup {0}
                     /\ \A i \in Live(t) : i <= w

PlanRows(b, w) ==
    [by |-> b, watermark |-> w,
     kept |-> [i \in Ids |-> IF i \in Embedded(rows) \ Excluded(rows) THEN rows[i] ELSE NoRow],
     holes |-> Excluded(rows) \cup Unembedded(rows),
     dim |-> WidthOf(rows[CHOOSE i \in Embedded(rows) : TRUE].vec),
     generation |-> clock.generation, built_seq |-> clock.head, schema_cookie |-> schema.cookie]

TargetsOf(b) == IF b = "operator" THEN FileNames ELSE {"coarse"}

\* The build reads the purge count, then its first read pins the snapshot both
\* passes (and, for the operator, both files) are read on.
PinSnapshot(b) ==
    /\ builds[b].pc = "logged"
    /\ \E w \in 0..MaxRows :
          /\ IsWatermark(w, rows)
          /\ builds' = [builds EXCEPT ![b] =
                [pc |-> "planned", built |-> FALSE, todo |-> TargetsOf(b),
                 plan |-> IF PositionRefused \/ Declines(rows) THEN NoFile ELSE PlanRows(b, w),
                 purges_at_start |-> IF b = "server" THEN purges ELSE 0]]
    /\ UNCHANGED <<rows, lastId, clock, log, schema, files, purges, dropping, purged>>

\* Mutant of PurgedSince: a build publishes without asking.
PurgedSinceNever(b) == FALSE

\* _purges is process state: the operator's process never counts the server's.
PurgedSince(b) == b = "server" /\ purges # builds[b].purges_at_start

\* The check of the purge count and the os.replace, with no await between.
Publish(b, n) ==
    /\ builds[b].pc = "planned" /\ builds[b].plan # NoFile
    /\ n \in builds[b].todo
    /\ n = "coarse" => "vec" \notin builds[b].todo
    /\ files' = IF PurgedSince(b) THEN files ELSE [files EXCEPT ![n] = builds[b].plan]
    /\ builds' = [builds EXCEPT ![b].todo = builds[b].todo \ {n},
                                ![b].built = builds[b].built \/ ~PurgedSince(b)]
    /\ UNCHANGED <<rows, lastId, clock, log, schema, purges, dropping, purged>>

\* The heads of the files present that the running generation still reads.
Heads == {files[n].built_seq : n \in {m \in FileNames :
            files[m] # NoFile /\ files[m].generation = clock.generation}}

\* Mutant of PruneLog: the log rows go, the mark they were dropped through is not kept.
PruneLogUnmarked ==
    \/ (~clock.logging \/ Heads = {}) /\ UNCHANGED <<clock, log>>
    \/ /\ clock.logging
       /\ \E mark \in Heads : /\ \A h \in Heads : mark <= h
                              /\ log' = {c \in log : c.seq > mark}
       /\ UNCHANGED clock

\* Mutant of PruneLog: the mark is the newest file's head instead of the oldest's.
PruneLogToNewest ==
    \/ (~clock.logging \/ Heads = {}) /\ UNCHANGED <<clock, log>>
    \/ /\ clock.logging
       /\ \E mark \in Heads :
             /\ \A h \in Heads : mark >= h
             /\ log' = {c \in log : c.seq > mark}
             /\ clock' = [clock EXCEPT !.pruned_through =
                             IF mark > clock.pruned_through THEN mark ELSE clock.pruned_through]

\* prune_log: drop what every such file holds already; the mark only rises.
PruneLog ==
    \/ /\ ~clock.logging \/ Heads = {}
       /\ UNCHANGED <<clock, log>>
    \/ /\ clock.logging
       /\ \E mark \in Heads :
             /\ \A h \in Heads : mark <= h
             /\ log' = {c \in log : c.seq > mark}
             /\ clock' = [clock EXCEPT !.pruned_through =
                             IF mark > clock.pruned_through THEN mark ELSE clock.pruned_through]

Finished(b) == builds[b].pc = "planned" /\ (builds[b].todo = {} \/ builds[b].plan = NoFile)

\* A build that published a file prunes the log.
FinishBuilt(b) ==
    /\ Finished(b) /\ builds[b].built
    /\ PruneLog
    /\ builds' = [builds EXCEPT ![b] = Idle]
    /\ UNCHANGED <<rows, lastId, schema, files, purges, dropping, purged>>

\* One that did not: the repair goes on to stop the log when it finds no file at all.
FinishDeclined(b) ==
    /\ Finished(b) /\ ~builds[b].built
    /\ builds' = [builds EXCEPT ![b] =
          IF b = "server" /\ NoFilePresent THEN AtRest("stopping") ELSE Idle]
    /\ UNCHANGED <<db, files, purges, dropping, purged>>

\* stop_logging commits after that look at the directory, whatever was published since.
StopLogging ==
    /\ builds["server"].pc = "stopping"
    /\ IF clock.logging
       THEN /\ clock' = [clock EXCEPT !.logging = FALSE, !.pruned_through = clock.head]
            /\ log' = {}
       ELSE UNCHANGED <<clock, log>>
    /\ builds' = [builds EXCEPT !["server"] = Idle]
    /\ UNCHANGED <<rows, lastId, schema, files, purges, dropping, purged>>

----------------------------------------------------------------------------
(* Restarts, interruptions and schema changes                              *)

\* The server stops at any point and starts again: builds in flight, purges past
\* their commit and the purge count are lost, the boot runs VECTOR_LOG_SQL, and
\* on_startup goes on to stop the log when it finds no file.
RestartServer ==
    /\ \/ schema.triggers /\ UNCHANGED schema
       \/ /\ ~schema.triggers /\ schema.cookie < MaxCookie
          /\ schema' = [cookie |-> schema.cookie + 1, triggers |-> TRUE]
    /\ purges' = 0
    /\ dropping' = [a \in Agents |-> {}]
    /\ builds' = [builds EXCEPT !["server"] =
          IF NoFilePresent THEN AtRest("stopping") ELSE Idle]
    /\ UNCHANGED <<rows, lastId, clock, log, files, purged>>

\* The repair's build raises or is cancelled before it publishes; its `finally` is next.
BuildFails ==
    /\ builds["server"].pc \in {"logged", "planned"} /\ ~builds["server"].built
    /\ builds' = [builds EXCEPT !["server"] = AtRest("planned")]
    /\ UNCHANGED <<db, files, purges, dropping, purged>>

\* The operator's command raises or is interrupted.
InterruptOperator ==
    /\ builds["operator"].pc # "idle"
    /\ builds' = [builds EXCEPT !["operator"] = Idle]
    /\ UNCHANGED <<db, files, purges, dropping, purged>>

\* Any schema change moves the cookie: a trigger dropped by another tool, the
\* repair of check_schema_objects that recreates it, an unrelated migration.
AlterSchema(triggers) ==
    /\ schema.cookie < MaxCookie
    /\ schema' = [cookie |-> schema.cookie + 1, triggers |-> triggers]
    /\ UNCHANGED <<rows, lastId, clock, log, files, builds, purges, dropping, purged>>

----------------------------------------------------------------------------
Init ==
    /\ rows = [i \in Ids |-> NoRow]
    /\ lastId = 0
    /\ clock = [logging |-> FALSE, generation |-> 0, head |-> 0, pruned_through |-> 0]
    /\ log = {}
    /\ schema = [cookie |-> 0, triggers |-> TRUE]
    /\ files = [n \in FileNames |-> NoFile]
    /\ builds = [b \in Builders |-> Idle]
    /\ purges = 0
    /\ dropping = [a \in Agents |-> {}]
    /\ purged = {}

Next ==
    \/ \E row \in Row : Store(row)
    \/ \E i \in Ids, row \in Row : Update(i, row)
    \/ \E i \in Ids : Delete(i)
    \/ \E a \in Agents, holds \in BOOLEAN : DeleteAgent(a, holds)
    \/ \E a \in Agents : DropIndexes(a)
    \/ \E n \in FileNames : Discard(n)
    \/ \E b \in Builders : \/ StartLogging(b) \/ PinSnapshot(b)
                           \/ FinishBuilt(b) \/ FinishDeclined(b)
    \/ \E b \in Builders, n \in FileNames : Publish(b, n)
    \/ StopLogging
    \/ RestartServer \/ BuildFails \/ InterruptOperator
    \/ \E t \in BOOLEAN : AlterSchema(t)

Spec == Init /\ [][Next]_vars

----------------------------------------------------------------------------
(* Properties                                                              *)

TypeOK ==
    /\ rows \in Table /\ lastId \in 0..MaxRows
    /\ clock \in Clock /\ log \subseteq Change /\ schema \in Schema
    /\ files \in [FileNames -> File \cup {NoFile}]
    /\ builds \in [Builders -> Build]
    /\ purges \in 0..MaxPurges
    /\ dropping \in [Agents -> SUBSET Ids] /\ purged \subseteq Ids

\* Every row f could answer for -- at or below the watermark, not a named hole,
\* not named by the log -- is in the table exactly as f holds it, or in neither.
Exact(f) ==
    \A i \in 1..f.watermark : i \notin ChangedSince(f) \cup f.holes => rows[i] = f.kept[i]

\* A file changed_since_build accepts answers exactly for every row the reader
\* does not take from the live table: whatever writes, purges, prunes, restarts of
\* the log and trigger losses fell between its build and the read.
FileExact == \A n \in FileNames : files[n] # NoFile /\ Vouches(files[n]) => Exact(files[n])

\* No file the server's own build published holds a row whose purge has dropped
\* the index files (purged_since): an in-flight build must not put it back on disk.
\* (Builds of another process are outside the count, as docs/operations.md says.)
NoResurrection ==
    \A n \in FileNames : files[n] # NoFile /\ files[n].by = "server" =>
        \A i \in purged : files[n].kept[i] = NoRow

\* A file the log once refused is refused for good: no restart of the log, prune,
\* schema repair or run of new changes brings an out-of-date file back into use.
RefusalIsFinal ==
    [][\A n \in FileNames :
          files[n] # NoFile /\ files'[n] = files[n] /\ ~Vouches(files[n]) => ~Vouches(files[n])']_vars

\* Pruning drops only what every file on disk already holds: it never turns a file
\* a reader may use into a refused one.
PruneKeepsFiles ==
    [][\A n \in FileNames :
          files[n] # NoFile /\ files'[n] = files[n] /\ Vouches(files[n])
          /\ clock'.pruned_through # clock.pruned_through /\ clock'.logging
             => Vouches(files[n])']_vars
=============================================================================
