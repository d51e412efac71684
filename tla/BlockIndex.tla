----------------------------- MODULE BlockIndex -----------------------------
(***************************************************************************)
(* The block index (cpersona/block_index.py): a file with every block row, *)
(* a change log the schema's triggers keep, the build that replaces the    *)
(* file and prunes the log, and the read that takes the file's rows for    *)
(* the records the log does not name and SQLite's for those it names, in   *)
(* chunks, within the scan's two caps (cpersona/blocks.py, _examined).     *)
(*                                                                         *)
(* A block row is [p, b, chan, v]: its record, its place, the record's     *)
(* channel and its bits. Model labels and the agent and project axes are   *)
(* filtered as the channel is; a query's width is the file's.              *)
(***************************************************************************)
EXTENDS Integers, Sequences, FiniteSets, SequencesExt

CONSTANTS
    BParents,     \* records with blocks, numbers in key order
    BChans,       \* channels
    BScopes,       \* the channels a query may admit
    BVersions,    \* bits a block may have
    Builders,     \* "task" (the queue) and "cli" (another process)
    NoFile,       \* no file, nothing held
    MaxBlocks,    \* blocks a record may have
    BlockCounts,  \* and how many a write leaves it
    Chunk,        \* _CHUNK
    ExaminedCap,  \* BLOCK_EXAMINED_CAP
    PerParentCap, \* BLOCK_PER_PARENT_CAP
    LiveRowBound, \* LIVE_ROW_BOUND
    MaxWrites, MaxBreaks  \* bounds: changes to rows and clock; schema changes, purges and restarts

ASSUME BlockConstants ==
    /\ BParents \subseteq Nat /\ MaxBlocks \in Nat /\ BlockCounts \subseteq 0..MaxBlocks
    /\ \A S \in BScopes : S \subseteq BChans
    /\ {Chunk, ExaminedCap, PerParentCap, LiveRowBound} \subseteq Nat \ {0}

VARIABLES
    bdb,       \* the database: [rows, logging, generation, head, pruned, changes, triggers, cookie]
    bfile,     \* the file: [rows, generation, built, cookie], or NoFile
    builds,    \* builder -> its build: [pc, ...]
    queued,    \* a build task is pending
    purges,    \* vector_index's purge count, of the server process
    heldFile,  \* the file a reader has loaded
    heldSnap,  \* the database as a reader's snapshot has it
    spent      \* writes and breaks so far

blockVars == <<bdb, bfile, builds, queued, purges, heldFile, heldSnap, spent>>

Wrote == spent.writes < MaxWrites /\ spent' = [spent EXCEPT !.writes = @ + 1]
Broke == spent.breaks < MaxBreaks /\ spent' = [spent EXCEPT !.breaks = @ + 1]

KeyOf(r) == r.p * (MaxBlocks + 1) + r.b
KeySorted(rows) == [k \in 1..Cardinality(rows) |->
                       CHOOSE r \in rows : Cardinality({q \in rows : KeyOf(q) < KeyOf(r)}) = k - 1]
RowsOf(p, n, chan, v) == {[p |-> p, b |-> k, chan |-> chan, v |-> v] : k \in 1..n}

----------------------------------------------------------------------------
(* The rows and their log                                                  *)

\* The triggers on record_blocks: every row inserted, deleted or updated while logging is
\* on takes the next number for its record.
Logged(db, p, n) ==
    IF ~db.logging \/ ~db.triggers THEN db
    ELSE [db EXCEPT !.head = @ + n, !.changes = @ \cup {[seq |-> db.head + k, p |-> p] : k \in 1..n}]

HeldBy(db, p) == {r \in db.rows : r.p = p}

\* write_blocks and the triggers that drop or retag a record's set: n = 0 drops it.
WriteBlocks(p, n, chan, v) ==
    /\ Wrote
    /\ LET old == HeldBy(bdb, p) new == RowsOf(p, n, chan, v) IN
          /\ old # new
          /\ bdb' = Logged([bdb EXCEPT !.rows = (@ \ old) \cup new], p, Cardinality(old) + n)
    /\ UNCHANGED <<bfile, builds, queued, purges, heldFile, heldSnap>>

\* start_logging: a new generation when logging was off.
Started(db) == IF db.logging THEN db ELSE [db EXCEPT !.logging = TRUE, !.generation = @ + 1]

\* stop_logging.
Stopped(db) == IF ~db.logging THEN db
               ELSE [db EXCEPT !.logging = FALSE, !.pruned = db.head, !.changes = {}]

\* Mutant of Pruned: the log forgets the numbers and does not say through where.
PrunedUnmarked(db, generation, seq) ==
    IF ~db.logging \/ db.generation # generation THEN db
    ELSE [db EXCEPT !.changes = {c \in @ : c.seq > seq}]

\* _prune: through the file's number, of the generation it was built in.
Pruned(db, generation, seq) ==
    IF ~db.logging \/ db.generation # generation THEN db
    ELSE [db EXCEPT !.changes = {c \in @ : c.seq > seq}, !.pruned = IF seq > @ THEN seq ELSE @]

----------------------------------------------------------------------------
(* The build                                                               *)

IdleBuild == [pc |-> "idle"]

\* _current and _build_due: a file the log can still complete is not rebuilt.
Current(file, db) ==
    /\ db.logging /\ db.generation = file.generation /\ file.built <= db.head
    /\ db.pruned <= file.built /\ db.head - file.built <= LiveRowBound
    /\ file.cookie = db.cookie
BuildDue == /\ ~queued
            /\ IF bfile = NoFile THEN bdb.rows # {} ELSE ~Current(bfile, bdb)

\* queue_build_if_needed, after a block write and at startup.
QueueBlockBuild ==
    /\ BuildDue
    /\ queued' = TRUE
    /\ UNCHANGED <<bdb, bfile, builds, purges, heldFile, heldSnap, spent>>

\* build_block_index: the purge count is read, then logging is started.
StartBuild(w) ==
    /\ builds[w].pc = "idle" /\ (w = "task" => queued)
    /\ (w = "cli" => Wrote) /\ (w = "task" => UNCHANGED spent)
    /\ bdb' = Started(bdb)
    /\ builds' = [builds EXCEPT ![w] = [pc |-> "read", purges |-> purges]]
    /\ UNCHANGED <<bfile, queued, purges, heldFile, heldSnap>>

Finished(w) == /\ builds' = [builds EXCEPT ![w] = IdleBuild]
               /\ queued' = (queued /\ w # "task")

\* _write_rows over one snapshot, or it declines.
ReadRows(w) ==
    /\ builds[w].pc = "read"
    /\ IF ~bdb.logging \/ ~bdb.triggers \/ bdb.rows = {} THEN Finished(w)
       ELSE /\ builds' = [builds EXCEPT ![w] =
                 [pc |-> "replace", purges |-> builds[w].purges,
                  file |-> [rows |-> KeySorted(bdb.rows), generation |-> bdb.generation,
                            built |-> bdb.head, cookie |-> bdb.cookie]]]
            /\ queued' = queued
    /\ UNCHANGED <<bdb, bfile, purges, heldFile, heldSnap, spent>>

\* os.replace, unless a purge of this process has come since. The command line's build
\* is another process: it does not see the server's count.
ReplaceFile(w) ==
    /\ builds[w].pc = "replace"
    /\ IF w = "task" /\ purges # builds[w].purges THEN Finished(w) /\ bfile' = bfile
       ELSE /\ bfile' = builds[w].file
            /\ builds' = [builds EXCEPT ![w].pc = "prune"]
            /\ queued' = queued
    /\ UNCHANGED <<bdb, purges, heldFile, heldSnap, spent>>

PruneBlocks(w) ==
    /\ builds[w].pc = "prune"
    /\ bdb' = Pruned(bdb, builds[w].file.generation, builds[w].file.built)
    /\ Finished(w)
    /\ UNCHANGED <<bfile, purges, heldFile, heldSnap, spent>>

----------------------------------------------------------------------------
(* What happens around it                                                  *)

\* The log's triggers are dropped by hand, and put back by check_health: each moves
\* SQLite's schema cookie.
DropTriggers ==
    /\ Broke /\ bdb.triggers
    /\ bdb' = [bdb EXCEPT !.triggers = FALSE, !.cookie = @ + 1]
    /\ UNCHANGED <<bfile, builds, queued, purges, heldFile, heldSnap>>
RestoreTriggers ==
    /\ ~bdb.triggers
    /\ bdb' = [bdb EXCEPT !.triggers = TRUE, !.cookie = @ + 1]
    /\ UNCHANGED <<bfile, builds, queued, purges, heldFile, heldSnap, spent>>

\* A purge that removes the shared files: note_purge, then the unlink (the rows' own
\* delete is a WriteBlocks).
PurgeFiles ==
    /\ Broke
    /\ purges' = purges + 1 /\ bfile' = NoFile
    /\ UNCHANGED <<bdb, builds, queued, heldFile, heldSnap>>

\* A restart: the server's build goes. With the index off, the log is stopped and
\* emptied; with it on, on_startup queues a build as QueueBlockBuild does.
RestartBlocks(enabled) ==
    /\ Broke
    /\ bdb' = IF enabled THEN bdb ELSE Stopped(bdb)
    /\ builds' = [builds EXCEPT !["task"] = IdleBuild]
    /\ heldFile' = NoFile /\ heldSnap' = NoFile
    /\ UNCHANGED <<bfile, queued, purges>>

\* A reader's two reads, the file (by stat key: always the present one) and the live
\* statement, of a snapshot taken before the file was loaded or of the database after.
TakeSnapshot ==
    /\ heldSnap = NoFile /\ heldFile = NoFile /\ heldSnap' = bdb
    /\ UNCHANGED <<bdb, bfile, builds, queued, purges, heldFile, spent>>
LoadFile ==
    /\ heldSnap = NoFile /\ heldFile = NoFile /\ bfile # NoFile /\ heldFile' = bfile
    /\ UNCHANGED <<bdb, bfile, builds, queued, purges, heldSnap, spent>>

BlockInit ==
    /\ bdb = [rows |-> {}, logging |-> FALSE, generation |-> 0, head |-> 0, pruned |-> 0,
              changes |-> {}, triggers |-> TRUE, cookie |-> 0]
    /\ bfile = NoFile /\ heldFile = NoFile /\ heldSnap = NoFile
    /\ builds = [w \in Builders |-> IdleBuild]
    /\ queued = FALSE /\ purges = 0 /\ spent = [writes |-> 0, breaks |-> 0]

BlockNext ==
    \/ \E p \in BParents, n \in BlockCounts, c \in BChans, v \in BVersions : WriteBlocks(p, n, c, v)
    \/ QueueBlockBuild
    \/ \E w \in Builders : StartBuild(w) \/ ReadRows(w) \/ ReplaceFile(w) \/ PruneBlocks(w)
    \/ DropTriggers \/ RestoreTriggers \/ PurgeFiles
    \/ \E on \in BOOLEAN : RestartBlocks(on)
    \/ TakeSnapshot \/ LoadFile

BlockSpec == BlockInit /\ [][BlockNext]_blockVars

----------------------------------------------------------------------------
(* The scan and the read through the file                                  *)

\* The rows of the same record before a row; the first PerParentCap rows of each record;
\* the first n of a list.
Earlier(rows, r)  == {q \in rows : q.p = r.p /\ q.b < r.b}
FirstPlaces(rows) == {r \in rows : Cardinality(Earlier(rows, r)) < PerParentCap}
Beginning(list, n) == [k \in 1..(IF Len(list) < n THEN Len(list) ELSE n) |-> list[k]]

\* _examined: the rows in key order, at most PerParentCap of a record, ExaminedCap in all.
Scan(db, scope) == Beginning(KeySorted(FirstPlaces({r \in db.rows : r.chan \in scope})), ExaminedCap)

ChangedAfter(db, seq) == {c.p : c \in {k \in db.changes : k.seq > seq}}

\* _live_statement: one row for each admitted block of a changed record, one (empty) for
\* a changed record with none.
LiveCount(db, seq, scope) ==
    LET rows(p) == Cardinality({r \in HeldBy(db, p) : r.chan \in scope})
    IN  FoldSet(LAMBDA p, n : n + (IF rows(p) = 0 THEN 1 ELSE rows(p)), 0, ChangedAfter(db, seq))

\* examined's refusals; the file then stands for the rows the log does not name.
Accepts(file, db, scope) ==
    /\ db.logging /\ db.generation = file.generation
    /\ file.built <= db.head        \* else newer than the snapshot
    /\ db.pruned <= file.built
    /\ db.cookie = file.cookie
    /\ LiveCount(db, file.built, scope) <= LiveRowBound

LastOf(rows) == CHOOSE r \in rows : \A q \in rows : KeyOf(q) <= KeyOf(r)

\* One chunk's rows are taken, its live ones `batch`: places go on from the chunk before,
\* for the record it ended in.
Joined(acc, rows, batch) ==
    LET place(r) == Cardinality(Earlier(rows, r)) + (IF r.p = acc.parent THEN acc.count ELSE 0)
        room     == ExaminedCap - Len(acc.taken)
    IN  IF rows = {} \/ room = 0 THEN acc
        ELSE [taken |-> acc.taken \o Beginning(KeySorted({r \in rows : place(r) < PerParentCap}), room),
              passed |-> IF batch = {} THEN acc.passed ELSE KeyOf(LastOf(batch)),
              parent |-> LastOf(rows).p, count |-> place(LastOf(rows)) + 1]

\* A chunk has the file's admitted rows, and the live rows before the next chunk.
Stop(file, start) == IF start + Chunk < Len(file.rows) THEN start + Chunk ELSE Len(file.rows)
KeptRows(file, changed, scope, start) ==
    {r \in {file.rows[j] : j \in (start + 1)..Stop(file, start)} : r.chan \in scope /\ r.p \notin changed}
Batch(file, live, passed, start) ==
    {r \in live : /\ KeyOf(r) > passed
                  /\ Stop(file, start) < Len(file.rows) => KeyOf(r) < KeyOf(file.rows[Stop(file, start) + 1])}

MergeChunk(file, live, changed, scope, acc, start) ==
    LET batch == Batch(file, live, acc.passed, start)
    IN  Joined(acc, KeptRows(file, changed, scope, start) \cup batch, batch)

\* _merge: chunk after chunk; a file without rows is one chunk.
Chunks(file)    == IF file.rows = <<>> THEN 1 ELSE (Len(file.rows) + Chunk - 1) \div Chunk
NothingTaken    == [taken |-> <<>>, passed |-> 0, parent |-> 0, count |-> 0]
Live(db, changed, scope) == {r \in db.rows : r.p \in changed /\ r.chan \in scope}
Merged(file, db, scope) ==
    LET changed == ChangedAfter(db, file.built)
        after[n \in 0..Chunks(file)] ==
            IF n = 0 THEN NothingTaken
            ELSE MergeChunk(file, Live(db, changed, scope), changed, scope, after[n - 1], (n - 1) * Chunk)
    IN  after[Chunks(file)].taken

----------------------------------------------------------------------------
(* Properties                                                              *)

\* Whenever the block arm reads through a file, whichever file it loaded and whichever
\* snapshot it reads, it examines exactly the rows the scan of that snapshot examines, in
\* its order and under its caps: builds of two processes, prunes, a log turned off and on,
\* dropped triggers and files replaced between the reader's two reads lead at most to a
\* refusal (block_index.py:8, "The answer must not change").
BlockReadEqualsScan ==
    \A file \in {bfile, heldFile} \ {NoFile}, db \in {bdb, heldSnap} \ {NoFile}, scope \in BScopes :
        Accepts(file, db, scope) => Merged(file, db, scope) = Scan(db, scope)
=============================================================================
