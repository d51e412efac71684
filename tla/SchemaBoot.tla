----------------------------- MODULE SchemaBoot -----------------------------
(* Opening a store (database.get_db and _init_schema): the word index made or *)
(* brought up to date, the ladder of migrations, the unique indexes, and the  *)
(* version stamp, over stores of version 5 and later, with the word index     *)
(* switched on or off at each start and a crash between any two commits.      *)
(*                                                                           *)
(* Statements run by themselves commit by themselves unless one that writes   *)
(* rows has opened a transaction; a script commits what is open first.  One   *)
(* of the two word indexes stands for both, and one pair of insert and delete *)
(* triggers for theirs.                                                       *)
EXTENDS Naturals, FiniteSets, FiniteSetsExt

CONSTANTS
  Texts,        \* contents of a row
  MsgIds,       \* message ids; NoMsgId for none
  NoMsgId,
  SCHEMA_VERSION,
  OldVersions,  \* versions the store found may have
  MaxRowIds,    \* bound: row ids
  MaxStarts,    \* bound: starts of a server
  MaxRowWrites  \* bound: writes between the starts

VARIABLES
  disk,   \* what is committed
  work,   \* what the connection sees
  open,   \* whether a transaction is open on it
  at,     \* where the start stands; "none" before a store is found
  boot,   \* [fts, needed, failed, current]: the flags and the version read by this start
  starts, rowWrites

bootVars == <<disk, work, open, at, boot, starts, rowWrites>>

NoStore == [version |-> 0, rows |-> <<>>, table |-> FALSE, ai |-> FALSE, au |-> "none", words |-> {},
            pending |-> FALSE, uniqText |-> FALSE, uniqMsg |-> FALSE, columns |-> {}]
NoBoot == [fts |-> FALSE, needed |-> FALSE, failed |-> FALSE, current |-> 0]

(* The versions that added columns.                                          *)
ColumnSteps == 6..10 \cup {18}

(* What the 'rebuild' command makes of an index: one entry per row.           *)
Contents(rows) == {<<i, rows[i].text>> : i \in DOMAIN rows}

SharingText(rows, i) == {j \in DOMAIN rows : rows[j].text = rows[i].text}
SharingMsg(rows, i) == {j \in DOMAIN rows : rows[i].msg # NoMsgId /\ rows[j].msg = rows[i].msg}
TextCollision(rows) == \E i \in DOMAIN rows : Cardinality(SharingText(rows, i)) > 1
MsgCollision(rows) == \E i \in DOMAIN rows : Cardinality(SharingMsg(rows, i)) > 1

(* Stores are stamped with the version that last added columns, or a later one. *)
ASSUME BootAssumption ==
  /\ SCHEMA_VERSION \in Nat /\ \A v \in ColumnSteps : v <= SCHEMA_VERSION
  /\ OldVersions \subseteq Nat /\ MaxRowIds \in Nat

-----------------------------------------------------------------------------
(* Statements.                                                               *)

Executed(s) == work' = s /\ disk' = (IF open THEN disk ELSE s) /\ open' = open
RowsWritten(s) == work' = s /\ disk' = disk /\ open' = TRUE
Scripted(s) == work' = s /\ disk' = s /\ open' = FALSE
Committed(s) == work' = s /\ disk' = s /\ open' = FALSE
Untouched == UNCHANGED <<disk, work, open>>
Goto(place) == at' = place /\ UNCHANGED <<boot, starts, rowWrites>>

-----------------------------------------------------------------------------
(* A store an earlier version left: made with the word index off, on, or on   *)
(* once and stamped while it was off, in which case its update trigger is of  *)
(* an older shape and edits since may have left stale words.                  *)
OldStores ==
  {s \in [version : OldVersions,
          rows : UNION {[1..n -> [text : Texts, msg : MsgIds \cup {NoMsgId}, locked : BOOLEAN]] : n \in 0..2},
          table : BOOLEAN, ai : BOOLEAN, au : {"none", "wide", "scoped"}, words : {{}},
          pending : {FALSE}, uniqText : BOOLEAN, uniqMsg : BOOLEAN, columns : SUBSET ColumnSteps] :
     /\ s.ai = s.table
     /\ ~s.table => s.au = "none"
     /\ s.au = "wide" => s.version > 10
     /\ s.au = "scoped" => s.version > 12
     /\ s.columns = {v \in ColumnSteps : v <= s.version}
     /\ s.uniqText = (s.version > 11 /\ ~TextCollision(s.rows))
     /\ s.uniqMsg = (s.version > 11 /\ ~MsgCollision(s.rows))
     /\ s.version > 11 => \A i \in DOMAIN s.rows :
          \A j \in (SharingText(s.rows, i) \cup SharingMsg(s.rows, i)) \ {i} : s.rows[i].locked /\ s.rows[j].locked}

FoundStore(s, stale) ==
  /\ stale => s.table /\ s.au = "none"
  /\ Committed([s EXCEPT !.words = IF s.table /\ ~stale THEN Contents(s.rows) ELSE {}])
  /\ Goto("down")

StartBoot(fts) ==
  /\ at = "down" /\ starts < MaxStarts
  /\ boot' = [fts |-> fts, needed |-> FALSE, failed |-> FALSE, current |-> disk.version]
  /\ at' = IF fts THEN "probe" ELSE "columns"
  /\ work' = disk /\ open' = FALSE
  /\ starts' = starts + 1
  /\ UNCHANGED <<disk, rowWrites>>

StaleTriggers(s) == s.table /\ s.au # "scoped"

(* Whether the index is to be filled: it is made by this start, an earlier    *)
(* start left it unfilled, or its update trigger is not the current one,      *)
(* which is dropped to be made again.                                         *)
ProbeFts ==
  /\ at = "probe"
  /\ boot' = [boot EXCEPT !.needed = ~work.table \/ work.pending \/ StaleTriggers(work)]
  /\ Executed([work EXCEPT !.au = IF StaleTriggers(work) THEN "none" ELSE @])
  /\ at' = "arm"
  /\ UNCHANGED <<starts, rowWrites>>

ArmedLater(s) == s

Armed(s) == [s EXCEPT !.pending = TRUE]

(* _set_fts_backfill_pending, committed before the empty table is.            *)
ArmBackfill ==
  /\ at = "arm"
  /\ IF boot.needed THEN Committed(Armed(work)) ELSE Untouched
  /\ Goto("table")

WithTable(s) == IF s.table THEN s ELSE [s EXCEPT !.table = TRUE, !.words = {}]
WithTriggers(s) == [s EXCEPT !.ai = TRUE, !.au = IF @ = "none" THEN "scoped" ELSE @]

(* FTS_SQL, statement by statement.                                          *)
CreateFtsTable == at = "table" /\ Scripted(WithTable(work)) /\ Goto("triggers")
CreateFtsTriggers == at = "triggers" /\ Scripted(WithTriggers(work)) /\ Goto("columns")

-----------------------------------------------------------------------------
(* The ladder.                                                               *)

WithColumns(s, upTo) == [s EXCEPT !.columns = @ \cup {v \in ColumnSteps : boot.current < v /\ v <= upTo}]

(* _ensure_column: what is there already is left alone.                       *)
LadderColumns ==
  /\ at = "columns"
  /\ Executed(WithColumns(work, 10))
  /\ Goto("ladder11")

Rebuilt(s) == [s EXCEPT !.words = Contents(s.rows)]

Ladder11 ==
  /\ at = "ladder11"
  /\ IF boot.current < 11 /\ boot.fts
     THEN RowsWritten(Rebuilt(WithTriggers(WithTable(work))))
     ELSE Untouched
  /\ Goto("ladder12")

(* The survivor of a group: a locked row when there is one, else the oldest.  *)
KeptRow(rows, ids) ==
  LET locked == {i \in ids : rows[i].locked} IN IF locked = {} THEN Min(ids) ELSE Min(locked)

MsgKeptOf(rows, ids) ==
  LET locked == {i \in ids : rows[i].locked} IN IF locked = {} THEN Max(ids) ELSE Max(locked)

CollapsedIds(rows) == {i \in DOMAIN rows : ~rows[i].locked /\ i # KeptRow(rows, SharingText(rows, i))}

Collapsed(s) ==
  LET gone == CollapsedIds(s.rows)
  IN  [s EXCEPT !.rows = [i \in DOMAIN s.rows \ gone |-> s.rows[i]],
                !.words = IF s.ai THEN {w \in @ : w[1] \notin gone} ELSE @]

Ladder12 ==
  /\ at = "ladder12"
  /\ IF boot.current < 12 THEN RowsWritten(Collapsed(work)) ELSE Untouched
  /\ Goto("blank")

Blanked(s) ==
  [s EXCEPT !.rows = [i \in DOMAIN s.rows |->
     IF ~s.rows[i].locked /\ s.rows[i].msg # NoMsgId /\ i # MsgKeptOf(s.rows, SharingMsg(s.rows, i))
     THEN [s.rows[i] EXCEPT !.msg = NoMsgId] ELSE s.rows[i]]]

LadderBlank ==
  /\ at = "blank"
  /\ IF boot.current < 12 THEN RowsWritten(Blanked(work)) ELSE Untouched
  /\ Goto("index12")

(* _ensure_dedup_indexes: each by itself, and none where the rows collide.    *)
Indexed(s) ==
  [s EXCEPT !.uniqText = @ \/ ~TextCollision(s.rows), !.uniqMsg = @ \/ ~MsgCollision(s.rows)]

LadderIndexes ==
  /\ at = "index12"
  /\ IF boot.current < 12 THEN Executed(Indexed(work)) ELSE Untouched
  /\ Goto(IF boot.current < 13 /\ boot.fts THEN "narrow" ELSE "ladder18")

DropUpdateTrigger ==
  /\ at = "narrow"
  /\ Executed([work EXCEPT !.au = "none"])
  /\ Goto("narrowed")

NarrowTrigger ==
  /\ at = "narrowed"
  /\ Scripted(WithTriggers(WithTable(work)))
  /\ Goto("ladder18")

Ladder18 ==
  /\ at = "ladder18"
  /\ Executed(WithColumns(work, 18))
  /\ Goto("rebuild")

LadderPlaces == {"columns", "ladder11", "ladder12", "blank", "index12", "narrow", "narrowed", "ladder18"}

LadderFails ==
  /\ at \in LadderPlaces
  /\ boot' = [boot EXCEPT !.failed = TRUE]
  /\ at' = "rebuild"
  /\ UNCHANGED <<disk, work, open, starts, rowWrites>>

-----------------------------------------------------------------------------
RebuildFts ==
  /\ at = "rebuild"
  /\ IF boot.fts /\ boot.needed THEN Committed([Rebuilt(work) EXCEPT !.pending = FALSE]) ELSE Untouched
  /\ Goto("dedup")

RebuildFails ==
  /\ at = "rebuild" /\ boot.fts /\ boot.needed
  /\ Executed(Armed(work))
  /\ Goto("dedup")

EnsureDedup == at = "dedup" /\ Executed(Indexed(work)) /\ Goto("indexes")

(* The scripts of the plain indexes commit whatever is still open.            *)
PlainIndexes == at = "indexes" /\ Scripted(work) /\ Goto("stamp")

(* The stamp is withheld when the ladder failed, and never lowered.           *)
Stamped(s) == IF boot.failed \/ s.version >= SCHEMA_VERSION THEN s.version ELSE SCHEMA_VERSION

StampVersion ==
  /\ at = "stamp"
  /\ Committed([work EXCEPT !.version = Stamped(work)])
  /\ Goto("up")

(* The process ends: by a kill, a failed statement outside the ladder, or a   *)
(* stop of the running server.                                                *)
ProcessEnds ==
  /\ at \notin {"none", "down"}
  /\ work' = disk /\ open' = FALSE
  /\ at' = "down"
  /\ boot' = NoBoot
  /\ UNCHANGED <<disk, starts, rowWrites>>

-----------------------------------------------------------------------------
(* Writes of the running server.  A trigger whose table is missing fails the  *)
(* write; a store and an edit are refused a text or a message id already held.*)

Writable_(s) == at = "up" /\ rowWrites < MaxRowWrites /\ (s.ai => s.table)

Wrote(s) == Committed(s) /\ rowWrites' = rowWrites + 1 /\ UNCHANGED <<at, boot, starts>>

InsertRow(text, msg) ==
  /\ Writable_(work) /\ Cardinality(DOMAIN work.rows) < MaxRowIds
  /\ \A i \in DOMAIN work.rows : work.rows[i].text # text /\ (msg = NoMsgId \/ work.rows[i].msg # msg)
  /\ LET new == Min((1..MaxRowIds + 1) \ DOMAIN work.rows)
         rows == [i \in DOMAIN work.rows \cup {new} |->
                    IF i = new THEN [text |-> text, msg |-> msg, locked |-> FALSE] ELSE work.rows[i]]
     IN  Wrote([work EXCEPT !.rows = rows, !.words = IF work.ai THEN @ \cup {<<new, text>>} ELSE @])

EditRow(i, text) ==
  /\ Writable_(work) /\ i \in DOMAIN work.rows /\ ~work.rows[i].locked
  /\ \A j \in DOMAIN work.rows : work.rows[j].text # text
  /\ LET fires == work.au # "none"
         old == <<i, work.rows[i].text>>
     IN  Wrote([work EXCEPT !.rows[i].text = text, !.words = IF fires THEN (@ \ {old}) \cup {<<i, text>>} ELSE @])

RemoveRow(i) ==
  /\ Writable_(work) /\ i \in DOMAIN work.rows /\ ~work.rows[i].locked
  /\ Wrote([work EXCEPT !.rows = [j \in DOMAIN @ \ {i} |-> @[j]],
                        !.words = IF work.ai THEN @ \ {<<i, work.rows[i].text>>} ELSE @])

LockRow(i) ==
  /\ Writable_(work) /\ i \in DOMAIN work.rows
  /\ Wrote([work EXCEPT !.rows[i].locked = ~@])

(* The repair of check_fts_integrity, over an index the check finds wrong.    *)
RepairWords ==
  /\ at = "up" /\ boot.fts /\ rowWrites < MaxRowWrites
  /\ ~work.table \/ work.words # Contents(work.rows)
  /\ Wrote(Rebuilt(WithTable(work)))

-----------------------------------------------------------------------------
BootInit ==
  /\ disk = NoStore /\ work = NoStore /\ open = FALSE
  /\ at = "none" /\ boot = NoBoot
  /\ starts = 0 /\ rowWrites = 0

BootNext ==
  \/ at = "none" /\ \E s \in OldStores, stale \in BOOLEAN : FoundStore(s, stale)
  \/ \E fts \in BOOLEAN : StartBoot(fts)
  \/ ProbeFts
  \/ ArmBackfill
  \/ CreateFtsTable
  \/ CreateFtsTriggers
  \/ LadderColumns
  \/ Ladder11
  \/ Ladder12
  \/ LadderBlank
  \/ LadderIndexes
  \/ DropUpdateTrigger
  \/ NarrowTrigger
  \/ Ladder18
  \/ LadderFails
  \/ RebuildFts
  \/ RebuildFails
  \/ EnsureDedup
  \/ PlainIndexes
  \/ StampVersion
  \/ ProcessEnds
  \/ \E text \in Texts, msg \in MsgIds \cup {NoMsgId} : InsertRow(text, msg)
  \/ \E i \in DOMAIN work.rows, text \in Texts : EditRow(i, text)
  \/ \E i \in DOMAIN work.rows : RemoveRow(i)
  \/ \E i \in DOMAIN work.rows : LockRow(i)
  \/ RepairWords

BootSpec == BootInit /\ [][BootNext]_bootVars

-----------------------------------------------------------------------------
(* What is on disk never claims more than was done, and no start loses data.  *)
(* Whatever crashed or failed, with the word index on or off: an index with   *)
(* its triggers in place holds the words of every row unless the durable bit  *)
(* asks the next start to fill it, a start whose ladder did not fail leaves   *)
(* the triggers in place, and the current version is stamped only over the    *)
(* columns it promises; and no start loses a text or touches a locked row,    *)
(* although the ladder deletes copies and blanks message ids (bug-026,        *)
(* bug-060, bug-067, bug-118, bug-004 and the v12 step of _init_schema).      *)
BootIsSafe ==
  /\ [](disk.table /\ disk.au = "scoped" /\ ~disk.pending => disk.words = Contents(disk.rows))
  /\ [](at = "up" /\ boot.fts /\ ~boot.failed => work.table /\ work.ai /\ work.au = "scoped")
  /\ [](disk.version = SCHEMA_VERSION => disk.columns = ColumnSteps)
  /\ [][at \notin {"up", "none"} =>
          /\ {disk.rows[i].text : i \in DOMAIN disk.rows} = {disk'.rows[i].text : i \in DOMAIN disk'.rows}
          /\ \A i \in DOMAIN disk.rows : disk.rows[i].locked => i \in DOMAIN disk'.rows /\ disk'.rows[i] = disk.rows[i]]_bootVars
============================================================================
