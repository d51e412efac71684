--------------------------- MODULE VectorRestore ---------------------------
(***************************************************************************)
(* VectorIndex when an operator puts an older copy of the database back    *)
(* under the index files (docs/operations.md, "Backup and restore": the    *)
(* .db is copied, the files beside it are not part of the backup and stay  *)
(* where they are). The copy brings back the table, the log and its clock, *)
(* the schema and sqlite_sequence together.                                *)
(***************************************************************************)
EXTENDS VectorIndex

VARIABLE backup   \* the copy an operator holds

rvars == <<vars, backup>>

Copy == [rows |-> rows, lastId |-> lastId, clock |-> clock, log |-> log, schema |-> schema]

TakeBackup == backup' = Copy /\ UNCHANGED vars

\* The server is stopped, the file replaced and the server started again: its boot
\* finds index files, so the log keeps running, and purge state is gone.
RestoreBackup ==
    /\ ~NoFilePresent
    /\ rows' = backup.rows /\ lastId' = backup.lastId
    /\ clock' = backup.clock /\ log' = backup.log /\ schema' = backup.schema
    /\ builds' = [b \in Builders |-> Idle]
    /\ purges' = 0
    /\ dropping' = [a \in Agents |-> {}]
    /\ UNCHANGED <<files, purged, backup>>

RInit == Init /\ backup = Copy
RNext == (Next /\ UNCHANGED backup) \/ TakeBackup \/ RestoreBackup
RSpec == RInit /\ [][RNext]_rvars

\* docs/CONTIGUOUS_INDEX_DESIGN.md, section 5: a query hands the question to the
\* scan when the log cannot vouch for the file, "a head behind the file's (a
\* database restored from an older copy)" included -- so a file from before a
\* restore is never read for rows it does not hold as they are now.
RestoredFileExact == FileExact
=============================================================================
