---------------------------- MODULE VectorQuery ----------------------------
(***************************************************************************)
(* One local vector query over the memories table (_scan_memories_local    *)
(* and _index_phase1 in cpersona/vector.py), running beside the writers,   *)
(* builds and purges of VectorIndex.                                       *)
(*                                                                         *)
(* Phase 1 finds the newest Window rows of the agent and scores them, from *)
(* the contiguous file when it can promise the same rows and from the      *)
(* table otherwise; phase 2 hydrates the rows that cleared the threshold.  *)
(* Each statement reads its own snapshot, so a commit can fall between any *)
(* two of them. The project, channel and source axes behave as the agent   *)
(* axis does and are left out; so is the cut to the response's limit,      *)
(* which is at least the window here.                                      *)
(***************************************************************************)
EXTENDS VectorIndex

CONSTANTS
    QueryAgent,    \* the agent the query is scoped to
    Near,          \* vectors whose similarity clears the threshold
    Window,        \* scan_limit
    MaxChanged     \* MAX_CHANGED_IDS

ASSUME QueryConstants ==
    /\ QueryAgent \in Agents /\ Near \subseteq Vectors
    /\ Window \in Nat \ {0} /\ MaxChanged \in Nat

VARIABLE
    q    \* the query: program counter, what it has read, and two histories

qvars == <<vars, q>>

Scored == Ids \X Vectors

Query == [pc : {"idle", "log", "probe", "count", "tail", "hydrate", "scan", "fill", "done"},
          index : File \cup {NoFile}, changed : SUBSET Ids, window : Table,
          answer : SUBSET Scored, quiet : BOOLEAN, seen : SUBSET Scored]

NoRows == [i \in Ids |-> NoRow]

NoQuery == [pc |-> "idle", index |-> NoFile, changed |-> {}, window |-> NoRows,
            answer |-> {}, quiet |-> TRUE, seen |-> {}]

----------------------------------------------------------------------------
(* The rows a window holds                                                 *)

\* ORDER BY created_at DESC, id ASC.
Before(t, i, j) == t[i].at > t[j].at \/ (t[i].at = t[j].at /\ i < j)

\* The first n of the ids S of table t in that order.
First(t, S, n) == {i \in S : Cardinality({j \in S : Before(t, j, i)}) < n}

Only(t, S) == [i \in Ids |-> IF i \in S THEN t[i] ELSE NoRow]

\* WHERE agent_id = ? AND embedding IS NOT NULL.
InScope(t) == {i \in Embedded(t) : t[i].agent = QueryAgent}

\* The scan's window: taken over every width, the foreign ones skipped after it.
ScanWindow(t) == Only(t, First(t, InScope(t), Window))

\* Rows of the query's width at or above the threshold.
Survivors(w) == {i \in Live(w) : WidthOf(w[i].vec) = "native" /\ w[i].vec \in Near}

Scores(w, S) == {<<i, w[i].vec>> : i \in S}

\* What the scan answers in one state of the table.
ScanAnswer(t) == LET w == ScanWindow(t) IN Scores(w, Survivors(w))

----------------------------------------------------------------------------
(* Phase 1 from the file                                                   *)

\* cached_index: the file on disk, or the scan when there is none of the query's width.
Begin ==
    /\ q.pc = "idle"
    /\ q' = [NoQuery EXCEPT
          !.pc = IF files["vec"] # NoFile /\ files["vec"].dim = "native" THEN "log" ELSE "scan",
          !.index = files["vec"],
          !.seen = Scores(rows, InScope(rows))]
    /\ UNCHANGED vars

\* changed_since_build, one statement.
ReadLog ==
    /\ q.pc = "log"
    /\ q' = IF Vouches(q.index) /\ Cardinality(ChangedSince(q.index)) <= MaxChanged
            THEN [q EXCEPT !.pc = "probe", !.changed = ChangedSince(q.index)]
            ELSE [q EXCEPT !.pc = "scan"]
    /\ UNCHANGED vars

\* Mutant of Selection: the limit is taken before the changed rows are left out.
SelectionLimitFirst ==
    First(q.index.kept, {i \in Live(q.index.kept) : q.index.kept[i].agent = QueryAgent}, Window)
        \ q.changed

\* select: the file's rows of the agent the log did not name, newest first, to the limit.
Selection ==
    First(q.index.kept,
          {i \in Live(q.index.kept) : q.index.kept[i].agent = QueryAgent /\ i \notin q.changed},
          Window)

\* _index_rows_lost_embedding: a selected row of the agent whose vector was cleared.
ProbeLost ==
    /\ q.pc = "probe"
    /\ LET lost == \E i \in Selection : i \in Live(rows) \ Embedded(rows) /\ rows[i].agent = QueryAgent
       IN  q' = [q EXCEPT !.pc = IF lost THEN "scan" ELSE "count"]
    /\ UNCHANGED vars

\* _index_rows_gone: how many selected ids are still rows of the agent no older than
\* the oldest one selected.
ProbeGone ==
    /\ q.pc = "count"
    /\ LET there == {i \in Selection \cap Live(rows) :
                        /\ rows[i].agent = QueryAgent
                        /\ \E j \in Selection : rows[i].at >= q.index.kept[j].at}
       IN  q' = [q EXCEPT !.pc = IF there # Selection THEN "scan" ELSE "tail"]
    /\ UNCHANGED vars

\* _index_tail_rows: the rows the file cannot answer for, from the live table.
Tail ==
    First(rows, {i \in InScope(rows) : i > q.index.watermark \/ i \in q.index.holes \cup q.changed},
          Window)

\* _window_selection: the two runs interleaved in the scan's order, to the limit.
Merged ==
    LET both == [i \in Ids |-> IF i \in Tail THEN rows[i]
                               ELSE IF i \in Selection THEN q.index.kept[i] ELSE NoRow]
    IN  Only(both, First(both, Tail \cup Selection, Window))

\* A window with no row over the threshold ends the query; any other is hydrated.
Rank(w, next) ==
    q' = [q EXCEPT !.window = w, !.pc = IF Survivors(w) = {} THEN "done" ELSE next]

\* The last statement of phase 1 and the merge. A tail row of another width hands
\* the query to the scan, whose window counts such rows before it skips them.
ReadTail ==
    /\ q.pc = "tail"
    /\ IF \E i \in Tail : WidthOf(rows[i].vec) # q.index.dim
       THEN q' = [q EXCEPT !.pc = "scan"]
       ELSE Rank(Merged, "hydrate")
    /\ UNCHANGED vars

\* Every statement of the index phase is guarded: an exception means the scan.
FailOpen ==
    /\ q.pc \in {"log", "probe", "count", "tail"}
    /\ q' = [q EXCEPT !.pc = "scan"]
    /\ UNCHANGED vars

----------------------------------------------------------------------------
(* Phase 1 from the table, and phase 2                                     *)

Scan ==
    /\ q.pc = "scan"
    /\ Rank(ScanWindow(rows), "fill")
    /\ UNCHANGED vars

\* _fetch_rows_by_id with the isolation predicate re-applied.
Payload == {i \in Survivors(q.window) \cap Live(rows) : rows[i].agent = QueryAgent}

\* Phase 2 after the file: a survivor without a row sends the query to the scan.
Hydrate ==
    /\ q.pc = "hydrate"
    /\ q' = IF Payload = Survivors(q.window)
            THEN [q EXCEPT !.pc = "done", !.answer = Scores(q.window, Payload)]
            ELSE [q EXCEPT !.pc = "scan"]
    /\ UNCHANGED vars

\* Phase 2 after the scan: a row deleted or moved between the two statements is skipped.
Fill ==
    /\ q.pc = "fill"
    /\ q' = [q EXCEPT !.pc = "done", !.answer = Scores(q.window, Payload)]
    /\ UNCHANGED vars

Respond == q.pc = "done" /\ q' = NoQuery /\ UNCHANGED vars

----------------------------------------------------------------------------
(* The rest of the system beside the query                                 *)

\* The query's histories: whether the table moved since it began, and every scored
\* row it could have read. A restart of the server does not end it: the table may
\* be read by another server process over the same file.
Observed ==
    q' = IF q.pc = "idle" THEN q
         ELSE [q EXCEPT !.quiet = q.quiet /\ rows' = rows,
                        !.seen = q.seen \cup Scores(rows', InScope(rows'))]

Beside == Next /\ Observed

QueryStep == \/ Begin \/ ReadLog \/ ProbeLost \/ ProbeGone \/ ReadTail \/ FailOpen
             \/ Scan \/ Hydrate \/ Fill \/ Respond

QInit == Init /\ q = NoQuery
QNext == Beside \/ QueryStep
QSpec == QInit /\ [][QNext]_qvars

----------------------------------------------------------------------------
(* Properties                                                              *)

QTypeOK == TypeOK /\ q \in Query

\* Whichever supplier answered, and whatever the builds, prunes, schema changes and
\* the log did meanwhile: if no commit touched the rows while the query ran, it
\* answers exactly what the scan of the table answers, at every window size.
IndexEqualsScan == q.pc = "done" /\ q.quiet => q.answer = ScanAnswer(rows)

\* Under concurrent writes every scored row in the answer was, with that vector and
\* under that agent, in the table at some moment of the query: no row is ranked by
\* a vector replaced, cleared, purged or moved away before the query began.
NoStaleAnswer == q.answer \subseteq q.seen
=============================================================================
