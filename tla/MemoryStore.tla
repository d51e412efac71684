---------------------------- MODULE MemoryStore ----------------------------
(***************************************************************************)
(* The write path of the memories table: do_store (memory_handlers.py),    *)
(* do_update_memory, do_delete_memory, do_lock_memory, do_unlock_memory    *)
(* and do_delete_agent_data (admin_handlers.py), and the repair that gives *)
(* unembedded rows their vector (checks.py).                               *)
(*                                                                         *)
(* A handler looks at the table outside any lock, awaits the embedding     *)
(* backend, writes in a transaction of its own and then tells the remote   *)
(* index. The table may have moved at each of these points. What the write *)
(* still has to guard is in its statement, in the unique indexes or in a   *)
(* second probe under the lock.                                            *)
(*                                                                         *)
(* A call here is one that got past the checks of its arguments alone and  *)
(* past the pause of its session: those answer without touching anything.  *)
(* The derived sets the triggers drop, and the builds a handler queues at  *)
(* its end, are the queue's business.                                      *)
(***************************************************************************)
EXTENDS Naturals

CONSTANTS
    Agents, Projects, Channels, Global, MsgIds, NoMsg, Texts, Sources, NoRow, MaxRows,
    Callers,     \* handlers in flight at once
    Unscoped,    \* agent_id "": the operator's call, with no ownership to check
    NoText,      \* no vector, no text
    PushesFail,  \* whether a post to the remote index can fail
    MaxCalls     \* bound: calls made

VARIABLES
    rows,     \* the memories table
    lastId,   \* sqlite_sequence
    blobs,    \* the embedding column: the text a row's vector was made from
    remote,   \* the entries of the remote vector index
    calls,    \* the handlers in flight
    repair,   \* vectors a check_health run computed and has not written: id -> text
    made      \* calls so far

vars == <<rows, lastId, blobs, remote, calls, repair, made>>

\* The abstract store, its table and id sequence being this one's.
Records == INSTANCE RecordStore WITH rows <- rows, lastId <- lastId

Ids    == Records!Ids
Record == Records!Record

ASSUME StoreConstants ==
    /\ Global \in Projects \cap Channels /\ NoMsg \in MsgIds
    /\ NoRow \notin Record /\ NoText \notin Texts /\ Unscoped \notin Agents
    /\ MaxRows \in Nat /\ MaxCalls \in Nat /\ PushesFail \in BOOLEAN

----------------------------------------------------------------------------
(* Data                                                                    *)

Entry == [ns : Agents, id : Ids, text : Texts]

\* A call: its arguments, the owner it read, its place and what it answers.
Ops     == {"store", "update", "delete", "lock", "unlock", "wipe"}
Places  == {"idle", "probe", "insert", "check", "holder", "write", "push"}
Answer  == {"none", "done", "skipped", "rejected", "refused"}
Call    == [pc : Places, op : Ops, by : Agents \cup {Unscoped}, id : 0..MaxRows,
            row : Record \cup {NoRow}, text : Texts \cup {NoText}, owner : Agents \cup {Unscoped},
            answer : Answer]

Resting(answer) ==
    [pc |-> "idle", op |-> "wipe", by |-> Unscoped, id |-> 0, row |-> NoRow, text |-> NoText,
     owner |-> Unscoped, answer |-> answer]

Live == {i \in Ids : rows[i] # NoRow}

Goto(c, pc)      == calls' = [calls EXCEPT ![c].pc = pc]
Reply(c, answer) == calls' = [calls EXCEPT ![c] = Resting(answer)]

----------------------------------------------------------------------------
(* Dedup                                                                   *)

\* The rows with r's message id. Repeated under the lock (beyond), the probe leaves
\* out r's own project, which the unique index on message ids guards.
SameMessage(r, beyond) ==
    {i \in Live : /\ r.msg # NoMsg /\ rows[i].msg = r.msg /\ rows[i].agent = r.agent
                  /\ rows[i].project \in {r.project, Global} \ (IF beyond THEN {r.project} ELSE {})}

\* The visible rows with r's text, in the same way without r's own bucket.
SameText(r, beyond) ==
    {i \in Live : /\ rows[i].agent = r.agent /\ rows[i].text = r.text
                  /\ rows[i].project \in {r.project, Global} /\ rows[i].channel \in {r.channel, Global}
                  /\ ~(beyond /\ rows[i].project = r.project /\ rows[i].channel = r.channel)}

\* "write" stands for None: the record is to be written.
StoreDedupAnswer(r, beyond) ==
    IF SameMessage(r, beyond) # {} \/ \E i \in SameText(r, beyond) : rows[i].source = r.source
    THEN "skipped"
    ELSE IF \E i \in SameText(r, beyond) : rows[i].project = r.project /\ rows[i].channel = r.channel
         THEN "rejected"
         ELSE "write"

\* Mutant of BeyondAnswer: nothing is probed under the lock.
BeyondAnswerTrusting(r) == "write"

\* The probe repeated under the write lock.
BeyondAnswer(r) == StoreDedupAnswer(r, TRUE)

\* The two unique indexes: one text per bucket, one message id per project.
BreaksUnique(r) ==
    \E i \in Live :
        /\ rows[i].agent = r.agent /\ rows[i].project = r.project
        /\ \/ rows[i].channel = r.channel /\ rows[i].text = r.text
           \/ r.msg # NoMsg /\ rows[i].msg = r.msg

\* Another row of i's bucket that holds the text.
SameBucketHolder(i, text) ==
    {j \in Live \ {i} : /\ rows[j].agent = rows[i].agent /\ rows[j].project = rows[i].project
                        /\ rows[j].channel = rows[i].channel /\ rows[j].text = text}

----------------------------------------------------------------------------
(* Calls                                                                   *)

Begin(c, call) ==
    /\ calls[c].pc = "idle" /\ made < MaxCalls
    /\ calls' = [calls EXCEPT ![c] = call]
    /\ made' = made + 1
    /\ UNCHANGED <<rows, lastId, blobs, remote, repair>>

BeginStore(c, r) ==
    /\ ~r.locked
    /\ Begin(c, [pc |-> "probe", op |-> "store", by |-> r.agent, id |-> 0, row |-> r,
                 text |-> r.text, owner |-> r.agent, answer |-> "none"])

BeginUpdate(c, by, i, t) ==
    Begin(c, [pc |-> "check", op |-> "update", by |-> by, id |-> i, row |-> NoRow,
              text |-> t, owner |-> Unscoped, answer |-> "none"])

BeginById(c, op, by, i) ==
    Begin(c, [pc |-> "check", op |-> op, by |-> by, id |-> i, row |-> NoRow,
              text |-> NoText, owner |-> Unscoped, answer |-> "none"])

BeginWipe(c, a) ==
    Begin(c, [pc |-> "write", op |-> "wipe", by |-> a, id |-> 0, row |-> NoRow,
              text |-> NoText, owner |-> a, answer |-> "none"])

\* The first dedup probe, before the embedding is asked for.
Probe(c) ==
    /\ calls[c].pc = "probe"
    /\ LET answer == StoreDedupAnswer(calls[c].row, FALSE)
       IN  IF answer = "write" THEN Goto(c, "insert") ELSE Reply(c, answer)
    /\ UNCHANGED <<rows, lastId, blobs, remote, repair, made>>

\* Mutant of NextId: a rowid without AUTOINCREMENT, one past the highest row there is.
NextIdReused == IF Live = {} THEN 1 ELSE 1 + CHOOSE i \in Live : \A j \in Live : j <= i

\* AUTOINCREMENT: no id is handed out twice.
NextId == lastId + 1

\* The insert's transaction: the second probe and INSERT OR IGNORE, which uses up an
\* id either way. The embedding may have failed, and then the row has no vector.
Insert(c, blob) ==
    LET r == calls[c].row
        answer == BeyondAnswer(r)
    IN  /\ calls[c].pc = "insert" /\ blob \in {r.text, NoText}
        /\ \/ /\ answer # "write"
              /\ Reply(c, answer)
              /\ UNCHANGED <<rows, lastId, blobs>>
           \/ /\ answer = "write" /\ lastId < MaxRows
              /\ lastId' = lastId + 1
              /\ IF BreaksUnique(r)
                 THEN Reply(c, "skipped") /\ UNCHANGED <<rows, blobs>>
                 ELSE /\ rows' = [rows EXCEPT ![NextId] = r]
                      /\ blobs' = [blobs EXCEPT ![NextId] = blob]
                      /\ calls' = [calls EXCEPT ![c].pc = "push", ![c].id = NextId,
                                                ![c].answer = "done"]
        /\ UNCHANGED <<remote, repair, made>>

\* What the by-id handlers read first: the owner and, where the row is to change or
\* go, the lock. The refusal is the same for every reason.
Check(c) ==
    LET call == calls[c]
        row == rows[call.id]
    IN  /\ call.pc = "check"
        /\ IF row = NoRow THEN Reply(c, "refused")
           ELSE IF \/ call.by \notin {Unscoped, row.agent}
                   \/ call.op \in {"update", "delete"} /\ row.locked
                THEN Reply(c, "refused")
                ELSE calls' = [calls EXCEPT ![c].owner = row.agent,
                                  ![c].pc = IF call.op = "update" THEN "holder" ELSE "write"]
        /\ UNCHANGED <<rows, lastId, blobs, remote, repair, made>>

\* update: the look for a colliding row, before the embedding. A row that is gone has
\* no bucket, and the write will find that out.
Holder(c) ==
    LET call == calls[c]
    IN  /\ call.pc = "holder"
        /\ IF rows[call.id] # NoRow /\ SameBucketHolder(call.id, call.text) # {}
           THEN Reply(c, "refused") ELSE Goto(c, "write")
        /\ UNCHANGED <<rows, lastId, blobs, remote, repair, made>>

Commit(c, pc, answer) == calls' = [calls EXCEPT ![c].pc = pc, ![c].answer = answer]

\* UPDATE ... WHERE id = ? AND locked = 0; the content index turns a collision away.
WriteUpdate(c, blob) ==
    LET i == calls[c].id
        t == calls[c].text
    IN  /\ calls[c].pc = "write" /\ calls[c].op = "update" /\ blob \in {t, NoText}
        /\ IF rows[i] = NoRow THEN Reply(c, "refused") /\ UNCHANGED <<rows, blobs>>
           ELSE IF rows[i].locked \/ SameBucketHolder(i, t) # {}
                THEN Reply(c, "refused") /\ UNCHANGED <<rows, blobs>>
                ELSE /\ rows' = [rows EXCEPT ![i].text = t]
                     /\ blobs' = [blobs EXCEPT ![i] = blob]
                     /\ Commit(c, "push", "done")
        /\ UNCHANGED <<lastId, remote, repair, made>>

\* Mutant of DeletableBy: the statement does not ask for the lock again.
DeletableByAnyLock(call) ==
    rows[call.id] # NoRow /\ call.by \in {Unscoped, rows[call.id].agent}

\* DELETE ... WHERE id = ? [AND agent_id = ?] AND locked = 0
DeletableBy(call) ==
    IF rows[call.id] = NoRow THEN FALSE
    ELSE call.by \in {Unscoped, rows[call.id].agent} /\ ~rows[call.id].locked

WriteDelete(c) ==
    LET call == calls[c]
    IN  /\ call.pc = "write" /\ call.op = "delete"
        /\ IF DeletableBy(call)
           THEN /\ rows' = [rows EXCEPT ![call.id] = NoRow]
                /\ blobs' = [blobs EXCEPT ![call.id] = NoText]
                /\ Commit(c, "push", "done")
           ELSE Reply(c, "refused") /\ UNCHANGED <<rows, blobs>>
        /\ UNCHANGED <<lastId, remote, repair, made>>

\* Mutant of WriteLock: the number of rows the statement changed is not looked at.
WriteLockBlind(c) ==
    LET call == calls[c]
    IN  /\ call.pc = "write" /\ call.op \in {"lock", "unlock"}
        /\ rows' = IF rows[call.id] = NoRow THEN rows
                   ELSE [rows EXCEPT ![call.id].locked = (call.op = "lock")]
        /\ Reply(c, "done")
        /\ UNCHANGED <<lastId, blobs, remote, repair, made>>

\* UPDATE memories SET locked = ? WHERE id = ?; nothing follows the commit.
WriteLock(c) ==
    LET call == calls[c]
    IN  /\ call.pc = "write" /\ call.op \in {"lock", "unlock"}
        /\ IF rows[call.id] # NoRow
           THEN /\ rows' = [rows EXCEPT ![call.id].locked = (call.op = "lock")]
                /\ Reply(c, "done")
           ELSE Reply(c, "refused") /\ UNCHANGED rows
        /\ UNCHANGED <<lastId, blobs, remote, repair, made>>

\* The purge's one transaction. (What else it deletes and drops is in VectorIndex and
\* TaskQueue.)
WriteWipe(c) ==
    LET gone == {i \in Live : rows[i].agent = calls[c].by}
    IN  /\ calls[c].pc = "write" /\ calls[c].op = "wipe"
        /\ rows' = [i \in Ids |-> IF i \in gone THEN NoRow ELSE rows[i]]
        /\ blobs' = [i \in Ids |-> IF i \in gone THEN NoText ELSE blobs[i]]
        /\ Commit(c, "push", "done")
        /\ UNCHANGED <<lastId, remote, repair, made>>

\* What the remote index holds once it has taken a call's post.
RemoteAfter(call) ==
    LET others == {e \in remote : ~(e.ns = call.owner /\ e.id = call.id)}
    IN  CASE call.op \in {"store", "update"} ->
                others \cup {[ns |-> call.owner, id |-> call.id, text |-> call.text]}
          [] call.op = "delete" -> others
          [] OTHER -> {e \in remote : e.ns # call.owner}

\* The post to the remote index, outside every lock. Its failure is logged, not told.
Push(c) ==
    /\ calls[c].pc = "push"
    /\ remote' \in {RemoteAfter(calls[c])} \cup (IF PushesFail THEN {remote} ELSE {})
    /\ Reply(c, "done")
    /\ UNCHANGED <<rows, lastId, blobs, repair, made>>

----------------------------------------------------------------------------
(* The repair of missing vectors                                           *)

\* prefetch_null_embeddings, unlocked: some of the rows without a vector (a chunk may
\* fail) are embedded.
Prefetch(ids) ==
    /\ \A i \in Ids : repair[i] = NoText
    /\ ids # {} /\ \A i \in ids : i \in Live /\ blobs[i] = NoText
    /\ repair' = [i \in Ids |-> IF i \in ids THEN rows[i].text ELSE NoText]
    /\ UNCHANGED <<rows, lastId, blobs, remote, calls, made>>

\* Mutant of Attachable: the row's text is not compared with the embedded one.
AttachableToAny(i) == repair[i] # NoText /\ rows[i] # NoRow /\ blobs[i] = NoText

\* UPDATE ... WHERE id = ? AND embedding IS NULL AND content = ?
Attachable(i) ==
    IF repair[i] = NoText \/ rows[i] = NoRow THEN FALSE
    ELSE blobs[i] = NoText /\ rows[i].text = repair[i]

ApplyEmbeddings ==
    /\ \E i \in Ids : repair[i] # NoText
    /\ blobs' = [i \in Ids |-> IF Attachable(i) THEN repair[i] ELSE blobs[i]]
    /\ repair' = [i \in Ids |-> NoText]
    /\ UNCHANGED <<rows, lastId, remote, calls, made>>

----------------------------------------------------------------------------
(* Specification                                                           *)

\* A server that opens a store it, or an earlier version, has written before.
Init ==
    /\ lastId \in 0..MaxRows
    /\ rows \in [Ids -> Record \cup {NoRow}]
    /\ \A i \in Ids : rows[i] # NoRow => i <= lastId
    /\ blobs \in [Ids -> Texts \cup {NoText}]
    /\ \A i \in Ids : blobs[i] # NoText => rows[i] # NoRow /\ rows[i].text = blobs[i]
    /\ remote = {}
    /\ calls = [c \in Callers |-> Resting("none")]
    /\ repair = [i \in Ids |-> NoText]
    /\ made = 0

\* A by-id call on an id not handed out yet is refused by its check and is left out.
Ask(c) ==
    \/ \E r \in Record : BeginStore(c, r)
    \/ \E a \in Agents : BeginWipe(c, a)
    \/ \E by \in Agents \cup {Unscoped}, i \in 1..lastId :
          \/ \E t \in Texts : BeginUpdate(c, by, i, t)
          \/ \E op \in {"delete", "lock", "unlock"} : BeginById(c, op, by, i)

Step(c) ==
    \/ Probe(c) \/ Check(c) \/ Holder(c)
    \/ \E blob \in Texts \cup {NoText} : Insert(c, blob) \/ WriteUpdate(c, blob)
    \/ WriteDelete(c) \/ WriteLock(c) \/ WriteWipe(c) \/ Push(c)

Next ==
    \/ \E c \in Callers : Ask(c) \/ Step(c)
    \/ \E ids \in SUBSET Ids : Prefetch(ids)
    \/ ApplyEmbeddings

Spec == Init /\ [][Next]_vars

----------------------------------------------------------------------------
(* Properties                                                              *)

\* Types of the whole state.
TypeOK ==
    /\ rows \in [Ids -> Record \cup {NoRow}] /\ lastId \in 0..MaxRows
    /\ blobs \in [Ids -> Texts \cup {NoText}] /\ repair \in [Ids -> Texts \cup {NoText}]
    /\ remote \subseteq Entry
    /\ calls \in [Callers -> Call] /\ made \in 0..MaxCalls

\* do_store, do_update_memory, do_delete_memory, the locks and the purge write as if
\* each were one instant: probing early, awaiting the embedding and writing late lets
\* in no record a reader of its bucket already had when it was written, and no change
\* of a locked row.
WritesAreAtomic == Records!Spec

\* A row's vector is that of its present text or none, although store, update and the
\* re-embedding repair all compute vectors outside the lock (bug-077, bug-011).
VectorOfText == \A i \in Ids : blobs[i] # NoText =>
    rows[i] # NoRow /\ rows[i].text = blobs[i]

\* A by-id call scoped to an agent changes rows of that agent only, although the owner
\* is read a transaction earlier than the statement that writes by id alone.
OwnRowsOnly == [][\A c \in Callers : calls'[c] # calls[c] =>
    \A i \in Ids : rows[i] # NoRow /\ rows'[i] # rows[i] =>
        calls[c].by \in {Unscoped, rows[i].agent}]_vars

\* A locked row keeps its content through every edit and delete in flight when the
\* lock was set; only the purge of its agent removes it (bug-024).
LockHolds == [][\A i \in Ids : rows[i] # NoRow /\ rows[i].locked =>
    \/ rows'[i] # NoRow /\ rows'[i].text = rows[i].text
    \/ \E c \in Callers : calls[c].op = "wipe" /\ calls'[c] # calls[c]]_vars

\* What a call has to have done to the table when it reports success.
Took(c) ==
    LET call == calls[c]
    IN  CASE call.op = "update" -> rows'[call.id] # NoRow /\ rows'[call.id].text = call.text
          [] call.op = "delete" -> rows'[call.id] = NoRow /\ rows[call.id] # NoRow
          [] call.op \in {"lock", "unlock"} ->
                rows'[call.id] # NoRow /\ rows'[call.id].locked = (call.op = "lock")
          [] OTHER -> TRUE

\* A by-id write that reports success changed a row that was there at that moment: a
\* delete landing between its check and its statement is not acknowledged as an edit, a
\* lock or a second delete (bug-024, bug-099).
SuccessIsReal == [][\A c \in Callers :
    calls[c].pc = "write" /\ calls'[c].answer = "done" => Took(c)]_vars

\* do_store answers "skipped" only when the caller's own recall finds what it stored:
\* its message, or its text under its source (comments of _store_dedup_answer).
SkipMeansHeld == [][\A c \in Callers :
    calls[c].op = "store" /\ calls[c].pc # "idle" /\ calls'[c].answer = "skipped" =>
        \E i \in Live : Records!Answers(calls[c].row, rows[i])]_vars

\* With no call in flight, what the remote index holds for a row is the row's text
\* ("Keep the remote vector entry in step with the new text", do_update_memory).
RemoteInStep ==
    (\A c \in Callers : calls[c].pc = "idle") =>
        \A e \in remote : rows[e.id] # NoRow => rows[e.id].text = e.text
=============================================================================
