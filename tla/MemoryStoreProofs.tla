------------------------- MODULE MemoryStoreProofs -------------------------
(***************************************************************************)
(* What MemoryStore guarantees for every number of agents, buckets, texts, *)
(* callers and rows: it implements RecordStore, and what it stores beside  *)
(* the rows belongs to them.                                               *)
(***************************************************************************)
EXTENDS MemoryStore, TLAPS

----------------------------------------------------------------------------
(* The inductive invariant                                                 *)

\* What a call in flight has established of the table and the last id. Past its check, a
\* by-id call knows the owner of its row, and the row, while it exists, keeps that owner:
\* no id is used twice.
CallInv(call, table, last) ==
    /\ call.pc \in {"probe", "insert"} =>
          /\ call.op = "store" /\ call.row \in Record /\ ~call.row.locked
          /\ call.owner = call.row.agent /\ call.text = call.row.text
    /\ call.pc \in {"check", "holder"} => call.op \in {"update", "delete", "lock", "unlock"}
    /\ call.pc \in {"check", "holder", "write"} => call.op # "store"
    /\ call.pc # "idle" /\ call.op \in {"update", "delete", "lock", "unlock"} => call.id \in 1..last
    /\ call.pc # "idle" /\ call.op = "update" => call.text \in Texts
    /\ call.pc # "idle" /\ call.op = "wipe" => call.by \in Agents /\ call.owner = call.by
    /\ call.pc \in {"holder", "write", "push"} => call.owner \in Agents
    /\ call.pc = "push" /\ call.op # "wipe" => call.id \in Ids
    /\ call.pc = "push" /\ call.op = "store" => call.text \in Texts
    /\ call.pc \in {"holder", "write"} /\ call.op # "wipe" =>
          /\ call.by \in {Unscoped, call.owner}
          /\ table[call.id] # NoRow => table[call.id].agent = call.owner
    /\ call.pc \notin {"idle", "push"} => call.answer = "none"

\* No row lies above the last id handed out, so an insert overwrites nothing.
FreshIds == \A i \in Ids : rows[i] # NoRow => i <= lastId

Inv == TypeOK /\ FreshIds /\ \A c \in Callers : CallInv(calls[c], rows, lastId)

USE StoreConstants

----------------------------------------------------------------------------
(* What a step does to the table                                           *)

\* The five ways a step of caller c changes the table, and the one in which it stays.
Inserts(c) ==
    /\ calls[c].pc = "insert" /\ lastId < MaxRows
    /\ lastId' = lastId + 1
    /\ rows' = [rows EXCEPT ![lastId + 1] = calls[c].row]
    /\ BeyondAnswer(calls[c].row) = "write" /\ ~BreaksUnique(calls[c].row)

Edits(c) ==
    /\ calls[c].pc = "write" /\ calls[c].op = "update"
    /\ rows[calls[c].id] # NoRow /\ ~rows[calls[c].id].locked
    /\ SameBucketHolder(calls[c].id, calls[c].text) = {}
    /\ rows' = [rows EXCEPT ![calls[c].id].text = calls[c].text]
    /\ UNCHANGED lastId

Deletes(c) ==
    /\ calls[c].pc = "write" /\ calls[c].op = "delete"
    /\ rows[calls[c].id] # NoRow /\ ~rows[calls[c].id].locked
    /\ rows' = [rows EXCEPT ![calls[c].id] = NoRow]
    /\ UNCHANGED lastId

Locks(c) ==
    /\ calls[c].pc = "write" /\ calls[c].op \in {"lock", "unlock"}
    /\ rows[calls[c].id] # NoRow
    /\ rows' = [rows EXCEPT ![calls[c].id].locked = (calls[c].op = "lock")]
    /\ UNCHANGED lastId

Wipes(c) ==
    /\ calls[c].pc = "write" /\ calls[c].op = "wipe"
    /\ rows' = [i \in Ids |-> IF rows[i] # NoRow /\ rows[i].agent = calls[c].by THEN NoRow ELSE rows[i]]
    /\ UNCHANGED lastId

Keeps ==
    /\ UNCHANGED rows
    /\ UNCHANGED lastId \/ (lastId < MaxRows /\ lastId' = lastId + 1)

Changes(c) == Inserts(c) \/ Edits(c) \/ Deletes(c) \/ Locks(c) \/ Wipes(c)

\* Only the five writing actions change the table, each in its one way.
LEMMA StepOfCaller ==
    ASSUME NEW c \in Callers, TypeOK, Step(c)
    PROVE  Keeps \/ Changes(c)
<1> USE DEF Keeps, Changes
<1>1. CASE Probe(c) \/ Check(c) \/ Holder(c) \/ Push(c)
  BY <1>1 DEF Probe, Check, Holder, Push
<1>2. ASSUME NEW blob \in Texts \cup {NoText}, Insert(c, blob)
      PROVE  Keeps \/ Inserts(c)
  BY <1>2 DEF Insert, Inserts, NextId
<1>3. ASSUME NEW blob \in Texts \cup {NoText}, WriteUpdate(c, blob)
      PROVE  Keeps \/ Edits(c)
  BY <1>3 DEF WriteUpdate, Edits
<1>4. CASE WriteDelete(c)
  BY <1>4 DEF WriteDelete, DeletableBy, Deletes
<1>5. CASE WriteLock(c)
  BY <1>5 DEF WriteLock, Locks
<1>6. CASE WriteWipe(c)
  BY <1>6 DEF WriteWipe, Wipes, Live
<1> QED
  BY <1>1, <1>2, <1>3, <1>4, <1>5, <1>6 DEF Step

\* The same for any step of the system.
LEMMA TableStep ==
    ASSUME TypeOK, [Next]_vars
    PROVE  Keeps \/ \E c \in Callers : Changes(c)
<1>1. CASE UNCHANGED vars
  BY <1>1 DEF vars, Keeps
<1>2. ASSUME NEW c \in Callers, Ask(c)
      PROVE  Keeps
  BY <1>2 DEF Ask, BeginStore, BeginUpdate, BeginById, BeginWipe, Begin, Keeps
<1>3. CASE (\E ids \in SUBSET Ids : Prefetch(ids)) \/ ApplyEmbeddings
  BY <1>3 DEF Prefetch, ApplyEmbeddings, Keeps
<1> QED
  BY <1>1, <1>2, <1>3, StepOfCaller DEF Next

----------------------------------------------------------------------------
(* Refinement                                                              *)

\* Past the second probe and the unique indexes, no row answers the new one: the
\* indexes see the writer's own bucket and project, the probe the rest of what a
\* reader of the bucket sees.
LEMMA InsertIsAbsent ==
    ASSUME TypeOK, NEW r \in Record, BeyondAnswer(r) = "write", ~BreaksUnique(r),
           NEW i \in Ids, rows[i] # NoRow
    PROVE  /\ ~Records!Answers(r, rows[i])
           /\ ~(Records!SameBucket(r, rows[i]) /\ rows[i].text = r.text)
<1>1. i \in Live
  BY DEF Live
<1>2. SameMessage(r, TRUE) = {} /\ \A j \in SameText(r, TRUE) : rows[j].source # r.source
  BY DEF BeyondAnswer, StoreDedupAnswer
<1>3. i \notin SameMessage(r, TRUE)
  BY <1>2
<1>4. i \in SameText(r, TRUE) => rows[i].source # r.source
  BY <1>2
<1>5. ~(/\ rows[i].agent = r.agent /\ rows[i].project = r.project
        /\ \/ rows[i].channel = r.channel /\ rows[i].text = r.text
           \/ r.msg # NoMsg /\ rows[i].msg = r.msg)
  BY <1>1 DEF BreaksUnique
<1> QED
  BY <1>1, <1>3, <1>4, <1>5
     DEF SameMessage, SameText, Records!Answers, Records!SeenFrom, Records!SameBucket

\* Each way of changing the table is the atomic write of RecordStore.
LEMMA ChangeIsRecordStep ==
    ASSUME Inv, NEW c \in Callers, Changes(c)
    PROVE  Records!Next
<1>0. TypeOK /\ CallInv(calls[c], rows, lastId)
  BY DEF Inv
<1>1. CASE Inserts(c)
  <2>1. calls[c].row \in Record /\ ~calls[c].row.locked
    BY <1>0, <1>1 DEF Inserts, CallInv
  <2>2. Records!Store(calls[c].row)
    BY <1>0, <1>1, <2>1, InsertIsAbsent DEF Inserts, Records!Store, Ids
  <2> QED
    BY <2>1, <2>2 DEF Records!Next, Record
<1>2. CASE Edits(c) \/ Deletes(c) \/ Locks(c)
  <2>1. calls[c].id \in Ids
    BY <1>0, <1>2 DEF Edits, Deletes, Locks, CallInv, TypeOK, Ids, Records!Ids
  <2>2. CASE Edits(c)
    <3>1. calls[c].text \in Texts
      BY <1>0, <2>2 DEF Edits, CallInv
    <3>2. ASSUME NEW j \in Ids, j # calls[c].id, rows[j] # NoRow
          PROVE  ~(Records!SameBucket(rows[calls[c].id], rows[j]) /\ rows[j].text = calls[c].text)
      BY <2>2, <3>2 DEF Edits, SameBucketHolder, Live, Records!SameBucket
    <3>3. Records!Edit(calls[c].id, calls[c].text)
      BY <2>2, <3>2 DEF Edits, Records!Edit, Ids
    <3> QED
      BY <2>1, <3>1, <3>3 DEF Records!Next, Ids
  <2>3. CASE Deletes(c)
    BY <2>1, <2>3 DEF Deletes, Records!Delete, Records!Next, Ids
  <2>4. CASE Locks(c)
    <3>1. Records!SetLock(calls[c].id, calls[c].op = "lock")
      BY <2>4 DEF Locks, Records!SetLock
    <3>2. (calls[c].op = "lock") \in BOOLEAN
      OBVIOUS
    <3> QED
      BY <2>1, <3>1, <3>2 DEF Records!Next, Ids
  <2> QED
    BY <1>2, <2>2, <2>3, <2>4
<1>3. CASE Wipes(c)
  <2>1. calls[c].by \in Agents
    BY <1>0, <1>3 DEF Wipes, CallInv
  <2>2. Records!Wipe(calls[c].by)
    BY <1>3 DEF Wipes, Records!Wipe, Ids
  <2> QED
    BY <2>1, <2>2 DEF Records!Next
<1> QED
  BY <1>1, <1>2, <1>3 DEF Changes

\* Every step of the store is a step of RecordStore or leaves its variables alone.
LEMMA StepRefines ==
    ASSUME Inv, [Next]_vars
    PROVE  [Records!Next]_Records!vars
<1>1. TypeOK
  BY DEF Inv
<1>2. CASE Keeps
  BY <1>2 DEF Keeps, Records!Next, Records!Burn, Records!vars
<1> QED
  BY <1>1, <1>2, TableStep, ChangeIsRecordStep

----------------------------------------------------------------------------
(* The invariant                                                           *)

\* What every step leaves of the table: its type, its fresh ids, and the owner of each
\* id ever handed out.
OwnersKept ==
    /\ rows' \in [Ids -> Record \cup {NoRow}] /\ lastId' \in 0..MaxRows /\ lastId' >= lastId
    /\ FreshIds'
    /\ \A i \in 1..lastId : rows'[i] # NoRow => rows[i] # NoRow /\ rows'[i].agent = rows[i].agent

\* A change of the table keeps types and owners.
LEMMA ChangeKeepsOwners ==
    ASSUME Inv, NEW c \in Callers, Changes(c)
    PROVE  OwnersKept
<1>0. /\ rows \in [Ids -> Record \cup {NoRow}] /\ lastId \in 0..MaxRows
      /\ FreshIds /\ CallInv(calls[c], rows, lastId)
  BY DEF Inv, TypeOK
<1>1. CASE Inserts(c)
  <2>1. calls[c].row \in Record /\ lastId + 1 \in Ids
    BY <1>0, <1>1 DEF Inserts, CallInv, Ids, Records!Ids
  <2> QED
    BY <1>0, <1>1, <2>1 DEF Inserts, OwnersKept, FreshIds, Ids, Records!Ids
<1>2. CASE Edits(c) \/ Deletes(c) \/ Locks(c)
  <2>1. calls[c].id \in Ids
    BY <1>0, <1>2 DEF Edits, Deletes, Locks, CallInv, Ids, Records!Ids
  <2>2. CASE Edits(c)
    <3>1. calls[c].text \in Texts /\ rows[calls[c].id] \in Record
      BY <1>0, <2>1, <2>2 DEF Edits, CallInv
    <3>2. /\ [rows[calls[c].id] EXCEPT !.text = calls[c].text] \in Record
          /\ [rows[calls[c].id] EXCEPT !.text = calls[c].text].agent = rows[calls[c].id].agent
      BY <3>1 DEF Record, Records!Record
    <3>3. rows' = [rows EXCEPT ![calls[c].id] = [rows[calls[c].id] EXCEPT !.text = calls[c].text]]
      BY <2>2 DEF Edits
    <3> QED
      BY <1>0, <2>1, <2>2, <3>2, <3>3 DEF Edits, OwnersKept, FreshIds, Ids, Records!Ids
  <2>3. CASE Deletes(c)
    BY <1>0, <2>1, <2>3 DEF Deletes, OwnersKept, FreshIds, Ids, Records!Ids
  <2>4. CASE Locks(c)
    <3> DEFINE on == calls[c].op = "lock"
    <3>1. rows[calls[c].id] \in Record /\ on \in BOOLEAN
      BY <1>0, <2>1, <2>4 DEF Locks
    <3>2. /\ [rows[calls[c].id] EXCEPT !.locked = on] \in Record
          /\ [rows[calls[c].id] EXCEPT !.locked = on].agent = rows[calls[c].id].agent
      BY <3>1 DEF Record, Records!Record
    <3>3. rows' = [rows EXCEPT ![calls[c].id] = [rows[calls[c].id] EXCEPT !.locked = on]]
      BY <2>4 DEF Locks
    <3>4. UNCHANGED lastId /\ rows[calls[c].id] # NoRow
      BY <2>4 DEF Locks
    <3> HIDE DEF on
    <3> QED
      BY <1>0, <2>1, <3>2, <3>3, <3>4 DEF OwnersKept, FreshIds, Ids, Records!Ids
  <2> QED
    BY <1>2, <2>2, <2>3, <2>4
<1>3. CASE Wipes(c)
  BY <1>0, <1>3 DEF Wipes, OwnersKept, FreshIds, Ids, Records!Ids
<1> QED
  BY <1>1, <1>2, <1>3 DEF Changes

\* Every step of the system keeps them.
LEMMA StepKeepsOwners ==
    ASSUME Inv, [Next]_vars
    PROVE  OwnersKept
<1>1. TypeOK /\ FreshIds
  BY DEF Inv
<1>2. CASE Keeps
  BY <1>1, <1>2 DEF Keeps, OwnersKept, FreshIds, TypeOK, Ids, Records!Ids
<1> QED
  BY <1>1, <1>2, TableStep, ChangeKeepsOwners

\* A call the step does not touch stays in order.
LEMMA OtherCallKept ==
    ASSUME Inv, OwnersKept, NEW d \in Callers, calls'[d] = calls[d]
    PROVE  CallInv(calls'[d], rows', lastId')
<1>1. CallInv(calls[d], rows, lastId) /\ lastId \in 0..MaxRows /\ calls[d] \in Call
  BY DEF Inv, TypeOK
<1>2. calls[d].id \in 1..lastId => calls[d].id \in 1..lastId'
  BY <1>1 DEF OwnersKept, Call
<1>3. calls[d].id \in 1..lastId /\ (rows[calls[d].id] # NoRow => rows[calls[d].id].agent = calls[d].owner)
         => (rows'[calls[d].id] # NoRow => rows'[calls[d].id].agent = calls[d].owner)
  BY DEF OwnersKept
<1>4. calls[d].pc \in {"holder", "write"} /\ calls[d].op # "wipe" => calls[d].id \in 1..lastId
  BY <1>1 DEF CallInv, Call, Ops
<1> QED
  BY <1>1, <1>2, <1>3, <1>4 DEF CallInv

\* The calls after a step of c.
CallsKept(c) ==
    /\ calls' \in [Callers -> Call] /\ CallInv(calls'[c], rows', lastId')
    /\ \A d \in Callers \ {c} : calls'[d] = calls[d]

\* A call that has answered has nothing left to establish.
LEMMA ReplyKeepsCalls ==
    ASSUME Inv, NEW c \in Callers, NEW answer \in Answer, Reply(c, answer)
    PROVE  CallsKept(c)
<1>1. calls \in [Callers -> Call]
  BY DEF Inv, TypeOK
<1>2. Resting(answer) \in Call /\ Resting(answer).pc = "idle"
  BY DEF Resting, Call, Places, Ops
<1>3. calls' \in [Callers -> Call] /\ calls'[c] = Resting(answer)
  BY <1>1, <1>2 DEF Reply
<1> QED
  BY <1>1, <1>2, <1>3 DEF Reply, CallsKept, CallInv

\* A call just made has given its arguments.
LEMMA AskKeepsCalls ==
    ASSUME Inv, NEW c \in Callers, Ask(c)
    PROVE  CallsKept(c) /\ made' \in 0..MaxCalls
<1>0. calls \in [Callers -> Call] /\ made \in 0..MaxCalls /\ lastId \in 0..MaxRows
  BY DEF Inv, TypeOK
<1>1. ASSUME NEW call \in Call, Begin(c, call)
      PROVE  /\ calls' \in [Callers -> Call] /\ made' \in 0..MaxCalls
             /\ calls'[c] = call /\ \A d \in Callers \ {c} : calls'[d] = calls[d]
             /\ UNCHANGED <<rows, lastId>>
  BY <1>0, <1>1 DEF Begin
<1> USE DEF Resting, CallInv, Call, Places, Ops, Answer
<1>2. ASSUME NEW r \in Record, BeginStore(c, r)
      PROVE  \E call \in Call : Begin(c, call) /\ CallInv(call, rows, lastId)
  <2> DEFINE call == [pc |-> "probe", op |-> "store", by |-> r.agent, id |-> 0, row |-> r,
                text |-> r.text, owner |-> r.agent, answer |-> "none"]
  <2>1. call \in Call /\ CallInv(call, rows, lastId)
    BY <1>2 DEF BeginStore, Record, Records!Record
  <2> QED
    BY <1>2, <2>1 DEF BeginStore
<1>3. ASSUME NEW a \in Agents, BeginWipe(c, a)
      PROVE  \E call \in Call : Begin(c, call) /\ CallInv(call, rows, lastId)
  <2> DEFINE call == [pc |-> "write", op |-> "wipe", by |-> a, id |-> 0, row |-> NoRow,
                text |-> NoText, owner |-> a, answer |-> "none"]
  <2>1. call \in Call /\ CallInv(call, rows, lastId)
    OBVIOUS
  <2> QED
    BY <1>3, <2>1 DEF BeginWipe
<1>4. ASSUME NEW by \in Agents \cup {Unscoped}, NEW i \in 1..lastId, NEW t \in Texts,
             BeginUpdate(c, by, i, t)
      PROVE  \E call \in Call : Begin(c, call) /\ CallInv(call, rows, lastId)
  <2> DEFINE call == [pc |-> "check", op |-> "update", by |-> by, id |-> i, row |-> NoRow,
                text |-> t, owner |-> Unscoped, answer |-> "none"]
  <2>1. call \in Call /\ CallInv(call, rows, lastId)
    BY <1>0
  <2> QED
    BY <1>4, <2>1 DEF BeginUpdate
<1>5. ASSUME NEW by \in Agents \cup {Unscoped}, NEW i \in 1..lastId,
             NEW op \in {"delete", "lock", "unlock"}, BeginById(c, op, by, i)
      PROVE  \E call \in Call : Begin(c, call) /\ CallInv(call, rows, lastId)
  <2> DEFINE call == [pc |-> "check", op |-> op, by |-> by, id |-> i, row |-> NoRow,
                text |-> NoText, owner |-> Unscoped, answer |-> "none"]
  <2>1. call \in Call /\ CallInv(call, rows, lastId)
    BY <1>0
  <2> QED
    BY <1>5, <2>1 DEF BeginById
<1>6. PICK call \in Call : Begin(c, call) /\ CallInv(call, rows, lastId)
  BY <1>2, <1>3, <1>4, <1>5 DEF Ask
<1> QED
  BY <1>1, <1>6 DEF CallsKept

\* A call that moves on has established what its next place needs.
LEMMA StepKeepsCalls ==
    ASSUME Inv, OwnersKept, NEW c \in Callers, Step(c)
    PROVE  CallsKept(c)
<1>0. /\ calls \in [Callers -> Call] /\ calls[c] \in Call /\ CallInv(calls[c], rows, lastId)
      /\ rows \in [Ids -> Record \cup {NoRow}] /\ lastId \in 0..MaxRows
  BY DEF Inv, TypeOK
<1>1. ASSUME NEW new \in Call, calls' = [calls EXCEPT ![c] = new], CallInv(new, rows', lastId')
      PROVE  CallsKept(c)
  BY <1>0, <1>1 DEF CallsKept, CallInv
<1>2. ASSUME NEW answer \in Answer, Reply(c, answer)
      PROVE  CallsKept(c)
  BY <1>2, ReplyKeepsCalls
<1>3. CASE Probe(c)
  <2> DEFINE new == [calls[c] EXCEPT !.pc = "insert"]
  <2>1. CASE Goto(c, "insert")
    <3>1. new \in Call /\ CallInv(new, rows', lastId')
      BY <1>0, <1>3 DEF Probe, CallInv, Call, Places
    <3> QED
      BY <1>1, <2>1, <3>1 DEF Goto
  <2>2. StoreDedupAnswer(calls[c].row, FALSE) \in {"write"} \cup Answer
    BY DEF StoreDedupAnswer, Answer
  <2> QED
    BY <1>2, <1>3, <2>1, <2>2 DEF Probe
<1>4. ASSUME NEW blob \in Texts \cup {NoText}, Insert(c, blob)
      PROVE  CallsKept(c)
  <2> DEFINE new == [calls[c] EXCEPT !.pc = "push", !.id = lastId + 1, !.answer = "done"]
  <2>1. CASE calls' = [calls EXCEPT ![c] = new] /\ lastId < MaxRows
    <3>1. lastId + 1 \in 0..MaxRows /\ lastId + 1 \in Ids
      BY <1>0, <2>1 DEF Ids, Records!Ids
    <3>2. /\ calls[c].op = "store" /\ calls[c].row \in Record
          /\ calls[c].owner = calls[c].row.agent /\ calls[c].text = calls[c].row.text
      BY <1>0, <1>4 DEF Insert, CallInv
    <3>3. calls[c].owner \in Agents /\ calls[c].text \in Texts
      BY <3>2 DEF Record, Records!Record
    <3>4. new \in Call
      BY <1>0, <3>1 DEF Call, Places, Answer
    <3>5. /\ new.pc = "push" /\ new.op = "store" /\ new.id = lastId + 1
          /\ new.owner = calls[c].owner /\ new.text = calls[c].text
      BY <1>0, <3>2 DEF Call
    <3>6. CallInv(new, rows', lastId')
      BY <3>1, <3>3, <3>5 DEF CallInv
    <3> QED
      BY <1>1, <2>1, <3>4, <3>6
  <2>2. BeyondAnswer(calls[c].row) \in {"write"} \cup Answer /\ "skipped" \in Answer
    BY DEF BeyondAnswer, StoreDedupAnswer, Answer
  <2> QED
    BY <1>2, <1>4, <2>1, <2>2 DEF Insert, NextId
<1>5. CASE Check(c)
  <2> DEFINE row == rows[calls[c].id]
             new == [calls[c] EXCEPT !.owner = row.agent,
                       !.pc = IF calls[c].op = "update" THEN "holder" ELSE "write"]
  <2>1. CASE /\ calls' = [calls EXCEPT ![c] = new] /\ row # NoRow
             /\ calls[c].by \in {Unscoped, row.agent}
    <3>1. calls[c].id \in 1..lastId /\ calls[c].id \in Ids
      BY <1>0, <1>5 DEF Check, CallInv, Ids, Records!Ids
    <3>2. row \in Record /\ row.agent \in Agents
      BY <1>0, <2>1, <3>1 DEF Record, Records!Record
    <3>3. rows' = rows /\ lastId' = lastId
      BY <1>5 DEF Check
    <3>4. new \in Call
      BY <1>0, <3>2 DEF Call, Places
    <3>5. CallInv(new, rows', lastId')
      BY <1>0, <1>5, <2>1, <3>1, <3>2, <3>3 DEF Check, CallInv, Call
    <3> QED
      BY <1>1, <2>1, <3>4, <3>5
  <2>2. "refused" \in Answer
    BY DEF Answer
  <2> QED
    BY <1>2, <1>5, <2>1, <2>2 DEF Check
<1>6. CASE Holder(c)
  <2> DEFINE new == [calls[c] EXCEPT !.pc = "write"]
  <2>1. CASE Goto(c, "write")
    <3>1. new \in Call /\ CallInv(new, rows', lastId')
      BY <1>0, <1>6 DEF Holder, CallInv, Call, Places
    <3> QED
      BY <1>1, <2>1, <3>1 DEF Goto
  <2> QED
    BY <1>2, <1>6, <2>1 DEF Holder, Answer
<1>7. ASSUME Commit(c, "push", "done"), calls[c].pc = "write", calls[c].op \in {"update", "delete", "wipe"},
             lastId' = lastId
      PROVE  CallsKept(c)
  <2> DEFINE new == [calls[c] EXCEPT !.pc = "push", !.answer = "done"]
  <2>1. new \in Call
    BY <1>0 DEF Call, Places, Answer
  <2>2. /\ new.pc = "push" /\ new.op = calls[c].op /\ new.id = calls[c].id
        /\ new.by = calls[c].by /\ new.owner = calls[c].owner /\ new.text = calls[c].text
    BY <1>0 DEF Call
  <2>3. calls[c].op # "wipe" => calls[c].id \in 1..lastId /\ calls[c].id \in Ids
    BY <1>0, <1>7 DEF CallInv, Ids, Records!Ids
  <2>4. CallInv(new, rows', lastId')
    BY <1>0, <1>7, <2>2, <2>3 DEF CallInv
  <2> QED
    BY <1>1, <1>7, <2>1, <2>4 DEF Commit
<1>8. ASSUME NEW blob \in Texts \cup {NoText}, WriteUpdate(c, blob)
      PROVE  CallsKept(c)
  BY <1>2, <1>7, <1>8 DEF WriteUpdate, Answer
<1>9. CASE WriteDelete(c) \/ WriteWipe(c)
  BY <1>2, <1>7, <1>9 DEF WriteDelete, WriteWipe, Answer
<1>10. CASE WriteLock(c) \/ Push(c)
  BY <1>2, <1>10 DEF WriteLock, Push, Answer
<1> QED
  BY <1>3, <1>4, <1>5, <1>6, <1>8, <1>9, <1>10 DEF Step

\* The columns and stores beside the table keep their types.
LEMMA StepKeepsTypes ==
    ASSUME Inv, OwnersKept, [Next]_vars
    PROVE  /\ blobs' \in [Ids -> Texts \cup {NoText}] /\ repair' \in [Ids -> Texts \cup {NoText}]
           /\ remote' \subseteq Entry
<1>0. /\ blobs \in [Ids -> Texts \cup {NoText}] /\ repair \in [Ids -> Texts \cup {NoText}]
      /\ remote \subseteq Entry /\ rows \in [Ids -> Record \cup {NoRow}]
      /\ \A c \in Callers : calls[c] \in Call /\ CallInv(calls[c], rows, lastId)
  BY DEF Inv, TypeOK
<1>1. CASE UNCHANGED vars
  BY <1>0, <1>1 DEF vars
<1>2. ASSUME NEW c \in Callers, Ask(c)
      PROVE  UNCHANGED <<blobs, repair, remote>>
  BY <1>2 DEF Ask, BeginStore, BeginUpdate, BeginById, BeginWipe, Begin
<1>3. ASSUME NEW c \in Callers, Push(c)
      PROVE  UNCHANGED <<blobs, repair>> /\ remote' \subseteq Entry
  <2>1. calls[c].op \in {"store", "update"} =>
           [ns |-> calls[c].owner, id |-> calls[c].id, text |-> calls[c].text] \in Entry
    BY <1>0, <1>3 DEF Push, CallInv, Entry
  <2>2. RemoteAfter(calls[c]) \subseteq Entry
    BY <1>0, <2>1 DEF RemoteAfter
  <2> QED
    BY <1>0, <1>3, <2>2 DEF Push
<1>4. ASSUME NEW c \in Callers, NEW blob \in Texts \cup {NoText}, Insert(c, blob) \/ WriteUpdate(c, blob)
      PROVE  UNCHANGED <<remote, repair>> /\ blobs' \in [Ids -> Texts \cup {NoText}]
  BY <1>0, <1>4 DEF Insert, WriteUpdate
<1>5. ASSUME NEW c \in Callers, \/ Probe(c) \/ Check(c) \/ Holder(c)
                               \/ WriteDelete(c) \/ WriteLock(c) \/ WriteWipe(c)
      PROVE  UNCHANGED <<remote, repair>> /\ blobs' \in [Ids -> Texts \cup {NoText}]
  BY <1>0, <1>5 DEF Probe, Check, Holder, WriteDelete, WriteLock, WriteWipe
<1>6. ASSUME NEW ids \in SUBSET Ids, Prefetch(ids)
      PROVE  UNCHANGED <<remote, blobs>> /\ repair' \in [Ids -> Texts \cup {NoText}]
  <2>1. \A i \in ids : rows[i] \in Record
    BY <1>0, <1>6 DEF Prefetch, Live
  <2> QED
    BY <1>6, <2>1 DEF Prefetch, Record, Records!Record
<1>7. CASE ApplyEmbeddings
  BY <1>0, <1>7 DEF ApplyEmbeddings
<1> QED
  BY <1>0, <1>1, <1>2, <1>3, <1>4, <1>5, <1>6, <1>7 DEF Next, Step

\* The invariant holds at the start.
LEMMA InvInit == Init => Inv
<1> SUFFICES ASSUME Init PROVE Inv
  OBVIOUS
<1>1. Resting("none") \in Call /\ Resting("none").pc = "idle"
  BY DEF Resting, Call, Places, Ops, Answer
<1>2. \A c \in Callers : calls[c] = Resting("none")
  BY DEF Init
<1>3. \A c \in Callers : CallInv(calls[c], rows, lastId)
  BY <1>1, <1>2 DEF CallInv
<1>4. TypeOK /\ FreshIds
  BY <1>1 DEF Init, TypeOK, FreshIds
<1> QED
  BY <1>3, <1>4 DEF Inv

\* The invariant is kept by every step.
LEMMA InvStep == Inv /\ [Next]_vars => Inv'
<1> SUFFICES ASSUME Inv, [Next]_vars PROVE Inv'
  OBVIOUS
<1>1. OwnersKept
  BY StepKeepsOwners
<1>2. ASSUME NEW c \in Callers, CallsKept(c), made' \in 0..MaxCalls
      PROVE  Inv'
  <2>1. \A d \in Callers : CallInv(calls'[d], rows', lastId')
    BY <1>1, <1>2, OtherCallKept DEF CallsKept
  <2> QED
    BY <1>1, <1>2, <2>1, StepKeepsTypes DEF Inv, TypeOK, CallsKept, OwnersKept
<1>3. ASSUME UNCHANGED <<calls, made>>
      PROVE  Inv'
  <2>1. \A d \in Callers : CallInv(calls'[d], rows', lastId')
    BY <1>1, <1>3, OtherCallKept
  <2>2. calls' \in [Callers -> Call] /\ made' \in 0..MaxCalls
    BY <1>3 DEF Inv, TypeOK
  <2> QED
    BY <1>1, <2>1, <2>2, StepKeepsTypes DEF Inv, TypeOK, OwnersKept
<1>4. ASSUME NEW c \in Callers, Step(c)
      PROVE  Inv'
  <2>1. made' = made
    BY <1>4 DEF Step, Probe, Check, Holder, Insert, WriteUpdate, WriteDelete, WriteLock, WriteWipe, Push
  <2>2. made' \in 0..MaxCalls
    BY <2>1 DEF Inv, TypeOK
  <2> QED
    BY <1>1, <1>2, <1>4, <2>2, StepKeepsCalls
<1>5. ASSUME NEW c \in Callers, Ask(c)
      PROVE  Inv'
  BY <1>2, <1>5, AskKeepsCalls
<1>6. CASE UNCHANGED vars
  BY <1>3, <1>6 DEF vars
<1>7. CASE (\E ids \in SUBSET Ids : Prefetch(ids)) \/ ApplyEmbeddings
  BY <1>3, <1>7 DEF Prefetch, ApplyEmbeddings
<1> QED
  BY <1>4, <1>5, <1>6, <1>7 DEF Next

----------------------------------------------------------------------------
(* Theorems                                                                *)

\* Types, fresh ids and what each call has established, in every reachable state.
THEOREM StoreInvariant == Spec => []Inv
<1>1. Init => Inv
  BY InvInit
<1>2. Inv /\ [Next]_vars => Inv'
  BY InvStep
<1> QED
  BY <1>1, <1>2, PTL DEF Spec

\* The state keeps its types.
THEOREM StoreTypeCorrect == Spec => []TypeOK
<1>1. Inv => TypeOK
  BY DEF Inv
<1> QED
  BY <1>1, StoreInvariant, PTL

\* The handlers of the write path, with their probes, awaits and guarded statements,
\* write as if each were one instant.
THEOREM StoreRefinesRecords == Spec => WritesAreAtomic
<1>1. Init => Records!Init
  BY DEF Init, Records!Init, Ids, Record
<1>2. Inv /\ [Next]_vars => [Records!Next]_Records!vars
  BY StepRefines
<1> QED
  BY <1>1, <1>2, StoreInvariant, PTL DEF Spec, WritesAreAtomic, Records!Spec

\* VectorOfText in the presence of the invariant is kept by every step.
LEMMA VectorStep == Inv /\ VectorOfText /\ [Next]_vars => VectorOfText'
<1> SUFFICES ASSUME Inv, VectorOfText, [Next]_vars PROVE VectorOfText'
  OBVIOUS
<1>0. /\ rows \in [Ids -> Record \cup {NoRow}] /\ blobs \in [Ids -> Texts \cup {NoText}]
      /\ \A c \in Callers : calls[c] \in Call /\ CallInv(calls[c], rows, lastId)
  BY DEF Inv, TypeOK
<1>1. CASE UNCHANGED <<rows, blobs>>
  BY <1>1 DEF VectorOfText
<1>2. ASSUME NEW c \in Callers, NEW blob \in Texts \cup {NoText}, Insert(c, blob)
      PROVE  VectorOfText'
  <2>1. CASE /\ rows' = [rows EXCEPT ![NextId] = calls[c].row]
             /\ blobs' = [blobs EXCEPT ![NextId] = blob]
    <3>1. calls[c].row \in Record /\ blob \in {calls[c].row.text, NoText}
      BY <1>0, <1>2 DEF Insert, CallInv
    <3> QED
      BY <1>0, <2>1, <3>1 DEF VectorOfText
  <2> QED
    BY <1>1, <1>2, <2>1 DEF Insert
<1>3. ASSUME NEW c \in Callers, NEW blob \in Texts \cup {NoText}, WriteUpdate(c, blob)
      PROVE  VectorOfText'
  <2> DEFINE i == calls[c].id
             new == [rows[i] EXCEPT !.text = calls[c].text]
  <2>1. CASE /\ rows' = [rows EXCEPT ![i] = new] /\ blobs' = [blobs EXCEPT ![i] = blob]
             /\ rows[i] # NoRow
    <3>1. i \in Ids /\ calls[c].text \in Texts
      BY <1>0, <1>3 DEF WriteUpdate, CallInv, Inv, TypeOK, Ids, Records!Ids
    <3>2. rows[i] \in Record
      BY <1>0, <2>1, <3>1
    <3>3. new \in Record /\ new.text = calls[c].text
      BY <3>1, <3>2 DEF Record, Records!Record
    <3>4. blob \in {calls[c].text, NoText}
      BY <1>3 DEF WriteUpdate
    <3> HIDE DEF i, new
    <3> QED
      BY <1>0, <2>1, <3>1, <3>3, <3>4 DEF VectorOfText
  <2> QED
    BY <1>1, <1>3, <2>1 DEF WriteUpdate
<1>4. ASSUME NEW c \in Callers, WriteDelete(c) \/ WriteWipe(c)
      PROVE  VectorOfText'
  BY <1>0, <1>4 DEF WriteDelete, WriteWipe, VectorOfText
<1>5. ASSUME NEW c \in Callers, WriteLock(c)
      PROVE  VectorOfText'
  <2> DEFINE i == calls[c].id
             on == calls[c].op = "lock"
             new == [rows[i] EXCEPT !.locked = on]
  <2>1. CASE rows' = [rows EXCEPT ![i] = new] /\ UNCHANGED blobs /\ rows[i] # NoRow
    <3>1. i \in Ids /\ on \in BOOLEAN
      BY <1>0, <1>5 DEF WriteLock, CallInv, Inv, TypeOK, Ids, Records!Ids
    <3>2. rows[i] \in Record
      BY <1>0, <2>1, <3>1
    <3>3. new \in Record /\ new.text = rows[i].text
      BY <3>1, <3>2 DEF Record, Records!Record
    <3> HIDE DEF i, on, new
    <3> QED
      BY <1>0, <2>1, <3>1, <3>3 DEF VectorOfText
  <2> QED
    BY <1>1, <1>5, <2>1 DEF WriteLock
<1>6. CASE ApplyEmbeddings
  BY <1>0, <1>6 DEF ApplyEmbeddings, Attachable, VectorOfText
<1>7. ASSUME NEW c \in Callers, Ask(c) \/ Probe(c) \/ Check(c) \/ Holder(c) \/ Push(c)
      PROVE  UNCHANGED <<rows, blobs>>
  BY <1>7 DEF Ask, BeginStore, BeginUpdate, BeginById, BeginWipe, Begin, Probe, Check, Holder, Push
<1>8. ASSUME (\E ids \in SUBSET Ids : Prefetch(ids)) \/ UNCHANGED vars
      PROVE  UNCHANGED <<rows, blobs>>
  BY <1>8 DEF Prefetch, vars
<1> QED
  BY <1>1, <1>2, <1>3, <1>4, <1>5, <1>6, <1>7, <1>8 DEF Next, Step

\* A row's vector is that of its present text or none.
THEOREM VectorsBelong == Spec => []VectorOfText
<1>1. Init => VectorOfText
  BY DEF Init, VectorOfText
<1> QED
  BY <1>1, VectorStep, StoreInvariant, PTL DEF Spec

\* A call moves by its own steps only.
LEMMA OwnStep ==
    ASSUME Inv, [Next]_vars, NEW d \in Callers, calls'[d] # calls[d]
    PROVE  Ask(d) \/ Step(d)
<1>1. ~UNCHANGED vars
  BY DEF vars
<1>2. ~ApplyEmbeddings /\ ~\E ids \in SUBSET Ids : Prefetch(ids)
  BY DEF Prefetch, ApplyEmbeddings
<1>3. PICK e \in Callers : Ask(e) \/ Step(e)
  BY <1>1, <1>2 DEF Next
<1>4. CallsKept(e)
  BY <1>3, AskKeepsCalls, StepKeepsCalls, StepKeepsOwners
<1>5. e = d
  BY <1>4 DEF CallsKept
<1> QED
  BY <1>3, <1>5

\* So the table changes by the step of the call that moves.
LEMMA OneCallerMoves ==
    ASSUME Inv, [Next]_vars, rows' # rows, NEW d \in Callers, calls'[d] # calls[d]
    PROVE  Changes(d)
<1>1. ~Ask(d)
  BY DEF Ask, BeginStore, BeginUpdate, BeginById, BeginWipe, Begin
<1> QED
  BY <1>1, OwnStep, StepOfCaller DEF Keeps, Inv

\* An agent-scoped call by id changes rows of that agent only.
THEOREM ScopedWritesStayOwn == Spec => OwnRowsOnly
<1> DEFINE Own == \A c \in Callers : calls'[c] # calls[c] =>
                     \A i \in Ids : rows[i] # NoRow /\ rows'[i] # rows[i] =>
                        calls[c].by \in {Unscoped, rows[i].agent}
<1>1. ASSUME Inv, [Next]_vars
      PROVE  [Own]_vars
  <2> SUFFICES ASSUME NEW d \in Callers, calls'[d] # calls[d],
                      NEW i \in Ids, rows[i] # NoRow, rows'[i] # rows[i]
               PROVE  calls[d].by \in {Unscoped, rows[i].agent}
    OBVIOUS
  <2>0. /\ TypeOK /\ FreshIds /\ CallInv(calls[d], rows, lastId)
        /\ rows \in [Ids -> Record \cup {NoRow}] /\ lastId \in 0..MaxRows
    BY <1>1 DEF Inv, TypeOK
  <2>2. Changes(d)
    BY <1>1, OneCallerMoves
  <2>3. CASE Inserts(d)
    <3>1. i # lastId + 1
      BY <2>0 DEF FreshIds
    <3> QED
      BY <2>0, <2>3, <3>1 DEF Inserts
  <2>4. CASE Edits(d) \/ Deletes(d) \/ Locks(d)
    <3>1. i = calls[d].id
      BY <2>0, <2>4 DEF Edits, Deletes, Locks
    <3> QED
      BY <2>0, <2>4, <3>1 DEF Edits, Deletes, Locks, CallInv
  <2>5. CASE Wipes(d)
    BY <2>0, <2>5 DEF Wipes
  <2> QED
    BY <2>2, <2>3, <2>4, <2>5 DEF Changes
<1> QED
  BY <1>1, StoreInvariant, PTL DEF Spec, OwnRowsOnly

\* A lock that is set keeps its row's content from every edit and delete in flight.
THEOREM LocksHold == Spec => LockHolds
<1> DEFINE Held == \A i \in Ids : rows[i] # NoRow /\ rows[i].locked =>
                      \/ rows'[i] # NoRow /\ rows'[i].text = rows[i].text
                      \/ \E c \in Callers : calls[c].op = "wipe" /\ calls'[c] # calls[c]
<1>1. ASSUME Inv, [Next]_vars
      PROVE  [Held]_vars
  <2> SUFFICES ASSUME NEW i \in Ids, rows[i] # NoRow, rows[i].locked
               PROVE  \/ rows'[i] # NoRow /\ rows'[i].text = rows[i].text
                      \/ \E c \in Callers : calls[c].op = "wipe" /\ calls'[c] # calls[c]
    OBVIOUS
  <2>0. /\ TypeOK /\ FreshIds /\ rows \in [Ids -> Record \cup {NoRow}] /\ lastId \in 0..MaxRows
        /\ calls \in [Callers -> Call] /\ rows[i] \in Record
    BY <1>1 DEF Inv, TypeOK
  <2>1. CASE rows' = rows
    BY <2>1
  <2>2. ASSUME NEW c \in Callers, Changes(c), ~Wipes(c)
        PROVE  rows'[i] # NoRow /\ rows'[i].text = rows[i].text
    <3>1. CASE Inserts(c)
      <4>1. i # lastId + 1
        BY <2>0 DEF FreshIds
      <4> QED
        BY <2>0, <3>1, <4>1 DEF Inserts
    <3>2. CASE Edits(c) \/ Deletes(c)
      <4>1. i # calls[c].id
        BY <3>2 DEF Edits, Deletes
      <4> QED
        BY <2>0, <3>2, <4>1 DEF Edits, Deletes
    <3>3. CASE Locks(c)
      <4> DEFINE on == calls[c].op = "lock"
                 new == [rows[i] EXCEPT !.locked = on]
      <4>1. on \in BOOLEAN
        OBVIOUS
      <4>2. new \in Record /\ new.text = rows[i].text
        BY <2>0, <4>1 DEF Record, Records!Record
      <4>3. rows'[i] = rows[i] \/ rows'[i] = new
        BY <2>0, <3>3 DEF Locks
      <4> HIDE DEF new
      <4> QED
        BY <4>2, <4>3
    <3> QED
      BY <2>2, <3>1, <3>2, <3>3 DEF Changes
  <2>3. ASSUME rows' # rows
        PROVE  \E e \in Callers : Changes(e) /\ Step(e)
    <3>1. PICK e \in Callers : Step(e)
      BY <1>1, <2>3 DEF Next, vars, Ask, BeginStore, BeginUpdate, BeginById, BeginWipe, Begin,
                        Prefetch, ApplyEmbeddings
    <3> QED
      BY <2>0, <2>3, <3>1, StepOfCaller DEF Keeps
  <2>4. ASSUME NEW e \in Callers, Step(e), Wipes(e)
        PROVE  calls[e].op = "wipe" /\ calls'[e] # calls[e]
    <3>1. calls[e].pc = "write" /\ calls[e].op = "wipe"
      BY <2>4 DEF Wipes
    <3>2. calls'[e].pc = "push"
      BY <2>0, <2>4, <3>1 DEF Step, Probe, Check, Holder, Insert, WriteUpdate, WriteDelete,
                              WriteLock, WriteWipe, Push, Commit, Call
    <3> QED
      BY <3>1, <3>2
  <2> QED
    BY <2>1, <2>2, <2>3, <2>4
<1> QED
  BY <1>1, StoreInvariant, PTL DEF Spec, LockHolds

\* A write by id that reports success changed a row that was there.
THEOREM SuccessesAreReal == Spec => SuccessIsReal
<1> DEFINE Real == \A c \in Callers :
                      calls[c].pc = "write" /\ calls'[c].answer = "done" => Took(c)
<1>1. ASSUME Inv, [Next]_vars
      PROVE  [Real]_vars
  <2> SUFFICES ASSUME NEW c \in Callers, calls[c].pc = "write", calls'[c].answer = "done"
               PROVE  Took(c)
    OBVIOUS
  <2>0. /\ calls \in [Callers -> Call] /\ rows \in [Ids -> Record \cup {NoRow}]
        /\ CallInv(calls[c], rows, lastId) /\ lastId \in 0..MaxRows
    BY <1>1 DEF Inv, TypeOK
  <2>1. calls'[c] # calls[c]
    BY <2>0 DEF CallInv
  <2>2. ~Ask(c)
    BY DEF Ask, BeginStore, BeginUpdate, BeginById, BeginWipe, Begin
  <2>3. Step(c)
    BY <1>1, <2>1, <2>2, OwnStep
  <2>4. calls[c].op # "wipe" => calls[c].id \in Ids
    BY <2>0 DEF CallInv, Call, Ops, Ids, Records!Ids
  <2>5. ~Reply(c, "refused")
    BY <2>0 DEF Reply, Resting
  <2>6. ASSUME NEW blob \in Texts \cup {NoText}, WriteUpdate(c, blob)
        PROVE  Took(c)
    <3> DEFINE i == calls[c].id
               new == [rows[i] EXCEPT !.text = calls[c].text]
    <3>1. rows' = [rows EXCEPT ![i] = new] /\ rows[i] # NoRow /\ calls[c].op = "update"
      BY <2>5, <2>6 DEF WriteUpdate
    <3>2. rows[i] \in Record /\ calls[c].text \in Texts /\ i \in Ids
      BY <2>0, <2>4, <3>1 DEF CallInv
    <3>3. new \in Record /\ new.text = calls[c].text
      BY <3>2 DEF Record, Records!Record
    <3>4. rows'[i] = new
      BY <2>0, <3>1, <3>2
    <3>5. rows'[i] # NoRow /\ rows'[i].text = calls[c].text
      BY <3>3, <3>4
    <3> QED
      BY <3>1, <3>5 DEF Took
  <2>7. CASE WriteDelete(c)
    BY <2>0, <2>4, <2>5, <2>7 DEF WriteDelete, DeletableBy, Took
  <2>8. CASE WriteLock(c)
    <3> DEFINE i == calls[c].id
               on == calls[c].op = "lock"
               new == [rows[i] EXCEPT !.locked = on]
    <3>1. /\ rows' = [rows EXCEPT ![i] = new] /\ rows[i] # NoRow
          /\ calls[c].op \in {"lock", "unlock"}
      BY <2>5, <2>8 DEF WriteLock
    <3>2. rows[i] \in Record /\ on \in BOOLEAN /\ i \in Ids
      BY <2>0, <2>4, <3>1
    <3>3. new \in Record /\ new.locked = on
      BY <3>2 DEF Record, Records!Record
    <3>4. rows'[i] = new
      BY <2>0, <3>1, <3>2
    <3>5. rows'[i] # NoRow /\ rows'[i].locked = on
      BY <3>3, <3>4
    <3> QED
      BY <3>1, <3>5 DEF Took
  <2>9. CASE WriteWipe(c)
    BY <2>9 DEF WriteWipe, Took
  <2>10. ~Probe(c) /\ ~Check(c) /\ ~Holder(c) /\ ~Push(c)
         /\ \A blob \in Texts \cup {NoText} : ~Insert(c, blob)
    BY DEF Probe, Check, Holder, Push, Insert
  <2> QED
    BY <2>3, <2>6, <2>7, <2>8, <2>9, <2>10 DEF Step
<1> QED
  BY <1>1, StoreInvariant, PTL DEF Spec, SuccessIsReal
=============================================================================
