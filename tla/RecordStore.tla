---------------------------- MODULE RecordStore ----------------------------
(***************************************************************************)
(* What the memory store promises of the memories table: every write       *)
(* happens in one instant, against the table as it is in that instant.     *)
(* MemoryStore is the code's protocol of probes, awaits and guarded        *)
(* statements that implements this.                                        *)
(*                                                                         *)
(* A record lies in a bucket (agent, project, channel). A reader of a      *)
(* bucket also sees the global project and the global channel, so that is  *)
(* the scope a new record is compared with.                                *)
(***************************************************************************)
EXTENDS Naturals

CONSTANTS
    Agents,    \* agent ids
    Projects,  \* project ids, the global pool among them
    Channels,  \* channels, the global one among them
    Global,    \* '' on either axis
    MsgIds,    \* caller-given message ids, NoMsg among them
    NoMsg,     \* '', no message id given
    Texts,     \* contents, after sanitising
    Sources,   \* the principal ids a source can declare, none included
    NoRow,     \* the row does not exist
    MaxRows    \* bound: ids handed out by AUTOINCREMENT

VARIABLES
    rows,      \* the table: id -> record, NoRow where there is none
    lastId     \* sqlite_sequence: the highest id handed out

vars == <<rows, lastId>>

Ids    == 1..MaxRows
Record == [agent : Agents, project : Projects, channel : Channels, msg : MsgIds,
           text : Texts, source : Sources, locked : BOOLEAN]

SameBucket(r, s) == r.agent = s.agent /\ r.project = s.project /\ r.channel = s.channel

\* A reader of r's bucket sees s.
SeenFrom(r, s) ==
    r.agent = s.agent /\ s.project \in {r.project, Global} /\ s.channel \in {r.channel, Global}

\* s already tells r's caller what storing r would: the same message, or the same
\* text from the same principal, where r's readers look.
Answers(r, s) ==
    \/ r.msg # NoMsg /\ s.msg = r.msg /\ s.agent = r.agent /\ s.project \in {r.project, Global}
    \/ SeenFrom(r, s) /\ s.text = r.text /\ s.source = r.source

Init == rows \in [Ids -> Record \cup {NoRow}] /\ lastId \in 0..MaxRows

Store(r) ==
    /\ lastId < MaxRows /\ ~r.locked
    /\ lastId' = lastId + 1
    /\ rows' = [rows EXCEPT ![lastId + 1] = r]
    /\ \A i \in Ids : rows[i] # NoRow =>
          ~Answers(r, rows[i]) /\ ~(SameBucket(r, rows[i]) /\ rows[i].text = r.text)

\* An insert the unique indexes turn away still uses up its id.
Burn == lastId < MaxRows /\ lastId' = lastId + 1 /\ UNCHANGED rows

Edit(i, t) ==
    /\ rows[i] # NoRow /\ ~rows[i].locked
    /\ \A j \in Ids : j # i /\ rows[j] # NoRow => ~(SameBucket(rows[i], rows[j]) /\ rows[j].text = t)
    /\ rows' = [rows EXCEPT ![i].text = t]
    /\ UNCHANGED lastId

Delete(i) ==
    /\ rows[i] # NoRow /\ ~rows[i].locked
    /\ rows' = [rows EXCEPT ![i] = NoRow]
    /\ UNCHANGED lastId

SetLock(i, on) ==
    /\ rows[i] # NoRow
    /\ rows' = [rows EXCEPT ![i].locked = on]
    /\ UNCHANGED lastId

\* The purge of an agent takes locked records with it.
Wipe(a) ==
    /\ rows' = [i \in Ids |-> IF rows[i] # NoRow /\ rows[i].agent = a THEN NoRow ELSE rows[i]]
    /\ UNCHANGED lastId

Next ==
    \/ \E r \in Record : Store(r)
    \/ Burn
    \/ \E i \in Ids : Delete(i) \/ (\E t \in Texts : Edit(i, t)) \/ (\E on \in BOOLEAN : SetLock(i, on))
    \/ \E a \in Agents : Wipe(a)

Spec == Init /\ [][Next]_vars
=============================================================================
