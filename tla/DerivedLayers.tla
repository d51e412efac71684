---------------------------- MODULE DerivedLayers ----------------------------
(***************************************************************************)
(* Nodes and blocks, the sets derived from a record's text: their builds   *)
(* by the task queue (build_nodes, build_blocks), the sweep over the       *)
(* corpus (backfill), check_health's prefetch and repair of missing sets,  *)
(* the schema's triggers that drop or retag a set, and the embedding       *)
(* backend's identity that labels it (cpersona/generation.py). Segments    *)
(* has the divisions themselves.                                           *)
(*                                                                         *)
(* A set is the text it was cut from, the label it was stored under, and   *)
(* for blocks the node ends they keep to and the copy of the record's      *)
(* channel. All texts have one length, so that only the triggers and the   *)
(* re-read before a write tell a set of one from a set of another.         *)
(***************************************************************************)
EXTENDS Naturals, Sequences, FiniteSets

CONSTANTS
    DIds,        \* record ids, 1..n: memories, then episodes
    DTexts,      \* texts past the window and the block size
    DChans,      \* channels
    Models,      \* identities a backend may report
    Legacy,      \* the configured model name, the label where none is learned
    Nothing_,    \* no record, no set, no ends
    SweepCap,    \* BACKFILL_RECORD_CAP
    MaxDocEdits, MaxFaults   \* bounds: changes to the corpus; failures and crashes

ASSUME DerivedConstants ==
    /\ IsFiniteSet(DIds) /\ DIds = 1..Cardinality(DIds) /\ SweepCap \in Nat \ {0}
    /\ MaxDocEdits \in Nat /\ MaxFaults \in Nat /\ Legacy \notin Models /\ DTexts # {} /\ DChans # {}

VARIABLES
    docs,      \* id -> [text, chan] or Nothing_
    nodeSet,   \* id -> [of, label, by] or Nothing_
    blockSet,  \* id -> [of, label, ends, chan] or Nothing_
    served,   \* the model the embedding server runs
    known,     \* its learned fingerprint, or Legacy
    todo,      \* pending derived tasks, oldest first
    job,       \* the build the drain is in
    scan,      \* sets check_health prepared before its transaction
    owed,      \* history: records a completed sweep answers for
    used       \* edits and faults so far, and the last id

\* What the tables hold, and a set as it is prepared before the write. A set's ends are
\* the node ends its blocks keep to: those of a text under a model, or none.
Labels   == Models \cup {Legacy}
Ends     == (DTexts \X Models) \cup {Nothing_}
Doc      == [text : DTexts, chan : DChans]
NodeSet  == [of : DTexts, label : Labels, by : Models]
BlockSet == [of : DTexts, label : Labels, ends : Ends, chan : DChans]
Prep     == [type : {"nodes", "blocks"}, id : DIds, of : DTexts, ends : Ends, label : Labels, by : Models]

ASSUME NothingAssumption ==
    Nothing_ \notin Doc /\ Nothing_ \notin NodeSet /\ Nothing_ \notin BlockSet /\ Nothing_ \notin DTexts

derivedVars == <<docs, nodeSet, blockSet, served, known, todo, job, scan, owed, used>>

Docs == {i \in DIds : docs[i] # Nothing_}

\* generation.keys: the learned identity (or the legacy name), and the legacy name.
Keys    == {known, Legacy}
Label   == known

\* Where a node set's spans end: it depends on the text and on the model's window.
EndsOf(set) == IF set = Nothing_ THEN Nothing_ ELSE <<set.of, set.by>>

NodesCurrent(i) == nodeSet[i] # Nothing_ /\ nodeSet[i].label \in Keys
BlocksCurrentIn(sets, ends, keys, i) ==
    /\ sets[i] # Nothing_ /\ sets[i].label \in keys
    /\ ends[i] # Nothing_ => sets[i].ends = ends[i]
AllEnds == [i \in DIds |-> EndsOf(nodeSet[i])]

Edited == used.edits < MaxDocEdits /\ used' = [used EXCEPT !.edits = @ + 1]
Fault  == used.faults < MaxFaults /\ used' = [used EXCEPT !.faults = @ + 1]

Task(type, i) == [type |-> type, id |-> i]
BuildsFor(i)  == <<Task("nodes", i), Task("blocks", i)>>

----------------------------------------------------------------------------
(* The corpus and the triggers                                             *)

\* A store takes the next id (AUTOINCREMENT reuses none) and queues both builds.
StoreDoc(i, text, chan) ==
    /\ i = used.last + 1
    /\ used.edits < MaxDocEdits /\ used' = [used EXCEPT !.edits = @ + 1, !.last = i]
    /\ docs' = [docs EXCEPT ![i] = [text |-> text, chan |-> chan]]
    /\ todo' = todo \o BuildsFor(i)
    /\ UNCHANGED <<nodeSet, blockSet, served, known, job, scan, owed>>

\* The update triggers drop both sets; the write path queues their builds.
EditDoc(i, text) ==
    /\ Edited /\ docs[i] # Nothing_ /\ docs[i].text # text
    /\ docs' = [docs EXCEPT ![i].text = text]
    /\ nodeSet' = [nodeSet EXCEPT ![i] = Nothing_] /\ blockSet' = [blockSet EXCEPT ![i] = Nothing_]
    /\ todo' = todo \o BuildsFor(i) /\ owed' = owed \ {i}
    /\ UNCHANGED <<served, known, job, scan>>

DeleteDoc(i) ==
    /\ Edited /\ docs[i] # Nothing_
    /\ docs' = [docs EXCEPT ![i] = Nothing_]
    /\ nodeSet' = [nodeSet EXCEPT ![i] = Nothing_] /\ blockSet' = [blockSet EXCEPT ![i] = Nothing_]
    /\ owed' = owed \ {i}
    /\ UNCHANGED <<served, known, todo, job, scan>>

\* A record moves to another channel: the axis trigger retags its blocks.
RechannelDoc(i, chan) ==
    /\ Edited /\ docs[i] # Nothing_ /\ docs[i].chan # chan
    /\ docs' = [docs EXCEPT ![i].chan = chan]
    /\ blockSet' = [blockSet EXCEPT ![i] = IF @ = Nothing_ THEN @ ELSE [@ EXCEPT !.chan = chan]]
    /\ UNCHANGED <<nodeSet, served, known, todo, job, scan, owed>>

----------------------------------------------------------------------------
(* The backend's identity                                                  *)

SwitchBackend(m) ==
    /\ Edited /\ m # served
    /\ served' = m
    /\ UNCHANGED <<docs, nodeSet, blockSet, known, todo, job, scan, owed>>

\* generation.refresh: what the backend reports; an unanswered probe keeps what is known.
RefreshedIdentity == {known, served}

\* A recall or a store refreshes while a build waits.
RefreshMeanwhile ==
    /\ known # served
    /\ known' = served
    /\ owed' = {}
    /\ UNCHANGED <<docs, nodeSet, blockSet, served, todo, job, scan, used>>

----------------------------------------------------------------------------
(* Writing a prepared set                                                  *)

Prepared(type, i, text, ends) ==
    [type |-> type, id |-> i, of |-> text, ends |-> ends, label |-> Label, by |-> served]

\* Mutant of Writable: only the record's existence is checked.
WritableIfThere(p) == docs[p.id] # Nothing_

\* write_nodes, write_blocks: under the write lock, the record must still hold the text.
Writable(p) == docs[p.id] # Nothing_ /\ docs[p.id].text = p.of

WrittenNodes(sets, p) == [sets EXCEPT ![p.id] = [of |-> p.of, label |-> p.label, by |-> p.by]]
\* Blocks copy the record's axes as they are at the write.
WrittenBlocks(sets, p) == [sets EXCEPT ![p.id] = [of |-> p.of, label |-> p.label, ends |-> p.ends, chan |-> docs[p.id].chan]]

Write(p) ==
    /\ nodeSet' = IF p.type = "nodes" /\ Writable(p) THEN WrittenNodes(nodeSet, p) ELSE nodeSet
    /\ blockSet' = IF p.type = "blocks" /\ Writable(p) THEN WrittenBlocks(blockSet, p) ELSE blockSet

----------------------------------------------------------------------------
(* The drain: one derived task at a time                                   *)

NoJob == [pc |-> "idle"]

\* build_nodes and build_blocks up to the await: refresh, then read the record, whether
\* its set is current and the node ends.
TakeBuild ==
    /\ job = NoJob /\ todo # <<>> /\ Head(todo).type # "sweep"
    /\ LET t == Head(todo) i == Head(todo).id
       IN  \E k \in RefreshedIdentity :
              LET current == IF t.type = "nodes" THEN nodeSet[i] # Nothing_ /\ nodeSet[i].label \in {k, Legacy}
                             ELSE BlocksCurrentIn(blockSet, AllEnds, {k, Legacy}, i)
              IN  /\ known' = k
                  /\ owed' = IF k = known THEN owed ELSE {}
                  /\ IF docs[i] = Nothing_ \/ current
                     THEN todo' = Tail(todo) /\ job' = job
                     ELSE /\ job' = [pc |-> "embed", type |-> t.type, id |-> i, text |-> docs[i].text,
                                     ends |-> AllEnds[i]]
                          /\ todo' = todo
    /\ UNCHANGED <<docs, nodeSet, blockSet, served, scan, used>>

\* prepare_nodes, prepare_blocks: the vectors are the backend's, the label is read last.
EmbedBuild ==
    /\ job.pc = "embed"
    /\ job' = [pc |-> "write", set |-> Prepared(job.type, job.id, job.text, job.ends)]
    /\ UNCHANGED <<docs, nodeSet, blockSet, served, known, todo, scan, owed, used>>

\* The embedder fails: the task is retried later or given up, as TaskQueue models.
EmbedFails ==
    /\ job.pc = "embed" /\ Fault
    /\ job' = NoJob
    /\ todo' \in {todo, Tail(todo)}
    /\ UNCHANGED <<docs, nodeSet, blockSet, served, known, scan, owed>>

WriteBuild ==
    /\ job.pc = "write"
    /\ Write(job.set)
    /\ owed' = IF job.set.type = "nodes" THEN owed \ {job.set.id} ELSE owed
    /\ job' = NoJob /\ todo' = Tail(todo)
    /\ UNCHANGED <<docs, served, known, scan, used>>

----------------------------------------------------------------------------
(* The sweep                                                               *)

\* queue_backfill, at startup: one sweep at a time.
QueueSweep ==
    /\ ~\E k \in DOMAIN todo : todo[k].type = "sweep"
    /\ job = NoJob /\ Docs # {} /\ owed = {} /\ Edited
    /\ todo' = Append(todo, Task("sweep", 0))
    /\ owed' = Docs
    /\ UNCHANGED <<docs, nodeSet, blockSet, served, known, job, scan>>

\* backfill: the page of records after the cursor, their sets and node ends, is read
\* once; each record not current in it is built in turn. `built` counts records built,
\* refused or failed. (The page holds every record; the next page is read after it.)
TakeSweep ==
    /\ job = NoJob /\ todo # <<>> /\ Head(todo).type = "sweep"
    /\ \E k \in RefreshedIdentity :
          /\ known' = k
          /\ owed' = IF k = known THEN owed ELSE {}
          /\ job' = [pc |-> "sweep", cursor |-> Head(todo).id, keys |-> {k, Legacy}, built |-> 0, failed |-> 0,
                     page |-> [text |-> [i \in DIds |-> IF docs[i] = Nothing_ THEN Nothing_ ELSE docs[i].text],
                               sets |-> blockSet, ends |-> AllEnds]]
    /\ UNCHANGED <<docs, nodeSet, blockSet, served, todo, scan, used>>

NextDoc == CHOOSE i \in {j \in DIds : j > job.cursor /\ job.page.text[j] # Nothing_} :
               \A j \in DIds : j > job.cursor /\ job.page.text[j] # Nothing_ => i <= j
PageDone == \A j \in DIds : j > job.cursor => job.page.text[j] = Nothing_
Due(i) == ~BlocksCurrentIn(job.page.sets, job.page.ends, job.keys, i)

\* A record that is current, or the embedding of one that is not.
SweepRecord ==
    /\ job.pc = "sweep" /\ ~PageDone
    /\ IF ~Due(NextDoc) THEN job' = [job EXCEPT !.cursor = NextDoc]
       ELSE /\ job.built + job.failed < SweepCap
            /\ job' = [job EXCEPT !.pc = "sweep_write"]
    /\ UNCHANGED <<docs, nodeSet, blockSet, served, known, todo, scan, owed, used>>

\* _build_one's transaction: written, or refused because the text has moved on. The
\* label is the one known when the vectors came back.
SweepWrite ==
    /\ job.pc = "sweep_write"
    /\ LET p == Prepared("blocks", NextDoc, job.page.text[NextDoc], job.page.ends[NextDoc])
       IN  /\ Write(p)
           /\ owed' = IF AllEnds[p.id] = p.ends THEN owed ELSE owed \ {p.id}
    /\ job' = [job EXCEPT !.pc = "sweep", !.cursor = NextDoc, !.built = @ + 1]
    /\ UNCHANGED <<docs, served, known, todo, scan, used>>

\* One record's build fails: it is counted and passed over.
SweepFails ==
    /\ job.pc = "sweep_write" /\ Fault
    /\ owed' = owed \ {NextDoc}
    /\ job' = [job EXCEPT !.pc = "sweep", !.cursor = NextDoc, !.failed = @ + 1]
    /\ UNCHANGED <<docs, nodeSet, blockSet, served, known, todo, scan>>

\* Mutant of SweepStops: the cursor that is handed on is the record it stopped before.
SweepStopsPast ==
    /\ job.pc = "sweep" /\ ~PageDone /\ Due(NextDoc) /\ job.built + job.failed >= SweepCap
    /\ job.built > 0
    /\ todo' = Append(todo, Task("sweep", NextDoc))
    /\ job' = [pc |-> "swept"]
    /\ UNCHANGED <<docs, nodeSet, blockSet, served, known, scan, owed, used>>

\* A bound is reached with a record still due: the continuation is queued first ...
SweepStops ==
    /\ job.pc = "sweep" /\ ~PageDone /\ Due(NextDoc) /\ job.built + job.failed >= SweepCap
    /\ job.built > 0
    /\ todo' = Append(todo, Task("sweep", job.cursor))
    /\ job' = [pc |-> "swept"]
    /\ UNCHANGED <<docs, nodeSet, blockSet, served, known, scan, owed, used>>

\* ... (its enqueue may fail, which is logged: the rest waits for the next startup) ...
SweepLost ==
    /\ job.pc = "sweep" /\ ~PageDone /\ Due(NextDoc) /\ job.built + job.failed >= SweepCap
    /\ job.built > 0 /\ Fault
    /\ job' = [pc |-> "swept"] /\ owed' = {}
    /\ UNCHANGED <<docs, nodeSet, blockSet, served, known, todo, scan>>

\* ... and only then is its own row deleted by the drain.
SweepRowDeleted ==
    /\ job.pc = "swept"
    /\ job' = NoJob /\ todo' = Tail(todo)
    /\ UNCHANGED <<docs, nodeSet, blockSet, served, known, scan, owed, used>>

SweepEnds ==
    /\ job.pc = "sweep" /\ PageDone /\ (job.failed = 0 \/ job.built > 0)
    /\ job' = [pc |-> "swept"]
    /\ UNCHANGED <<docs, nodeSet, blockSet, served, known, todo, scan, owed, used>>

\* Every record failed: the sweep raises and its row is retried, or given up.
SweepRaises ==
    /\ job.pc = "sweep" /\ job.failed > 0 /\ job.built = 0
    /\ IF PageDone THEN TRUE ELSE Due(NextDoc) /\ job.failed >= SweepCap
    /\ job' = NoJob
    /\ \/ todo' = todo /\ owed' = owed
       \/ todo' = Tail(todo) /\ owed' = {}
    /\ UNCHANGED <<docs, nodeSet, blockSet, served, known, scan, used>>

----------------------------------------------------------------------------
(* check_health                                                            *)

\* prefetch_missing_nodes and prefetch_missing_blocks: what is missing, prepared before
\* the transaction opens. (Bound: one layer and one record a run.)
HealthPrefetch(type) ==
    /\ scan = <<>> /\ Edited
    /\ \E i \in Docs :
          /\ IF type = "nodes" THEN ~NodesCurrent(i) ELSE ~BlocksCurrentIn(blockSet, AllEnds, Keys, i)
          /\ scan' = <<Prepared(type, i, docs[i].text, AllEnds[i])>>
    /\ UNCHANGED <<docs, nodeSet, blockSet, served, known, todo, job, owed>>

\* check_missing_nodes and check_missing_blocks, in the fix's transaction.
HealthWrite ==
    /\ scan # <<>>
    /\ Write(Head(scan))
    /\ owed' = IF Head(scan).type = "nodes" \/ AllEnds[Head(scan).id] # Head(scan).ends
                  \/ Head(scan).label \notin Keys THEN owed \ {Head(scan).id} ELSE owed
    /\ scan' = <<>>
    /\ UNCHANGED <<docs, served, known, todo, job, used>>

\* The process ends: the tables and the queue stay, what was learned and prepared goes.
DerivedCrash ==
    /\ Fault
    /\ job' = NoJob /\ scan' = <<>> /\ known' = Legacy
    /\ owed' = IF known = Legacy THEN owed ELSE {}
    /\ UNCHANGED <<docs, nodeSet, blockSet, served, todo>>

DerivedInit ==
    /\ docs = [i \in DIds |-> Nothing_]
    /\ nodeSet = [i \in DIds |-> Nothing_] /\ blockSet = [i \in DIds |-> Nothing_]
    /\ served \in Models /\ served = CHOOSE m \in Models : TRUE
    /\ known = Legacy /\ todo = <<>> /\ job = NoJob /\ scan = <<>> /\ owed = {}
    /\ used = [edits |-> 0, faults |-> 0, last |-> 0]

\* A corpus from before there were derived sets: records and no builds queued.
OpenCorpusWithoutSets ==
    /\ used.edits = 0 /\ used.last = 0
    /\ docs' = [i \in DIds |-> [text |-> CHOOSE t \in DTexts : TRUE, chan |-> CHOOSE c \in DChans : TRUE]]
    /\ used' = [used EXCEPT !.last = Cardinality(DIds)]
    /\ UNCHANGED <<nodeSet, blockSet, served, known, todo, job, scan, owed>>

DerivedNext ==
    \/ OpenCorpusWithoutSets
    \/ \E i \in DIds : \/ \E t \in DTexts, c \in DChans : StoreDoc(i, t, c)
                       \/ \E t \in DTexts : EditDoc(i, t)
                       \/ \E c \in DChans : RechannelDoc(i, c)
                       \/ DeleteDoc(i)
    \/ \E m \in Models : SwitchBackend(m)
    \/ RefreshMeanwhile
    \/ TakeBuild \/ EmbedBuild \/ EmbedFails \/ WriteBuild
    \/ QueueSweep \/ TakeSweep \/ SweepRecord \/ SweepWrite \/ SweepFails
    \/ SweepStops \/ SweepLost \/ SweepRowDeleted \/ SweepEnds \/ SweepRaises
    \/ \E type \in {"nodes", "blocks"} : HealthPrefetch(type)
    \/ HealthWrite
    \/ DerivedCrash

DerivedSpec == DerivedInit /\ [][DerivedNext]_derivedVars

----------------------------------------------------------------------------
(* Properties                                                              *)

\* A derived set is always a set of the text its record now holds, and blocks are always
\* filed under the record's present channel, although a set is computed from a text read
\* before a network await, the record may be edited, moved or deleted meanwhile, and a
\* drain and a repair may build the same record at once.
DerivedFollowText ==
    \A i \in DIds :
        /\ nodeSet[i] # Nothing_ => docs[i] # Nothing_ /\ nodeSet[i].of = docs[i].text
        /\ blockSet[i] # Nothing_ => /\ docs[i] # Nothing_ /\ blockSet[i].of = docs[i].text
                                     /\ blockSet[i].chan = docs[i].chan

\* When no sweep is queued or running any more, every record the sweep was queued for
\* holds current blocks, except those edited or given new nodes since and those whose
\* build failed: stopping at a bound, a crash before the sweep's row is deleted and the
\* retry of the whole sweep skip nothing.
SweepMissesNothing ==
    job = NoJob /\ (\A k \in DOMAIN todo : todo[k].type # "sweep") =>
        \A i \in owed : BlocksCurrentIn(blockSet, AllEnds, Keys, i)
=============================================================================
