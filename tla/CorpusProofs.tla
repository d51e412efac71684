---------------------------- MODULE CorpusProofs -----------------------------
(***************************************************************************)
(* What DerivedLayers guarantees for every number of records, texts,       *)
(* channels, models, edits, failures and crashes, CoarseSearch for every   *)
(* table, file, change log and order of the writes beside a search,        *)
(* Associations for every set of names, records and calls, and BlockIndex  *)
(* for every table, file, chunk, cap, and order of writes and builds.      *)
(***************************************************************************)
EXTENDS DerivedLayers, CoarseSearch, Associations, BlockIndex, OrderTheorems, SequenceTheorems

----------------------------------------------------------------------------
(* The inductive invariants                                                *)

BuildTask == [type : {"nodes", "blocks"}, id : DIds]
SweepTask == [type : {"sweep"}, id : {0} \cup DIds]
Page      == [text : [DIds -> DTexts \cup {Nothing_}], sets : [DIds -> BlockSet \cup {Nothing_}], ends : [DIds -> Ends]]
Embedding == [pc : {"embed"}, type : {"nodes", "blocks"}, id : DIds, text : DTexts, ends : Ends]
Writing   == [pc : {"write"}, set : Prep]
Sweeping  == [pc : {"sweep", "sweep_write"}, cursor : {0} \cup DIds, keys : SUBSET Labels, built : Nat, failed : Nat,
              page : Page]
Resting   == [pc : {"idle", "swept"}]

DerivedTypeOK ==
    /\ docs \in [DIds -> Doc \cup {Nothing_}]
    /\ nodeSet \in [DIds -> NodeSet \cup {Nothing_}] /\ blockSet \in [DIds -> BlockSet \cup {Nothing_}]
    /\ served \in Models /\ known \in Labels
    /\ todo \in Seq(BuildTask \cup SweepTask)
    /\ job \in Resting \cup Embedding \cup Writing \cup Sweeping
    /\ scan = <<>> \/ \E p \in Prep : scan = <<p>>
    /\ owed \subseteq DIds
    /\ used \in [edits : Nat, faults : Nat, last : Nat]

\* AUTOINCREMENT: no record has an id above the last one handed out.
IdsFresh == \A i \in DIds : i > used.last => docs[i] = Nothing_

\* The task the drain holds is the head of the queue, and a sweep that builds a record has
\* one left in its page.
RowIsHead ==
    /\ job.pc # "idle" => todo # <<>>
    /\ job.pc \in {"embed", "write"} => Head(todo).type # "sweep"
    /\ job.pc \in {"sweep", "sweep_write", "swept"} => Head(todo).type = "sweep"
    /\ job.pc = "sweep_write" => ~PageDone

BlocksUpToDate(i) == BlocksCurrentIn(blockSet, AllEnds, Keys, i)

\* A sweep waits in the queue s, and every one that waits will still come to record i.
SweepAhead(s, i) ==
    /\ \E k \in DOMAIN s : s[k].type = "sweep"
    /\ \A k \in DOMAIN s : s[k].type = "sweep" => s[k].id < i

\* A record answered for exists, and has current blocks or all queued sweeps ahead of it.
OwedInQueue == owed \subseteq Docs /\ \A i \in owed : BlocksUpToDate(i) \/ SweepAhead(todo, i)

\* The sweep under way read the text the record still holds; it has the record ahead of it
\* and will find its blocks due, unless they are current.
OwedInSweep ==
    job.pc \in {"sweep", "sweep_write"} =>
        \A i \in owed : /\ job.page.text[i] = docs[i].text
                        /\ BlocksUpToDate(i) \/ (i > job.cursor /\ Due(i))

\* A sweep that is over leaves nothing to its own row, which is about to be deleted.
OwedAfterSweep == job.pc = "swept" => \A i \in owed : BlocksUpToDate(i) \/ SweepAhead(Tail(todo), i)

\* A block set in the drain's hands is as a record answered for is to be built.
OwedInBuild ==
    /\ job.pc = "embed" => (job.type = "blocks" /\ job.id \in owed => job.ends = AllEnds[job.id])
    /\ job.pc = "write" => (job.set.type = "blocks" /\ job.set.id \in owed =>
                               job.set.ends = AllEnds[job.set.id] /\ job.set.label = known)

SweepInv == OwedInQueue /\ OwedInSweep /\ OwedAfterSweep /\ OwedInBuild

----------------------------------------------------------------------------
(* Types                                                                   *)

\* Where the drain is tells what it holds.
LEMMA JobShape ==
    ASSUME DerivedTypeOK
    PROVE  /\ job.pc = "idle" <=> job = NoJob
           /\ job.pc = "embed" => job \in Embedding
           /\ job.pc = "write" => job \in Writing
           /\ job.pc \in {"sweep", "sweep_write"} => job \in Sweeping
           /\ job.pc \in {"idle", "embed", "write", "sweep", "sweep_write", "swept"}
<1>1. job \in Resting \/ job \in Embedding \/ job \in Writing \/ job \in Sweeping
  BY DEF DerivedTypeOK
<1>2. CASE job \in Resting
  BY <1>2 DEF Resting, NoJob
<1>3. CASE job \in Embedding
  BY <1>3 DEF Embedding, NoJob
<1>4. CASE job \in Writing
  BY <1>4 DEF Writing, NoJob
<1>5. CASE job \in Sweeping
  BY <1>5 DEF Sweeping, NoJob
<1> QED
  BY <1>1, <1>2, <1>3, <1>4, <1>5

\* Records are numbered from one.
LEMMA NumbersOfRecords == Cardinality(DIds) \in Nat /\ \A i \in DIds : i \in Nat /\ i > 0
<1>1. Cardinality(DIds) \in Nat
  BY FS_CardinalityType, DerivedConstants
<1> QED
  BY <1>1, DerivedConstants

\* What is read of the tables, and what is prepared from it, has its type.
LEMMA ReadTypes ==
    ASSUME DerivedTypeOK
    PROVE  /\ AllEnds \in [DIds -> Ends] /\ \A i \in DIds : AllEnds[i] = EndsOf(nodeSet[i])
           /\ \A i \in Docs : i \in DIds /\ docs[i].text \in DTexts /\ docs[i].chan \in DChans
           /\ \A type \in {"nodes", "blocks"}, i \in DIds, text \in DTexts, ends \in Ends :
                 Prepared(type, i, text, ends) \in Prep
           /\ RefreshedIdentity \subseteq Labels /\ Keys \subseteq Labels /\ Legacy \in Labels
<1>1. \A i \in DIds : EndsOf(nodeSet[i]) \in Ends
  <2> SUFFICES ASSUME NEW i \in DIds PROVE EndsOf(nodeSet[i]) \in Ends
    OBVIOUS
  <2>1. nodeSet[i] = Nothing_ \/ nodeSet[i] \in NodeSet
    BY DEF DerivedTypeOK
  <2> QED
    BY <2>1 DEF EndsOf, Ends, NodeSet
<1>2. \A i \in Docs : i \in DIds /\ docs[i] \in Doc
  BY DEF Docs, DerivedTypeOK
<1>3. \A i \in Docs : i \in DIds /\ docs[i].text \in DTexts /\ docs[i].chan \in DChans
  BY <1>2 DEF Doc
<1>4. \A type \in {"nodes", "blocks"}, i \in DIds, text \in DTexts, ends \in Ends :
                 Prepared(type, i, text, ends) \in Prep
  BY DEF Prepared, Prep, Label, DerivedTypeOK
<1> QED
  BY <1>1, <1>3, <1>4 DEF AllEnds, RefreshedIdentity, Keys, Labels, DerivedTypeOK

\* A prepared set is written over its own record's, or over none.
LEMMA Written ==
    ASSUME DerivedTypeOK, NEW p \in Prep, Write(p)
    PROVE  /\ nodeSet' \in [DIds -> NodeSet \cup {Nothing_}] /\ blockSet' \in [DIds -> BlockSet \cup {Nothing_}]
           /\ p.id \in DIds /\ \A i \in DIds : i # p.id => nodeSet'[i] = nodeSet[i] /\ blockSet'[i] = blockSet[i]
           /\ nodeSet'[p.id] = nodeSet[p.id] \/
                 (p.type = "nodes" /\ docs[p.id] # Nothing_ /\ docs[p.id].text = p.of /\ nodeSet'[p.id].of = p.of)
           /\ ~Writable(p) \/ p.type = "nodes" => blockSet'[p.id] = blockSet[p.id]
           /\ p.type = "blocks" => nodeSet' = nodeSet
           /\ Writable(p) /\ p.type = "blocks" =>
                 /\ docs[p.id] # Nothing_ /\ docs[p.id].text = p.of /\ blockSet'[p.id] # Nothing_
                 /\ blockSet'[p.id].of = p.of /\ blockSet'[p.id].chan = docs[p.id].chan
                 /\ blockSet'[p.id].label = p.label /\ blockSet'[p.id].ends = p.ends
<1> DEFINE n == [of |-> p.of, label |-> p.label, by |-> p.by]
           b == [of |-> p.of, label |-> p.label, ends |-> p.ends, chan |-> docs[p.id].chan]
<1>1. n \in NodeSet /\ n.of = p.of /\ p.id \in DIds
  BY DEF Prep, NodeSet
<1>2. Writable(p) => b \in BlockSet /\ b # Nothing_
  <2> SUFFICES ASSUME Writable(p) PROVE b \in BlockSet
    BY NothingAssumption
  <2>1. p.id \in Docs
    BY <1>1 DEF Writable, Docs
  <2>2. docs[p.id].chan \in DChans
    BY <2>1, ReadTypes
  <2> QED
    BY <2>2 DEF Prep, BlockSet
<1>3. b.of = p.of /\ b.chan = docs[p.id].chan /\ b.label = p.label /\ b.ends = p.ends
  OBVIOUS
<1>4. /\ nodeSet' = IF p.type = "nodes" /\ Writable(p) THEN [nodeSet EXCEPT ![p.id] = n] ELSE nodeSet
      /\ blockSet' = IF p.type = "blocks" /\ Writable(p) THEN [blockSet EXCEPT ![p.id] = b] ELSE blockSet
  BY DEF Write, WrittenNodes, WrittenBlocks
<1> HIDE DEF n, b
<1>5. Writable(p) => docs[p.id] # Nothing_ /\ docs[p.id].text = p.of
  BY DEF Writable
<1>6. p.type = "nodes" \/ p.type = "blocks"
  BY DEF Prep
<1>7. CASE p.type = "nodes" /\ Writable(p)
  BY <1>1, <1>4, <1>5, <1>7 DEF DerivedTypeOK
<1>8. CASE p.type = "blocks" /\ Writable(p)
  BY <1>1, <1>2, <1>3, <1>4, <1>5, <1>8 DEF DerivedTypeOK
<1>9. CASE ~Writable(p)
  BY <1>1, <1>4, <1>9 DEF DerivedTypeOK
<1> QED
  BY <1>6, <1>7, <1>8, <1>9

\* The next record of a sweep is a record of its page past the cursor, the lowest.
LEMMA NextInPage ==
    ASSUME job \in Sweeping, ~PageDone
    PROVE  /\ NextDoc \in DIds /\ NextDoc > job.cursor /\ job.page.text[NextDoc] \in DTexts
           /\ \A j \in DIds : j > job.cursor /\ job.page.text[j] # Nothing_ => NextDoc <= j
<1> DEFINE S == {j \in DIds : j > job.cursor /\ job.page.text[j] # Nothing_}
<1>1. S # {} /\ S \subseteq DIds
  BY DEF PageDone
<1>2. IsFiniteSet(S) /\ \A j \in S : j \in Nat
  BY <1>1, FS_Subset, DerivedConstants, NumbersOfRecords
<1>3. PICK x \in S : \A y \in S : x <= y
  <2> DEFINE below(x) == {y \in S : y < x}
             family   == {below(x) : x \in S}
             R        == StrictSubsetOrdering(S)
  <2>1. family \subseteq FiniteSubsetsOf(S) /\ family # {}
    <3>1. \A x \in S : below(x) \in SUBSET S
      OBVIOUS
    <3>2. \A x \in S : IsFiniteSet(below(x))
      BY <1>2, <3>1, FS_Subset
    <3> HIDE DEF S
    <3> QED
      BY <1>1, <3>1, <3>2 DEF FiniteSubsetsOf
  <2>2. PICK F \in family : \A G \in family : <<G, F>> \notin R
    <3>1. IsWellFoundedOn(R, FiniteSubsetsOf(S))
      BY <1>2, FS_StrictSubsetOrderingWellFounded
    <3> HIDE DEF R, family
    <3> QED
      BY <2>1, <3>1, WFMin
  <2> HIDE DEF S
  <2>3. PICK x \in S : F = below(x)
    OBVIOUS
  <2>4. ASSUME NEW y \in S, y < x
        PROVE  FALSE
    <3>1. y \in Nat /\ x \in Nat /\ ~(y < y) /\ \A z \in S : z < y => z < x
      BY <1>2, <2>4
    <3>2. below(y) \subseteq below(x) /\ y \in below(x) /\ y \notin below(y)
      BY <3>1, <2>4, Zenon
    <3>3. <<below(y), below(x)>> \in R
      BY <3>2 DEF StrictSubsetOrdering
    <3> QED
      BY <2>2, <2>3, <3>3
  <2> QED
    BY <1>2, <2>4
<1>4. NextDoc = CHOOSE i \in S : \A j \in DIds : j > job.cursor /\ job.page.text[j] # Nothing_ => i <= j
  BY DEF NextDoc
<1>5. NextDoc \in S /\ \A j \in DIds : j > job.cursor /\ job.page.text[j] # Nothing_ => NextDoc <= j
  BY <1>3, <1>4
<1>6. job.page.text \in [DIds -> DTexts \cup {Nothing_}]
  BY DEF Sweeping, Page
<1> QED
  BY <1>5, <1>6

Sound == DerivedTypeOK /\ IdsFresh /\ RowIsHead

\* An empty store is in order.
LEMMA SoundInit == DerivedInit => Sound
<1> SUFFICES ASSUME DerivedInit PROVE Sound
  OBVIOUS
<1>1. /\ docs \in [DIds -> Doc \cup {Nothing_}]
      /\ nodeSet \in [DIds -> NodeSet \cup {Nothing_}] /\ blockSet \in [DIds -> BlockSet \cup {Nothing_}]
      /\ served \in Models /\ known \in Labels /\ owed \subseteq DIds
      /\ used \in [edits : Nat, faults : Nat, last : Nat]
  BY DEF DerivedInit, Labels
<1>2. todo = <<>> /\ todo \in Seq(BuildTask \cup SweepTask)
  BY DEF DerivedInit
<1>3. job.pc = "idle" /\ job \in Resting
  BY DEF DerivedInit, NoJob, Resting
<1>4. scan = <<>> /\ IdsFresh
  BY DEF DerivedInit, IdsFresh
<1> QED
  BY <1>1, <1>2, <1>3, <1>4 DEF Sound, DerivedTypeOK, RowIsHead

\* The head of the queue is a task, and the drain takes tasks from the head only while
\* others join at the tail.
LEMMA QueueOps ==
    ASSUME DerivedTypeOK
    PROVE  /\ \A i \in DIds : todo \o BuildsFor(i) \in Seq(BuildTask \cup SweepTask)
           /\ \A i \in {0} \cup DIds : Append(todo, Task("sweep", i)) \in Seq(BuildTask \cup SweepTask)
           /\ todo # <<>> => /\ Tail(todo) \in Seq(BuildTask \cup SweepTask)
                             /\ Head(todo).type # "sweep" => Head(todo) \in BuildTask
                             /\ Head(todo).type = "sweep" => Head(todo) \in SweepTask
           /\ todo # <<>> => /\ \A i \in DIds : todo \o BuildsFor(i) # <<>> /\ Head(todo \o BuildsFor(i)) = Head(todo)
                             /\ \A t : Append(todo, t) # <<>> /\ Head(Append(todo, t)) = Head(todo)
<1> DEFINE T == BuildTask \cup SweepTask
<1>1. \A i \in DIds : BuildsFor(i) \in Seq(T)
  BY DEF BuildsFor, Task, BuildTask
<1>2. \A i \in {0} \cup DIds : Task("sweep", i) \in T
  BY DEF Task, SweepTask
<1>3. todo \in Seq(T)
  BY DEF DerivedTypeOK
<1> HIDE DEF T
<1>4. todo # <<>> => Head(todo) \in T /\ Tail(todo) \in Seq(T)
  BY <1>3
<1>5. todo # <<>> => (Head(todo).type # "sweep" => Head(todo) \in BuildTask) /\ (Head(todo).type = "sweep" => Head(todo) \in SweepTask)
  BY <1>4 DEF T, BuildTask, SweepTask
<1>6. ASSUME NEW s \in Seq(T), todo # <<>> PROVE todo \o s # <<>> /\ Head(todo \o s) = Head(todo)
  BY <1>3, <1>6
<1>7. ASSUME NEW t, todo # <<>> PROVE Append(todo, t) # <<>> /\ Head(Append(todo, t)) = Head(todo)
  BY <1>3, <1>7
<1>8. \A i \in DIds : todo \o BuildsFor(i) \in Seq(T)
  BY <1>1, <1>3
<1>9. \A i \in {0} \cup DIds : Append(todo, Task("sweep", i)) \in Seq(T)
  BY <1>2, <1>3
<1> QED
  BY <1>1, <1>4, <1>5, <1>6, <1>7, <1>8, <1>9 DEF T

\* Every step keeps the types, the ids and the queue's order.
LEMMA SoundStep == Sound /\ [DerivedNext]_derivedVars => Sound'
<1> SUFFICES ASSUME DerivedTypeOK, IdsFresh, RowIsHead, [DerivedNext]_derivedVars PROVE Sound'
  BY DEF Sound
<1> DEFINE Tables == /\ docs \in [DIds -> Doc \cup {Nothing_}]
                     /\ nodeSet \in [DIds -> NodeSet \cup {Nothing_}] /\ blockSet \in [DIds -> BlockSet \cup {Nothing_}]
           Backend == served \in Models /\ known \in Labels
           Queue == todo \in Seq(BuildTask \cup SweepTask)
           Job == job \in Resting \cup Embedding \cup Writing \cup Sweeping
           Scanning == scan = <<>> \/ \E p \in Prep : scan = <<p>>
           History == owed \subseteq DIds /\ used \in [edits : Nat, faults : Nat, last : Nat]
<1>0. Tables /\ Backend /\ Queue /\ Job /\ Scanning /\ History
  BY DEF DerivedTypeOK
<1>q. ASSUME Tables', Backend', Queue', Job', Scanning', History', IdsFresh', RowIsHead' PROVE Sound'
  BY <1>q DEF Sound, DerivedTypeOK
<1>n. \A i \in DIds : i \in Nat
  BY NumbersOfRecords
<1>r. NoJob \in Resting /\ NoJob.pc = "idle" /\ [pc |-> "swept"] \in Resting
  BY DEF NoJob, Resting
<1>1. CASE UNCHANGED derivedVars
  BY <1>0, <1>1, <1>q DEF derivedVars, IdsFresh, RowIsHead, PageDone
<1>2. CASE OpenCorpusWithoutSets
  <2> DEFINE d == [text |-> CHOOSE t \in DTexts : TRUE, chan |-> CHOOSE c \in DChans : TRUE]
  <2>1. d \in Doc
    BY DerivedConstants DEF Doc
  <2>2. docs' = [i \in DIds |-> d]
    BY <1>2 DEF OpenCorpusWithoutSets
  <2> HIDE DEF d
  <2>3. docs' \in [DIds -> Doc \cup {Nothing_}]
    BY <2>1, <2>2
  <2>4. Tables' /\ Backend' /\ Queue' /\ Job' /\ Scanning'
    BY <1>0, <1>2, <2>3 DEF OpenCorpusWithoutSets
  <2>5. History' /\ used'.last = Cardinality(DIds)
    BY <1>0, <1>2, NumbersOfRecords DEF OpenCorpusWithoutSets
  <2>6. \A i \in DIds : ~(i > Cardinality(DIds))
    BY NumbersOfRecords, DerivedConstants
  <2>7. IdsFresh'
    BY <2>5, <2>6 DEF IdsFresh
  <2>8. RowIsHead'
    BY <1>2 DEF OpenCorpusWithoutSets, RowIsHead, PageDone
  <2> QED
    BY <1>q, <2>4, <2>5, <2>7, <2>8
<1>3. ASSUME NEW i \in DIds, NEW t \in DTexts, NEW c \in DChans, StoreDoc(i, t, c)
      PROVE  Sound'
  <2>1. [text |-> t, chan |-> c] \in Doc
    BY DEF Doc
  <2> DEFINE d == [text |-> t, chan |-> c]
  <2>a. docs' = [docs EXCEPT ![i] = d] /\ d \in Doc
    BY <1>3, <2>1 DEF StoreDoc
  <2> HIDE DEF d
  <2>b. docs' \in [DIds -> Doc \cup {Nothing_}]
    BY <1>0, <2>a
  <2>c. Tables' /\ Backend' /\ Job' /\ Scanning'
    BY <1>0, <1>3, <2>b DEF StoreDoc
  <2>d. used.edits + 1 \in Nat /\ i \in Nat
    BY <1>0, <1>n
  <2>e. History' /\ used'.last = i /\ i = used.last + 1 /\ used.last \in Nat
    BY <1>0, <1>3, <2>d DEF StoreDoc
  <2>2. Tables' /\ Backend' /\ Job' /\ Scanning' /\ History'
    BY <2>c, <2>e
  <2>3. Queue'
    BY <1>3, QueueOps DEF StoreDoc
  <2>4. IdsFresh'
    BY <1>0, <1>n, <2>a, <2>e DEF IdsFresh
  <2>5. RowIsHead'
    BY <1>3, QueueOps DEF StoreDoc, RowIsHead, PageDone
  <2> QED
    BY <1>q, <2>2, <2>3, <2>4, <2>5
<1>4. ASSUME NEW i \in DIds, NEW t \in DTexts, EditDoc(i, t)
      PROVE  Sound'
  <2>1. docs[i] \in Doc
    BY <1>0, <1>4 DEF EditDoc
  <2>2. [docs[i] EXCEPT !.text = t] \in Doc /\ docs' = [docs EXCEPT ![i] = [docs[i] EXCEPT !.text = t]]
    BY <1>4, <2>1 DEF EditDoc, Doc
  <2>3. Tables' /\ Backend' /\ Job' /\ Scanning'
    BY <1>0, <1>4, <2>2 DEF EditDoc
  <2>4. History' /\ used'.last = used.last
    <3>1. owed' = owed \ {i} /\ used' = [used EXCEPT !.edits = @ + 1]
      BY <1>4 DEF EditDoc, Edited
    <3> QED
      BY <1>0, <3>1
  <2>5. Queue'
    BY <1>4, QueueOps DEF EditDoc
  <2>6. IdsFresh'
    BY <1>0, <1>4, <2>2, <2>4 DEF EditDoc, IdsFresh
  <2>7. RowIsHead'
    BY <1>4, QueueOps DEF EditDoc, RowIsHead, PageDone
  <2> QED
    BY <1>q, <2>3, <2>4, <2>5, <2>6, <2>7
<1>5. ASSUME NEW i \in DIds, DeleteDoc(i)
      PROVE  Sound'
  <2>1. Tables' /\ Backend' /\ Queue' /\ Job' /\ Scanning'
    BY <1>0, <1>5 DEF DeleteDoc
  <2>2. History' /\ used'.last = used.last
    BY <1>0, <1>5 DEF DeleteDoc, Edited
  <2>3. IdsFresh'
    BY <1>0, <1>5, <2>2 DEF DeleteDoc, IdsFresh
  <2>4. RowIsHead'
    BY <1>5 DEF DeleteDoc, RowIsHead, PageDone
  <2> QED
    BY <1>q, <2>1, <2>2, <2>3, <2>4
<1>6. ASSUME NEW i \in DIds, NEW c \in DChans, RechannelDoc(i, c)
      PROVE  Sound'
  <2>1. docs[i] \in Doc
    BY <1>0, <1>6 DEF RechannelDoc
  <2>2. [docs[i] EXCEPT !.chan = c] \in Doc /\ docs' = [docs EXCEPT ![i] = [docs[i] EXCEPT !.chan = c]]
    BY <1>6, <2>1 DEF RechannelDoc, Doc
  <2>3. blockSet' \in [DIds -> BlockSet \cup {Nothing_}]
    <3>1. blockSet[i] = Nothing_ \/ blockSet[i] \in BlockSet
      BY <1>0
    <3>2. CASE blockSet[i] = Nothing_
      BY <1>0, <1>6, <3>2 DEF RechannelDoc
    <3>3. CASE blockSet[i] # Nothing_
      <4> DEFINE b == [blockSet[i] EXCEPT !.chan = c]
      <4>1. b \in BlockSet
        BY <3>1, <3>3 DEF BlockSet
      <4>2. blockSet' = [blockSet EXCEPT ![i] = b]
        BY <1>6, <3>3 DEF RechannelDoc
      <4> HIDE DEF b
      <4> QED
        BY <1>0, <4>1, <4>2
    <3> QED
      BY <3>2, <3>3
  <2>4. Tables' /\ Backend' /\ Queue' /\ Job' /\ Scanning'
    BY <1>0, <1>6, <2>2, <2>3 DEF RechannelDoc
  <2>5. History' /\ used'.last = used.last
    BY <1>0, <1>6 DEF RechannelDoc, Edited
  <2>6. IdsFresh'
    BY <1>0, <1>6, <2>2, <2>5 DEF RechannelDoc, IdsFresh
  <2>7. RowIsHead'
    BY <1>6 DEF RechannelDoc, RowIsHead, PageDone
  <2> QED
    BY <1>q, <2>4, <2>5, <2>6, <2>7
<1>7. ASSUME NEW m \in Models, SwitchBackend(m)
      PROVE  Sound'
  <2>1. Tables' /\ Backend' /\ Queue' /\ Job' /\ Scanning' /\ History' /\ used'.last = used.last
    BY <1>0, <1>7 DEF SwitchBackend, Edited
  <2>2. IdsFresh' /\ RowIsHead'
    BY <1>7, <2>1 DEF SwitchBackend, IdsFresh, RowIsHead, PageDone
  <2> QED
    BY <1>q, <2>1, <2>2
<1>8. CASE RefreshMeanwhile
  <2>1. Tables' /\ Backend' /\ Queue' /\ Job' /\ Scanning' /\ History'
    BY <1>0, <1>8 DEF RefreshMeanwhile, Labels
  <2>2. IdsFresh' /\ RowIsHead'
    BY <1>8 DEF RefreshMeanwhile, IdsFresh, RowIsHead, PageDone
  <2> QED
    BY <1>q, <2>1, <2>2
<1>9. CASE TakeBuild
  <2>1. UNCHANGED <<docs, nodeSet, blockSet, served, scan, used>> /\ known' \in Labels /\ owed' \in {owed, {}}
    BY <1>9, ReadTypes DEF TakeBuild
  <2>2. todo # <<>> /\ Head(todo) \in BuildTask /\ Head(todo).type # "sweep" /\ job = NoJob
    BY <1>9, QueueOps DEF TakeBuild
  <2> DEFINE t == Head(todo)
             e == [pc |-> "embed", type |-> t.type, id |-> t.id, text |-> docs[t.id].text, ends |-> AllEnds[t.id]]
  <2>3. \/ todo' = Tail(todo) /\ job' = job
        \/ docs[t.id] # Nothing_ /\ job' = e /\ todo' = todo
    BY <1>9 DEF TakeBuild
  <2>4. docs[t.id] # Nothing_ => e \in Embedding /\ e.pc = "embed"
    <3>1. t.id \in DIds /\ t.type \in {"nodes", "blocks"}
      BY <2>2 DEF BuildTask
    <3>2. docs[t.id] # Nothing_ => docs[t.id].text \in DTexts
      BY <3>1, ReadTypes DEF Docs
    <3>3. AllEnds[t.id] \in Ends
      BY <3>1, ReadTypes
    <3> QED
      BY <3>1, <3>2, <3>3 DEF Embedding
  <2> HIDE DEF e
  <2>5. Queue' /\ Job'
    BY <1>0, <2>2, <2>3, <2>4, QueueOps
  <2>6. RowIsHead'
    BY <1>r, <2>2, <2>3, <2>4 DEF RowIsHead
  <2>7. IdsFresh' /\ History'
    BY <1>0, <2>1 DEF IdsFresh
  <2> QED
    BY <1>0, <1>q, <2>1, <2>5, <2>6, <2>7
<1>10. CASE EmbedBuild
  <2>1. job \in Embedding
    BY <1>10, JobShape DEF EmbedBuild
  <2> DEFINE p == Prepared(job.type, job.id, job.text, job.ends)
  <2>2. p \in Prep
    BY <2>1, ReadTypes DEF Embedding
  <2> HIDE DEF p
  <2>3. job' = [pc |-> "write", set |-> p]
    BY <1>10 DEF EmbedBuild, p
  <2>4. job' \in Writing /\ job'.pc = "write"
    BY <2>2, <2>3 DEF Writing
  <2>5. RowIsHead' /\ IdsFresh'
    BY <1>10, <2>4 DEF EmbedBuild, RowIsHead, IdsFresh
  <2>6. Tables' /\ Backend' /\ Queue' /\ Job' /\ Scanning' /\ History'
    BY <1>0, <1>10, <2>4 DEF EmbedBuild
  <2> QED
    BY <1>q, <2>5, <2>6
<1>11. CASE EmbedFails
  <2>1. todo # <<>>
    BY <1>11 DEF EmbedFails, RowIsHead
  <2>2. Tables' /\ Backend' /\ Job' /\ Scanning' /\ History' /\ used'.last = used.last
    BY <1>0, <1>11, <1>r DEF EmbedFails, Fault
  <2>3. Queue'
    BY <1>0, <1>11, <2>1, QueueOps DEF EmbedFails
  <2>4. IdsFresh' /\ RowIsHead'
    BY <1>11, <1>r, <2>2 DEF EmbedFails, IdsFresh, RowIsHead
  <2> QED
    BY <1>q, <2>2, <2>3, <2>4
<1>12. CASE WriteBuild
  <2>1. todo # <<>> /\ job \in Writing
    BY <1>12, JobShape DEF WriteBuild, RowIsHead
  <2>2. job.set \in Prep
    BY <2>1 DEF Writing
  <2>3. Tables'
    BY <1>0, <1>12, <2>2, Written DEF WriteBuild
  <2>4. Backend' /\ Job' /\ Scanning' /\ History'
    BY <1>0, <1>12, <1>r DEF WriteBuild
  <2>5. Queue'
    BY <1>12, <2>1, QueueOps DEF WriteBuild
  <2>6. IdsFresh' /\ RowIsHead'
    BY <1>12, <1>r DEF WriteBuild, IdsFresh, RowIsHead
  <2> QED
    BY <1>q, <2>3, <2>4, <2>5, <2>6
<1>13. CASE QueueSweep
  <2>0. used' = [used EXCEPT !.edits = used.edits + 1]
    BY <1>13 DEF QueueSweep, Edited
  <2>1. Tables' /\ Backend' /\ Job' /\ Scanning' /\ History' /\ used'.last = used.last
    <3>1. used' \in [edits : Nat, faults : Nat, last : Nat] /\ used'.last = used.last
      BY <1>0, <2>0
    <3>2. owed' \subseteq DIds
      BY <1>13 DEF QueueSweep, Docs
    <3>3. UNCHANGED <<docs, nodeSet, blockSet, served, known, job, scan>>
      BY <1>13 DEF QueueSweep
    <3>4. Tables' /\ Backend' /\ Job' /\ Scanning'
      BY <1>0, <3>3
    <3> QED
      BY <3>1, <3>2, <3>4
  <2>2. Queue'
    BY <1>13, QueueOps DEF QueueSweep
  <2>3. IdsFresh' /\ RowIsHead'
    BY <1>13, <1>r, <2>1 DEF QueueSweep, IdsFresh, RowIsHead
  <2> QED
    BY <1>q, <2>1, <2>2, <2>3
<1>14. CASE TakeSweep
  <2>1. todo # <<>> /\ Head(todo) \in SweepTask /\ Head(todo).type = "sweep"
    BY <1>14, QueueOps DEF TakeSweep
  <2> DEFINE text == [i \in DIds |-> IF docs[i] = Nothing_ THEN Nothing_ ELSE docs[i].text]
             page == [text |-> text, sets |-> blockSet, ends |-> AllEnds]
  <2>2. PICK k \in RefreshedIdentity :
           /\ known' = k /\ owed' \in {owed, {}}
           /\ job' = [pc |-> "sweep", cursor |-> Head(todo).id, keys |-> {k, Legacy}, built |-> 0, failed |-> 0, page |-> page]
    BY <1>14 DEF TakeSweep
  <2>3. page \in Page
    <3>1. \A i \in DIds : docs[i] = Nothing_ \/ docs[i].text \in DTexts
      BY ReadTypes DEF Docs
    <3>2. text \in [DIds -> DTexts \cup {Nothing_}]
      BY <3>1
    <3> HIDE DEF text
    <3> QED
      BY <1>0, <3>2, ReadTypes DEF Page
  <2> HIDE DEF page
  <2>4. k \in Labels /\ {k, Legacy} \in SUBSET Labels
    BY ReadTypes
  <2>5. Head(todo).id \in {0} \cup DIds
    BY <2>1 DEF SweepTask
  <2>6. job' \in Sweeping /\ job'.pc = "sweep"
    BY <2>2, <2>3, <2>4, <2>5 DEF Sweeping
  <2>7. Tables' /\ Backend' /\ Queue' /\ Job' /\ Scanning' /\ History'
    BY <1>0, <1>14, <2>2, <2>4, <2>6 DEF TakeSweep
  <2>8. IdsFresh' /\ RowIsHead'
    BY <1>14, <2>1, <2>6 DEF TakeSweep, IdsFresh, RowIsHead
  <2> QED
    BY <1>q, <2>7, <2>8
<1>15. CASE SweepRecord
  <2>1. job \in Sweeping /\ NextDoc \in DIds
    BY <1>15, JobShape, NextInPage DEF SweepRecord
  <2>2. job' = [job EXCEPT !.cursor = NextDoc] \/ job' = [job EXCEPT !.pc = "sweep_write"]
    BY <1>15 DEF SweepRecord
  <2>3. job' \in Sweeping /\ job'.pc \in {"sweep", "sweep_write"}
    BY <2>1, <2>2 DEF Sweeping
  <2>4. Tables' /\ Backend' /\ Queue' /\ Job' /\ Scanning' /\ History'
    BY <1>0, <1>15, <2>3 DEF SweepRecord
  <2>5. IdsFresh' /\ RowIsHead'
    <3>1. job'.pc = "sweep_write" => job'.page = job.page /\ job'.cursor = job.cursor /\ ~PageDone
      BY <1>15, <2>1, <2>2 DEF SweepRecord, Sweeping
    <3>2. job'.pc = "sweep_write" => ~PageDone'
      BY <3>1 DEF PageDone
    <3> QED
      BY <1>15, <2>3, <3>2 DEF SweepRecord, IdsFresh, RowIsHead
  <2> QED
    BY <1>q, <2>4, <2>5
<1>16. CASE SweepWrite
  <2>1. job \in Sweeping /\ job.pc = "sweep_write"
    BY <1>16, JobShape DEF SweepWrite
  <2>2. NextDoc \in DIds /\ job.page.text[NextDoc] \in DTexts
    BY <2>1, NextInPage DEF RowIsHead
  <2> DEFINE p == Prepared("blocks", NextDoc, job.page.text[NextDoc], job.page.ends[NextDoc])
  <2>3. job.page.ends[NextDoc] \in Ends
    BY <2>1, <2>2 DEF Sweeping, Page
  <2>4. p \in Prep
    BY <2>2, <2>3, ReadTypes
  <2>5. Write(p) /\ owed' \subseteq owed
    BY <1>16 DEF SweepWrite
  <2> HIDE DEF p
  <2>6. Tables'
    BY <1>0, <1>16, <2>4, <2>5, Written DEF SweepWrite
  <2>7. job' = [job EXCEPT !.pc = "sweep", !.cursor = NextDoc, !.built = @ + 1]
    BY <1>16 DEF SweepWrite
  <2>8. job' \in Sweeping /\ job'.pc = "sweep"
    <3>1. job.built + 1 \in Nat
      BY <2>1 DEF Sweeping
    <3> QED
      BY <2>1, <2>2, <2>7, <3>1 DEF Sweeping
  <2>9. Backend' /\ Queue' /\ Job' /\ Scanning' /\ History'
    BY <1>0, <1>16, <2>5, <2>8 DEF SweepWrite
  <2>10. IdsFresh' /\ RowIsHead'
    BY <1>16, <2>1, <2>8 DEF SweepWrite, IdsFresh, RowIsHead
  <2> QED
    BY <1>q, <2>6, <2>9, <2>10
<1>17. CASE SweepFails
  <2>1. job \in Sweeping /\ job.pc = "sweep_write"
    BY <1>17, JobShape DEF SweepFails
  <2>2. NextDoc \in DIds
    BY <2>1, NextInPage DEF RowIsHead
  <2>3. job' = [job EXCEPT !.pc = "sweep", !.cursor = NextDoc, !.failed = @ + 1]
    BY <1>17 DEF SweepFails
  <2>4. job' \in Sweeping /\ job'.pc = "sweep"
    <3>1. job.failed + 1 \in Nat
      BY <2>1 DEF Sweeping
    <3> QED
      BY <2>1, <2>2, <2>3, <3>1 DEF Sweeping
  <2>5. History' /\ used'.last = used.last
    BY <1>0, <1>17 DEF SweepFails, Fault
  <2>6. Tables' /\ Backend' /\ Queue' /\ Job' /\ Scanning'
    BY <1>0, <1>17, <2>4 DEF SweepFails
  <2>7. IdsFresh' /\ RowIsHead'
    BY <1>17, <2>1, <2>4, <2>5 DEF SweepFails, IdsFresh, RowIsHead
  <2> QED
    BY <1>q, <2>5, <2>6, <2>7
<1>18. CASE SweepStops
  <2>1. job \in Sweeping /\ job.pc = "sweep" /\ todo # <<>> /\ Head(todo).type = "sweep"
    BY <1>18, JobShape DEF SweepStops, RowIsHead
  <2>2. job.cursor \in {0} \cup DIds
    BY <2>1 DEF Sweeping
  <2>3. todo' = Append(todo, Task("sweep", job.cursor)) /\ job' = [pc |-> "swept"]
    BY <1>18 DEF SweepStops
  <2>4. Queue' /\ todo' # <<>> /\ Head(todo').type = "sweep"
    BY <2>1, <2>2, <2>3, QueueOps
  <2>5. Tables' /\ Backend' /\ Job' /\ Scanning' /\ History'
    BY <1>0, <1>18, <1>r DEF SweepStops
  <2>6. IdsFresh' /\ RowIsHead'
    BY <1>18, <2>3, <2>4 DEF SweepStops, IdsFresh, RowIsHead
  <2> QED
    BY <1>q, <2>4, <2>5, <2>6
<1>19. CASE SweepLost
  <2>1. History' /\ used'.last = used.last
    BY <1>0, <1>19 DEF SweepLost, Fault
  <2>2. Tables' /\ Backend' /\ Queue' /\ Job' /\ Scanning'
    BY <1>0, <1>19, <1>r DEF SweepLost
  <2>3. IdsFresh' /\ RowIsHead'
    BY <1>19, <2>1 DEF SweepLost, IdsFresh, RowIsHead
  <2> QED
    BY <1>q, <2>1, <2>2, <2>3
<1>20. CASE SweepRowDeleted
  <2>1. todo # <<>>
    BY <1>20 DEF SweepRowDeleted, RowIsHead
  <2>2. Queue'
    BY <1>20, <2>1, QueueOps DEF SweepRowDeleted
  <2>3. Tables' /\ Backend' /\ Job' /\ Scanning' /\ History'
    BY <1>0, <1>20, <1>r DEF SweepRowDeleted
  <2>4. IdsFresh' /\ RowIsHead'
    BY <1>20, <1>r DEF SweepRowDeleted, IdsFresh, RowIsHead
  <2> QED
    BY <1>q, <2>2, <2>3, <2>4
<1>21. CASE SweepEnds
  <2>1. Tables' /\ Backend' /\ Queue' /\ Job' /\ Scanning' /\ History'
    BY <1>0, <1>21, <1>r DEF SweepEnds
  <2>2. IdsFresh' /\ RowIsHead'
    BY <1>21 DEF SweepEnds, IdsFresh, RowIsHead
  <2> QED
    BY <1>q, <2>1, <2>2
<1>22. CASE SweepRaises
  <2>1. todo # <<>>
    BY <1>22 DEF SweepRaises, RowIsHead
  <2>2. todo' \in {todo, Tail(todo)} /\ owed' \subseteq owed
    BY <1>22 DEF SweepRaises
  <2>3. Queue'
    BY <1>0, <2>1, <2>2, QueueOps
  <2>4. Tables' /\ Backend' /\ Job' /\ Scanning' /\ History'
    BY <1>0, <1>22, <1>r, <2>2 DEF SweepRaises
  <2>5. IdsFresh' /\ RowIsHead'
    BY <1>22, <1>r DEF SweepRaises, IdsFresh, RowIsHead
  <2> QED
    BY <1>q, <2>3, <2>4, <2>5
<1>23. ASSUME NEW type \in {"nodes", "blocks"}, HealthPrefetch(type)
       PROVE  Sound'
  <2>1. PICK i \in Docs : scan' = <<Prepared(type, i, docs[i].text, AllEnds[i])>>
    BY <1>23 DEF HealthPrefetch
  <2>2. i \in DIds /\ docs[i].text \in DTexts /\ AllEnds[i] \in Ends
    BY ReadTypes DEF Docs
  <2>3. Prepared(type, i, docs[i].text, AllEnds[i]) \in Prep
    BY <2>2, ReadTypes
  <2>4. Scanning'
    BY <2>1, <2>3
  <2>5. History' /\ used'.last = used.last
    BY <1>0, <1>23 DEF HealthPrefetch, Edited
  <2>6. Tables' /\ Backend' /\ Queue' /\ Job'
    BY <1>0, <1>23 DEF HealthPrefetch
  <2>7. IdsFresh' /\ RowIsHead'
    BY <1>23, <2>5 DEF HealthPrefetch, IdsFresh, RowIsHead, PageDone
  <2> QED
    BY <1>q, <2>4, <2>5, <2>6, <2>7
<1>24. CASE HealthWrite
  <2>1. PICK p \in Prep : scan = <<p>>
    BY <1>0, <1>24 DEF HealthWrite
  <2>2. Head(scan) = p
    BY <2>1
  <2>3. Write(p)
    BY <1>24, <2>2 DEF HealthWrite
  <2>4. Tables'
    BY <1>0, <1>24, <2>3, Written DEF HealthWrite
  <2>5. owed' \subseteq owed
    BY <1>24 DEF HealthWrite
  <2>6. Backend' /\ Queue' /\ Job' /\ Scanning' /\ History'
    BY <1>0, <1>24, <2>5 DEF HealthWrite
  <2>7. IdsFresh' /\ RowIsHead'
    BY <1>24 DEF HealthWrite, IdsFresh, RowIsHead, PageDone
  <2> QED
    BY <1>q, <2>4, <2>6, <2>7
<1>25. CASE DerivedCrash
  <2>1. History' /\ used'.last = used.last
    BY <1>0, <1>25 DEF DerivedCrash, Fault
  <2>2. Tables' /\ Backend' /\ Queue' /\ Job' /\ Scanning'
    BY <1>0, <1>25, <1>r DEF DerivedCrash, Labels
  <2>3. IdsFresh' /\ RowIsHead'
    BY <1>25, <1>r, <2>1 DEF DerivedCrash, IdsFresh, RowIsHead
  <2> QED
    BY <1>q, <2>1, <2>2, <2>3
<1> QED
  BY <1>1, <1>2, <1>3, <1>4, <1>5, <1>6, <1>7, <1>8, <1>9, <1>10, <1>11, <1>12, <1>13, <1>14, <1>15, <1>16, <1>17,
     <1>18, <1>19, <1>20, <1>21, <1>22, <1>23, <1>24, <1>25 DEF DerivedNext

----------------------------------------------------------------------------
(* Derived sets follow their record's text                                 *)

\* A write of a prepared set keeps every set of its record's text: the record is read
\* again under the write lock, and a text that has moved on refuses it.
LEMMA WriteFollows ==
    ASSUME DerivedTypeOK, DerivedFollowText, NEW p \in Prep, Write(p), docs' = docs
    PROVE  DerivedFollowText'
<1> SUFFICES ASSUME NEW i \in DIds
             PROVE  /\ nodeSet'[i] # Nothing_ => docs[i] # Nothing_ /\ nodeSet'[i].of = docs[i].text
                    /\ blockSet'[i] # Nothing_ => /\ docs[i] # Nothing_ /\ blockSet'[i].of = docs[i].text
                                                  /\ blockSet'[i].chan = docs[i].chan
  BY DEF DerivedFollowText
<1>1. /\ nodeSet[i] # Nothing_ => docs[i] # Nothing_ /\ nodeSet[i].of = docs[i].text
      /\ blockSet[i] # Nothing_ => /\ docs[i] # Nothing_ /\ blockSet[i].of = docs[i].text
                                   /\ blockSet[i].chan = docs[i].chan
  BY DEF DerivedFollowText
<1>2. CASE i # p.id
  BY <1>1, <1>2, Written
<1>3. CASE i = p.id
  <2>1. nodeSet'[i] = nodeSet[i] \/ (docs[i] # Nothing_ /\ docs[i].text = p.of /\ nodeSet'[i].of = p.of)
    BY <1>3, Written
  <2>2. p.type = "nodes" \/ p.type = "blocks"
    BY DEF Prep
  <2>3. \/ blockSet'[i] = blockSet[i]
        \/ docs[i] # Nothing_ /\ docs[i].text = p.of /\ blockSet'[i].of = p.of /\ blockSet'[i].chan = docs[i].chan
    BY <1>3, <2>2, Written
  <2> QED
    BY <1>1, <2>1, <2>3
<1> QED
  BY <1>2, <1>3

\* Every step keeps it.
LEMMA FollowStep == Sound /\ DerivedFollowText /\ [DerivedNext]_derivedVars => DerivedFollowText'
<1> SUFFICES ASSUME DerivedTypeOK, IdsFresh, RowIsHead, DerivedFollowText, [DerivedNext]_derivedVars
             PROVE  DerivedFollowText'
  BY DEF Sound
<1>u. ASSUME UNCHANGED <<docs, nodeSet, blockSet>> PROVE DerivedFollowText'
  BY <1>u DEF DerivedFollowText
<1>t. docs \in [DIds -> Doc \cup {Nothing_}] /\ nodeSet \in [DIds -> NodeSet \cup {Nothing_}]
      /\ blockSet \in [DIds -> BlockSet \cup {Nothing_}] /\ used.last \in Nat
  BY DEF DerivedTypeOK
<1>1. CASE UNCHANGED derivedVars
  BY <1>1, <1>u DEF derivedVars
<1>2. CASE OpenCorpusWithoutSets
  <2>1. \A i \in DIds : docs[i] = Nothing_
    BY <1>2, NumbersOfRecords DEF OpenCorpusWithoutSets, IdsFresh
  <2>2. \A i \in DIds : nodeSet[i] = Nothing_ /\ blockSet[i] = Nothing_
    BY <2>1 DEF DerivedFollowText
  <2> QED
    BY <1>2, <2>2 DEF OpenCorpusWithoutSets, DerivedFollowText
<1>3. ASSUME NEW i \in DIds, NEW t \in DTexts, NEW c \in DChans, StoreDoc(i, t, c)
      PROVE  DerivedFollowText'
  <2>1. i = used.last + 1 /\ nodeSet' = nodeSet /\ blockSet' = blockSet /\ \A j \in DIds : j # i => docs'[j] = docs[j]
    BY <1>3, <1>t DEF StoreDoc
  <2>2. docs[i] = Nothing_
    BY <1>t, <2>1 DEF IdsFresh
  <2>3. nodeSet[i] = Nothing_ /\ blockSet[i] = Nothing_
    BY <2>2 DEF DerivedFollowText
  <2> QED
    BY <2>1, <2>3 DEF DerivedFollowText
<1>4. ASSUME NEW i \in DIds, NEW t \in DTexts, EditDoc(i, t)
      PROVE  DerivedFollowText'
  <2>1. nodeSet'[i] = Nothing_ /\ blockSet'[i] = Nothing_
    BY <1>4, <1>t DEF EditDoc
  <2>2. \A j \in DIds : j # i => docs'[j] = docs[j] /\ nodeSet'[j] = nodeSet[j] /\ blockSet'[j] = blockSet[j]
    BY <1>4, <1>t DEF EditDoc
  <2> QED
    BY <2>1, <2>2 DEF DerivedFollowText
<1>5. ASSUME NEW i \in DIds, DeleteDoc(i)
      PROVE  DerivedFollowText'
  <2>1. nodeSet'[i] = Nothing_ /\ blockSet'[i] = Nothing_
    BY <1>5, <1>t DEF DeleteDoc
  <2>2. \A j \in DIds : j # i => docs'[j] = docs[j] /\ nodeSet'[j] = nodeSet[j] /\ blockSet'[j] = blockSet[j]
    BY <1>5, <1>t DEF DeleteDoc
  <2> QED
    BY <2>1, <2>2 DEF DerivedFollowText
<1>6. ASSUME NEW i \in DIds, NEW c \in DChans, RechannelDoc(i, c)
      PROVE  DerivedFollowText'
  <2> DEFINE d == [docs[i] EXCEPT !.chan = c]
             b == [blockSet[i] EXCEPT !.chan = c]
  <2>1. docs[i] \in Doc
    BY <1>6, <1>t DEF RechannelDoc
  <2>2. d \in Doc /\ d.text = docs[i].text /\ d.chan = c
    BY <2>1 DEF Doc
  <2>3. docs' = [docs EXCEPT ![i] = d] /\ blockSet' = [blockSet EXCEPT ![i] = IF blockSet[i] = Nothing_ THEN blockSet[i] ELSE b]
    BY <1>6 DEF RechannelDoc
  <2>4. blockSet[i] # Nothing_ => b.of = blockSet[i].of /\ b.chan = c
    <3>1. blockSet[i] # Nothing_ => blockSet[i] \in BlockSet
      BY <1>t
    <3> QED
      BY <3>1 DEF BlockSet
  <2>5. d # Nothing_
    BY <2>2, NothingAssumption
  <2> HIDE DEF d, b
  <2>6. docs'[i] = d /\ nodeSet' = nodeSet /\ \A j \in DIds : j # i => docs'[j] = docs[j] /\ blockSet'[j] = blockSet[j]
    BY <1>6, <1>t, <2>3 DEF RechannelDoc
  <2>a. blockSet'[i] = IF blockSet[i] = Nothing_ THEN blockSet[i] ELSE b
    BY <1>t, <2>3
  <2>7. \/ blockSet[i] = Nothing_ /\ blockSet'[i] = Nothing_
        \/ blockSet[i] # Nothing_ /\ blockSet'[i] = b
    BY <2>a
  <2> QED
    BY <2>2, <2>4, <2>5, <2>6, <2>7 DEF DerivedFollowText
<1>7. CASE WriteBuild
  <2>1. job \in Writing
    BY <1>7, JobShape DEF WriteBuild
  <2>2. job.set \in Prep
    BY <2>1 DEF Writing
  <2> QED
    BY <1>7, <2>2, WriteFollows DEF WriteBuild
<1>8. CASE SweepWrite
  <2>1. job \in Sweeping /\ ~PageDone
    BY <1>8, JobShape DEF SweepWrite, RowIsHead
  <2>2. NextDoc \in DIds /\ job.page.text[NextDoc] \in DTexts
    BY <2>1, NextInPage
  <2>3. job.page.ends[NextDoc] \in Ends
    BY <2>1, <2>2 DEF Sweeping, Page
  <2> DEFINE p == Prepared("blocks", NextDoc, job.page.text[NextDoc], job.page.ends[NextDoc])
  <2>4. p \in Prep
    BY <2>2, <2>3, ReadTypes
  <2>5. Write(p) /\ docs' = docs
    BY <1>8 DEF SweepWrite
  <2> HIDE DEF p
  <2> QED
    BY <2>4, <2>5, WriteFollows
<1>9. CASE HealthWrite
  <2>1. PICK p \in Prep : scan = <<p>>
    BY <1>9 DEF HealthWrite, DerivedTypeOK
  <2>2. Head(scan) = p
    BY <2>1
  <2>3. Write(p) /\ docs' = docs
    BY <1>9, <2>2 DEF HealthWrite
  <2> QED
    BY <2>3, WriteFollows
<1>10. CASE \/ RefreshMeanwhile \/ TakeBuild \/ EmbedBuild \/ EmbedFails \/ QueueSweep \/ TakeSweep \/ SweepRecord
            \/ SweepFails \/ SweepStops \/ SweepLost \/ SweepRowDeleted \/ SweepEnds \/ SweepRaises \/ DerivedCrash
            \/ \E m \in Models : SwitchBackend(m)
            \/ \E type \in {"nodes", "blocks"} : HealthPrefetch(type)
  BY <1>10, <1>u DEF RefreshMeanwhile, TakeBuild, EmbedBuild, EmbedFails, QueueSweep, TakeSweep, SweepRecord, SweepFails,
     SweepStops, SweepLost, SweepRowDeleted, SweepEnds, SweepRaises, DerivedCrash, SwitchBackend, HealthPrefetch
<1> QED
  BY <1>1, <1>2, <1>3, <1>4, <1>5, <1>6, <1>7, <1>8, <1>9, <1>10 DEF DerivedNext

\* Types, the freshness of ids and the drain's hold on the head of the queue, for any
\* corpus, any models and any faults.
THEOREM LayersAreSound == DerivedSpec => []Sound
<1> QED
  BY SoundInit, SoundStep, PTL DEF DerivedSpec

\* A set of nodes or blocks is always a set of the text its record holds now, filed under
\* its channel, whatever is edited, moved or deleted while the embedder is awaited
\* (write_nodes, write_blocks and the schema's triggers).
THEOREM SetsFollowText == DerivedSpec => []DerivedFollowText
<1>1. DerivedInit => DerivedFollowText
  BY DEF DerivedInit, DerivedFollowText
<1> QED
  BY <1>1, SoundInit, SoundStep, FollowStep, PTL DEF DerivedSpec

----------------------------------------------------------------------------
(* The sweep                                                               *)

\* The queue's tasks, and what they do to a sweep that waits among them: builds that join
\* leave it where it is, a sweep that joins has its cursor before the record, and the head
\* that is taken away is not a sweep.
LEMMA QueuedSweeps ==
    ASSUME NEW s \in Seq(BuildTask \cup SweepTask), NEW i \in DIds
    PROVE  /\ \A j \in DIds : SweepAhead(s, i) => SweepAhead(s \o BuildsFor(j), i)
           /\ \A c \in {0} \cup DIds :
                 c < i /\ (\A k \in DOMAIN s : s[k].type = "sweep" => s[k].id < i) => SweepAhead(Append(s, Task("sweep", c)), i)
           /\ s # <<>> => /\ SweepAhead(s, i) /\ Head(s).type # "sweep" => SweepAhead(Tail(s), i)
                          /\ SweepAhead(s, i) => \A k \in DOMAIN Tail(s) : Tail(s)[k].type = "sweep" => Tail(s)[k].id < i
                          /\ SweepAhead(s, i) /\ Head(s).type = "sweep" => Head(s).id < i
                          /\ \A j \in DIds : Tail(s \o BuildsFor(j)) = Tail(s) \o BuildsFor(j)
                          /\ \A t : Tail(Append(s, t)) = Append(Tail(s), t)
<1> DEFINE T == BuildTask \cup SweepTask
<1>1. ASSUME NEW j \in DIds, SweepAhead(s, i)
      PROVE  SweepAhead(s \o BuildsFor(j), i)
  <2> DEFINE b == BuildsFor(j)
             u == s \o b
  <2>1. b \in Seq(T) /\ Len(b) = 2 /\ b[1].type # "sweep" /\ b[2].type # "sweep"
    BY DEF BuildsFor, Task, BuildTask
  <2> HIDE DEF b, T
  <2>a. s \in Seq(T)
    BY DEF T
  <2>b. /\ u \in Seq(T) /\ Len(u) = Len(s) + Len(b)
        /\ \A k \in 1..Len(s) + Len(b) : u[k] = IF k <= Len(s) THEN s[k] ELSE b[k - Len(s)]
    BY <2>1, <2>a, ConcatProperties
  <2> HIDE DEF u
  <2>2. /\ Len(u) = Len(s) + 2 /\ DOMAIN u = 1..Len(u) /\ DOMAIN s = 1..Len(s) /\ Len(s) \in Nat
        /\ \A k \in 1..Len(u) : u[k] = IF k <= Len(s) THEN s[k] ELSE b[k - Len(s)]
    BY <2>1, <2>a, <2>b
  <2> HIDE DEF u
  <2>3. \A k \in DOMAIN u : (k \in DOMAIN s /\ u[k] = s[k]) \/ u[k] = b[1] \/ u[k] = b[2]
    BY <2>2
  <2>4. \A k \in DOMAIN s : k \in DOMAIN u /\ u[k] = s[k]
    BY <2>2
  <2>5. SweepAhead(u, i)
    BY <1>1, <2>1, <2>3, <2>4 DEF SweepAhead
  <2> QED
    BY <2>5 DEF u, b
<1>2. ASSUME NEW c \in {0} \cup DIds, c < i, \A k \in DOMAIN s : s[k].type = "sweep" => s[k].id < i
      PROVE  SweepAhead(Append(s, Task("sweep", c)), i)
  <2> DEFINE t == Task("sweep", c)
             u == Append(s, t)
  <2>1. t.type = "sweep" /\ t.id = c
    BY DEF Task
  <2> HIDE DEF t
  <2>2. /\ DOMAIN u = 1..Len(s) + 1 /\ DOMAIN s = 1..Len(s) /\ Len(s) \in Nat
        /\ u[Len(s) + 1] = t /\ \A k \in 1..Len(s) : u[k] = s[k]
    OBVIOUS
  <2> HIDE DEF u
  <2>3. \A k \in DOMAIN u : (k \in DOMAIN s /\ u[k] = s[k]) \/ u[k] = t
    BY <2>2
  <2>4. \E k \in DOMAIN u : u[k] = t
    BY <2>2
  <2>5. SweepAhead(u, i)
    BY <1>2, <2>1, <2>3, <2>4 DEF SweepAhead
  <2> QED
    BY <2>5 DEF u, t
<1>3. ASSUME s # <<>>
      PROVE  /\ SweepAhead(s, i) /\ Head(s).type # "sweep" => SweepAhead(Tail(s), i)
             /\ SweepAhead(s, i) => \A k \in DOMAIN Tail(s) : Tail(s)[k].type = "sweep" => Tail(s)[k].id < i
             /\ SweepAhead(s, i) /\ Head(s).type = "sweep" => Head(s).id < i
  <2> DEFINE u == Tail(s)
  <2>1. /\ DOMAIN u = 1..Len(s) - 1 /\ DOMAIN s = 1..Len(s) /\ Len(s) \in Nat /\ Len(s) > 0
        /\ Head(s) = s[1] /\ \A k \in 1..Len(s) - 1 : u[k] = s[k + 1]
    BY <1>3
  <2> HIDE DEF u
  <2>2. \A k \in DOMAIN u : k + 1 \in DOMAIN s /\ u[k] = s[k + 1]
    BY <2>1
  <2>3. \A k \in DOMAIN s : s[k] = Head(s) \/ \E l \in DOMAIN u : u[l] = s[k]
    <3> SUFFICES ASSUME NEW k \in DOMAIN s, k # 1 PROVE k - 1 \in DOMAIN u /\ u[k - 1] = s[k]
      BY <2>1
    <3> QED
      BY <2>1
  <2>4. 1 \in DOMAIN s
    BY <2>1
  <2>5. SweepAhead(s, i) => \A k \in DOMAIN u : u[k].type = "sweep" => u[k].id < i
    BY <2>2 DEF SweepAhead
  <2>6. SweepAhead(s, i) /\ Head(s).type # "sweep" => SweepAhead(u, i)
    BY <2>3, <2>5 DEF SweepAhead
  <2> QED
    BY <2>1, <2>4, <2>5, <2>6 DEF u, SweepAhead
<1>4. ASSUME s # <<>>, NEW j \in DIds
      PROVE  Tail(s \o BuildsFor(j)) = Tail(s) \o BuildsFor(j)
  <2> DEFINE b == BuildsFor(j)
  <2>1. b \in Seq(T)
    BY DEF BuildsFor, Task, BuildTask
  <2> HIDE DEF b, T
  <2>2. Tail(s \o b) = Tail(s) \o b
    BY <1>4, <2>1 DEF T
  <2> QED
    BY <2>2 DEF b
<1>5. ASSUME s # <<>>, NEW t
      PROVE  Tail(Append(s, t)) = Append(Tail(s), t)
  BY <1>5
<1> QED
  BY <1>1, <1>2, <1>3, <1>4, <1>5

\* Whether a record's blocks are current depends on its own sets and on the identity known.
LEMMA CurrentKept ==
    ASSUME NEW i \in DIds, nodeSet'[i] = nodeSet[i], blockSet'[i] = blockSet[i], known' = known
    PROVE  (BlocksUpToDate(i)' <=> BlocksUpToDate(i)) /\ AllEnds'[i] = AllEnds[i]
BY DEF BlocksUpToDate, BlocksCurrentIn, AllEnds, Keys, EndsOf

\* A block set written as the record is to be built is current, and no other record's
\* blocks change.
LEMMA CurrentWritten ==
    ASSUME DerivedTypeOK, NEW p \in Prep, Write(p), known' = known, NEW i \in DIds,
           i = p.id => p.type = "blocks" /\ p.ends = AllEnds[i] /\ p.label \in Keys
    PROVE  /\ BlocksUpToDate(i) => BlocksUpToDate(i)'
           /\ i = p.id /\ Writable(p) => BlocksUpToDate(i)'
           /\ nodeSet'[i] = nodeSet[i]
<1>1. CASE i # p.id
  BY <1>1, Written, CurrentKept
<1>2. CASE i = p.id /\ ~Writable(p)
  <2>1. nodeSet'[i] = nodeSet[i] /\ blockSet'[i] = blockSet[i]
    BY <1>2, Written
  <2> QED
    BY <1>2, <2>1, CurrentKept
<1>3. CASE i = p.id /\ Writable(p)
  <2>1. nodeSet' = nodeSet /\ blockSet'[i] # Nothing_ /\ blockSet'[i].label = p.label /\ blockSet'[i].ends = p.ends
    BY <1>3, Written
  <2>2. p.ends = AllEnds[i] /\ p.label \in Keys
    BY <1>3
  <2>3. AllEnds' = AllEnds /\ Keys' = Keys
    BY <2>1 DEF AllEnds, Keys, EndsOf
  <2> QED
    BY <2>1, <2>2, <2>3 DEF BlocksUpToDate, BlocksCurrentIn
<1> QED
  BY <1>1, <1>2, <1>3

\* With nothing to answer for there is nothing to show.
LEMMA NothingOwed == owed' = {} => SweepInv'
BY DEF SweepInv, OwedInQueue, OwedInSweep, OwedAfterSweep, OwedInBuild

\* Where no task is in the drain's hands, the queue says it all.
LEMMA OwedAtRest == ASSUME job'.pc = "idle", OwedInQueue' PROVE SweepInv'
BY DEF SweepInv, OwedInSweep, OwedAfterSweep, OwedInBuild

\* A step beside the drain: what is still answered for kept its text, its nodes and, if
\* they were current, its blocks.
LEMMA OwedBeside ==
    ASSUME Sound, SweepInv, job' = job, known' = known, owed' \subseteq owed,
           todo' = todo \/ \E j \in DIds : todo' = todo \o BuildsFor(j),
           \A i \in owed' : /\ i \in Docs' /\ docs'[i].text = docs[i].text /\ nodeSet'[i] = nodeSet[i]
                            /\ BlocksUpToDate(i) => BlocksUpToDate(i)'
    PROVE  SweepInv'
<1>1. owed \subseteq DIds /\ todo \in Seq(BuildTask \cup SweepTask)
  BY DEF Sound, DerivedTypeOK
<1>2. \A i \in owed' : i \in owed /\ i \in DIds
  BY <1>1
<1>3. \A i \in owed' : SweepAhead(todo, i) => SweepAhead(todo', i)
  BY <1>1, <1>2, QueuedSweeps
<1>4. OwedInQueue'
  BY <1>2, <1>3 DEF SweepInv, OwedInQueue
<1>5. OwedInSweep'
  <2> SUFFICES ASSUME job.pc \in {"sweep", "sweep_write"}, NEW i \in owed'
               PROVE  /\ job.page.text[i] = docs'[i].text
                      /\ BlocksUpToDate(i)' \/ (i > job.cursor /\ Due(i))
    BY DEF OwedInSweep, Due
  <2> QED
    BY <1>2 DEF SweepInv, OwedInSweep
<1>6. OwedAfterSweep'
  <2> SUFFICES ASSUME job.pc = "swept", NEW i \in owed'
               PROVE  BlocksUpToDate(i)' \/ SweepAhead(Tail(todo'), i)
    BY DEF OwedAfterSweep
  <2>1. BlocksUpToDate(i) \/ SweepAhead(Tail(todo), i)
    BY <1>2 DEF SweepInv, OwedAfterSweep
  <2>2. todo # <<>>
    BY DEF Sound, RowIsHead
  <2>3. Tail(todo) \in Seq(BuildTask \cup SweepTask)
    BY <1>1, <2>2
  <2>4. SweepAhead(Tail(todo), i) => SweepAhead(Tail(todo'), i)
    <3>1. CASE todo' = todo
      BY <3>1
    <3>2. ASSUME NEW j \in DIds, todo' = todo \o BuildsFor(j)
          PROVE  SweepAhead(Tail(todo), i) => SweepAhead(Tail(todo'), i)
      <4>1. Tail(todo') = Tail(todo) \o BuildsFor(j)
        BY <1>1, <1>2, <2>2, <3>2, QueuedSweeps
      <4> QED
        BY <1>2, <2>3, <4>1, QueuedSweeps
    <3> QED
      BY <3>1, <3>2
  <2> QED
    BY <2>1, <2>4
<1>7. OwedInBuild'
  <2>1. \A i \in owed' : AllEnds'[i] = AllEnds[i]
    BY <1>2 DEF AllEnds, EndsOf
  <2> QED
    BY <1>2, <2>1 DEF SweepInv, OwedInBuild
<1> QED
  BY <1>4, <1>5, <1>6, <1>7 DEF SweepInv

\* What the corpus' changes, the backend and the repair do to the records answered for:
\* each is beside the drain.
LEMMA CorpusSweepStep ==
    ASSUME Sound, SweepInv,
           \/ OpenCorpusWithoutSets \/ RefreshMeanwhile \/ HealthWrite
           \/ \E i \in DIds : \/ \E t \in DTexts, c \in DChans : StoreDoc(i, t, c)
                              \/ \E t \in DTexts : EditDoc(i, t)
                              \/ \E c \in DChans : RechannelDoc(i, c)
                              \/ DeleteDoc(i)
           \/ \E m \in Models : SwitchBackend(m)
           \/ \E type \in {"nodes", "blocks"} : HealthPrefetch(type)
    PROVE  SweepInv'
<1>t. /\ docs \in [DIds -> Doc \cup {Nothing_}] /\ nodeSet \in [DIds -> NodeSet \cup {Nothing_}]
      /\ blockSet \in [DIds -> BlockSet \cup {Nothing_}] /\ used.last \in Nat
  BY DEF Sound, DerivedTypeOK
<1>o. owed \subseteq Docs /\ \A i \in owed : i \in DIds /\ docs[i] # Nothing_ /\ docs[i].text \in DTexts
  BY ReadTypes DEF Sound, SweepInv, OwedInQueue, Docs
<1>1. CASE OpenCorpusWithoutSets
  <2>1. \A i \in DIds : docs[i] = Nothing_
    BY <1>1, NumbersOfRecords DEF OpenCorpusWithoutSets, IdsFresh, Sound
  <2>2. owed' = {}
    BY <1>1, <1>o, <2>1 DEF OpenCorpusWithoutSets
  <2> QED
    BY <2>2, NothingOwed
<1>2. ASSUME NEW i \in DIds, NEW t \in DTexts, NEW c \in DChans, StoreDoc(i, t, c)
      PROVE  SweepInv'
  <2>1. i = used.last + 1 /\ \A j \in DIds : j # i => docs'[j] = docs[j]
    BY <1>2, <1>t DEF StoreDoc
  <2>2. docs[i] = Nothing_
    BY <1>t, <2>1 DEF IdsFresh, Sound
  <2>3. \A j \in owed : j \in Docs' /\ docs'[j].text = docs[j].text
    BY <1>o, <2>1, <2>2 DEF Docs
  <2>4. UNCHANGED <<nodeSet, blockSet, known, job, owed>> /\ todo' = todo \o BuildsFor(i)
    BY <1>2 DEF StoreDoc
  <2>5. \A j \in owed : BlocksUpToDate(j) => BlocksUpToDate(j)'
    BY <1>o, <2>4, CurrentKept
  <2> QED
    BY <2>3, <2>4, <2>5, OwedBeside
<1>3. ASSUME NEW i \in DIds, NEW t \in DTexts, EditDoc(i, t)
      PROVE  SweepInv'
  <2>1. UNCHANGED <<known, job>> /\ owed' = owed \ {i} /\ todo' = todo \o BuildsFor(i)
    BY <1>3 DEF EditDoc
  <2>2. \A j \in DIds : j # i => docs'[j] = docs[j] /\ nodeSet'[j] = nodeSet[j] /\ blockSet'[j] = blockSet[j]
    BY <1>3, <1>t DEF EditDoc
  <2>3. \A j \in owed' : j \in Docs' /\ docs'[j].text = docs[j].text /\ nodeSet'[j] = nodeSet[j]
    BY <1>o, <2>1, <2>2 DEF Docs
  <2>4. \A j \in owed' : BlocksUpToDate(j) => BlocksUpToDate(j)'
    BY <1>o, <2>1, <2>2, CurrentKept
  <2> QED
    BY <2>1, <2>3, <2>4, OwedBeside
<1>4. ASSUME NEW i \in DIds, DeleteDoc(i)
      PROVE  SweepInv'
  <2>1. UNCHANGED <<known, job>> /\ owed' = owed \ {i} /\ todo' = todo
    BY <1>4 DEF DeleteDoc
  <2>2. \A j \in DIds : j # i => docs'[j] = docs[j] /\ nodeSet'[j] = nodeSet[j] /\ blockSet'[j] = blockSet[j]
    BY <1>4, <1>t DEF DeleteDoc
  <2>3. \A j \in owed' : j \in Docs' /\ docs'[j].text = docs[j].text /\ nodeSet'[j] = nodeSet[j]
    BY <1>o, <2>1, <2>2 DEF Docs
  <2>4. \A j \in owed' : BlocksUpToDate(j) => BlocksUpToDate(j)'
    BY <1>o, <2>1, <2>2, CurrentKept
  <2> QED
    BY <2>1, <2>3, <2>4, OwedBeside
<1>5. ASSUME NEW i \in DIds, NEW c \in DChans, RechannelDoc(i, c)
      PROVE  SweepInv'
  <2> DEFINE d == [docs[i] EXCEPT !.chan = c]
             b == [blockSet[i] EXCEPT !.chan = c]
  <2>1. docs[i] \in Doc
    BY <1>5, <1>t DEF RechannelDoc
  <2>2. d # Nothing_ /\ d.text = docs[i].text
    <3>1. d \in Doc
      BY <2>1 DEF Doc
    <3> QED
      BY <2>1, <3>1, NothingAssumption DEF Doc
  <2>3. blockSet[i] # Nothing_ => b # Nothing_ /\ b.label = blockSet[i].label /\ b.ends = blockSet[i].ends
    <3>1. blockSet[i] # Nothing_ => blockSet[i] \in BlockSet
      BY <1>t
    <3>2. blockSet[i] # Nothing_ => b \in BlockSet
      BY <3>1 DEF BlockSet
    <3> QED
      BY <3>1, <3>2, NothingAssumption DEF BlockSet
  <2>4. docs' = [docs EXCEPT ![i] = d] /\ blockSet' = [blockSet EXCEPT ![i] = IF blockSet[i] = Nothing_ THEN blockSet[i] ELSE b]
    BY <1>5 DEF RechannelDoc
  <2> HIDE DEF d, b
  <2>5. docs'[i] = d /\ \A j \in DIds : j # i => docs'[j] = docs[j] /\ blockSet'[j] = blockSet[j]
    BY <1>t, <2>4
  <2>6. blockSet'[i] = IF blockSet[i] = Nothing_ THEN blockSet[i] ELSE b
    BY <1>t, <2>4
  <2>7. UNCHANGED <<nodeSet, known, job, owed, todo>>
    BY <1>5 DEF RechannelDoc
  <2>8. \A j \in owed : j \in Docs' /\ docs'[j].text = docs[j].text
    BY <1>o, <2>2, <2>5 DEF Docs
  <2>9. \A j \in owed : BlocksUpToDate(j) => BlocksUpToDate(j)'
    <3> SUFFICES ASSUME NEW j \in owed, BlocksUpToDate(j) PROVE BlocksUpToDate(j)'
      OBVIOUS
    <3>1. CASE j # i
      BY <1>o, <2>5, <2>7, <3>1, CurrentKept
    <3>2. CASE j = i
      <4>1. blockSet'[j] # Nothing_ /\ blockSet'[j].label = blockSet[j].label /\ blockSet'[j].ends = blockSet[j].ends
        BY <2>3, <2>6, <3>2 DEF BlocksUpToDate, BlocksCurrentIn
      <4>2. AllEnds' = AllEnds /\ Keys' = Keys
        BY <2>7 DEF AllEnds, Keys, EndsOf
      <4> QED
        BY <4>1, <4>2 DEF BlocksUpToDate, BlocksCurrentIn
    <3> QED
      BY <3>1, <3>2
  <2> QED
    BY <2>7, <2>8, <2>9, OwedBeside
<1>6. CASE \/ \E m \in Models : SwitchBackend(m)
           \/ \E type \in {"nodes", "blocks"} : HealthPrefetch(type)
  <2>1. UNCHANGED <<docs, nodeSet, blockSet, known, job, owed, todo>>
    BY <1>6 DEF SwitchBackend, HealthPrefetch
  <2>2. \A j \in owed : j \in Docs' /\ (BlocksUpToDate(j) => BlocksUpToDate(j)')
    BY <1>o, <2>1, CurrentKept DEF Docs
  <2> QED
    BY <2>1, <2>2, OwedBeside
<1>7. CASE RefreshMeanwhile
  BY <1>7, NothingOwed DEF RefreshMeanwhile
<1>8. CASE HealthWrite
  <2>1. PICK p \in Prep : scan = <<p>>
    BY <1>8 DEF HealthWrite, Sound, DerivedTypeOK
  <2>2. Head(scan) = p
    BY <2>1
  <2>3. /\ Write(p) /\ UNCHANGED <<docs, known, job, todo>>
        /\ owed' = IF p.type = "nodes" \/ AllEnds[p.id] # p.ends \/ p.label \notin Keys THEN owed \ {p.id} ELSE owed
    BY <1>8, <2>2 DEF HealthWrite
  <2>4. p.type = "nodes" \/ p.type = "blocks"
    BY DEF Prep
  <2>5. \A j \in owed' : j \in owed /\ (j = p.id => p.type = "blocks" /\ p.ends = AllEnds[j] /\ p.label \in Keys)
    BY <2>3, <2>4
  <2>6. \A j \in owed' : nodeSet'[j] = nodeSet[j] /\ (BlocksUpToDate(j) => BlocksUpToDate(j)')
    BY <1>o, <2>3, <2>5, CurrentWritten DEF Sound
  <2>7. \A j \in owed' : j \in Docs'
    BY <1>o, <2>3, <2>5 DEF Docs
  <2> QED
    BY <2>3, <2>5, <2>6, <2>7, OwedBeside
<1> QED
  BY <1>1, <1>2, <1>3, <1>4, <1>5, <1>6, <1>7, <1>8

\* Every step keeps what is answered for.
LEMMA SweepStep == Sound /\ SweepInv /\ [DerivedNext]_derivedVars => SweepInv'
<1> SUFFICES ASSUME Sound, SweepInv, [DerivedNext]_derivedVars PROVE SweepInv'
  OBVIOUS
<1>t. DerivedTypeOK /\ owed \subseteq DIds /\ todo \in Seq(BuildTask \cup SweepTask)
  BY DEF Sound, DerivedTypeOK
<1>o. owed \subseteq Docs /\ \A i \in owed : i \in DIds /\ docs[i] # Nothing_ /\ docs[i].text \in DTexts /\ docs[i].text # Nothing_
  BY <1>t, ReadTypes, NothingAssumption DEF SweepInv, OwedInQueue, Docs
<1>q. \A i \in owed : BlocksUpToDate(i) \/ SweepAhead(todo, i)
  BY DEF SweepInv, OwedInQueue
<1>j. NoJob.pc = "idle" /\ job.pc \in {"idle", "embed", "write", "sweep", "sweep_write", "swept"}
  BY <1>t, JobShape DEF NoJob
<1>s. /\ \A i \in owed : todo # <<>> /\ Head(todo).type # "sweep" /\ SweepAhead(todo, i) => SweepAhead(Tail(todo), i)
      /\ \A i \in owed : todo # <<>> /\ Head(todo).type = "sweep" /\ SweepAhead(todo, i) => Head(todo).id < i
  BY <1>t, QueuedSweeps
<1>d. docs' = docs => Docs' = Docs
  BY DEF Docs
<1>k. ASSUME UNCHANGED <<nodeSet, blockSet, known>> PROVE \A i \in DIds : BlocksUpToDate(i)' <=> BlocksUpToDate(i)
  BY <1>k, CurrentKept
<1>1. CASE UNCHANGED derivedVars
  <2>1. UNCHANGED <<docs, nodeSet, blockSet, known, job, owed, todo>>
    BY <1>1 DEF derivedVars
  <2> QED
    BY <1>d, <1>k, <1>o, <2>1, OwedBeside
<1>2. CASE \/ OpenCorpusWithoutSets \/ RefreshMeanwhile \/ HealthWrite
           \/ \E i \in DIds : \/ \E t \in DTexts, c \in DChans : StoreDoc(i, t, c)
                              \/ \E t \in DTexts : EditDoc(i, t)
                              \/ \E c \in DChans : RechannelDoc(i, c)
                              \/ DeleteDoc(i)
           \/ \E m \in Models : SwitchBackend(m)
           \/ \E type \in {"nodes", "blocks"} : HealthPrefetch(type)
  BY <1>2, CorpusSweepStep
<1>3. CASE TakeBuild
  <2>1. /\ todo # <<>> /\ Head(todo).type # "sweep" /\ job = NoJob /\ UNCHANGED <<docs, nodeSet, blockSet>>
        /\ owed' = {} \/ (known' = known /\ owed' = owed)
    BY <1>3 DEF TakeBuild
  <2> DEFINE t == Head(todo)
             e == [pc |-> "embed", type |-> t.type, id |-> t.id, text |-> docs[t.id].text, ends |-> AllEnds[t.id]]
  <2>2. (todo' = Tail(todo) /\ job' = job) \/ (job' = e /\ todo' = todo)
    BY <1>3 DEF TakeBuild
  <2>3. CASE owed' = {}
    BY <2>3, NothingOwed
  <2>4. CASE known' = known /\ owed' = owed
    <3>1. OwedInQueue'
      BY <1>d, <1>k, <1>o, <1>q, <1>s, <2>1, <2>2, <2>4 DEF OwedInQueue
    <3>2. CASE job' = job
      BY <1>j, <2>1, <3>1, <3>2, OwedAtRest
    <3>3. CASE job' = e
      <4>1. job'.pc = "embed" /\ job'.id = t.id /\ job'.ends = AllEnds[t.id]
        BY <3>3
      <4>2. AllEnds' = AllEnds
        BY <2>1 DEF AllEnds, EndsOf
      <4>3. OwedInBuild'
        BY <4>1, <4>2 DEF OwedInBuild
      <4> QED
        BY <3>1, <4>1, <4>3 DEF SweepInv, OwedInSweep, OwedAfterSweep
    <3> QED
      BY <2>2, <3>2, <3>3
  <2> QED
    BY <2>1, <2>3, <2>4
<1>4. CASE EmbedBuild
  <2>1. UNCHANGED <<docs, nodeSet, blockSet, known, todo, owed>> /\ job.pc = "embed"
    BY <1>4 DEF EmbedBuild
  <2>2. /\ job'.pc = "write" /\ job'.set.type = job.type /\ job'.set.id = job.id /\ job'.set.ends = job.ends
        /\ job'.set.label = known
    BY <1>4 DEF EmbedBuild, Prepared, Label
  <2>3. AllEnds' = AllEnds
    BY <2>1 DEF AllEnds, EndsOf
  <2>4. OwedInBuild'
    BY <2>1, <2>2, <2>3 DEF SweepInv, OwedInBuild
  <2>5. OwedInQueue'
    BY <1>d, <1>k, <1>o, <1>q, <2>1 DEF OwedInQueue
  <2> QED
    BY <2>2, <2>4, <2>5 DEF SweepInv, OwedInSweep, OwedAfterSweep
<1>5. CASE EmbedFails
  <2>1. UNCHANGED <<docs, nodeSet, blockSet, known, owed>> /\ todo' \in {todo, Tail(todo)} /\ job'.pc = "idle"
    BY <1>5, <1>j DEF EmbedFails
  <2>2. todo # <<>> /\ Head(todo).type # "sweep"
    BY <1>5 DEF EmbedFails, Sound, RowIsHead
  <2>3. OwedInQueue'
    BY <1>d, <1>k, <1>o, <1>q, <1>s, <2>1, <2>2 DEF OwedInQueue
  <2> QED
    BY <2>1, <2>3, OwedAtRest
<1>6. CASE WriteBuild
  <2> DEFINE p == job.set
  <2>1. todo # <<>> /\ Head(todo).type # "sweep" /\ job.pc = "write"
    BY <1>6 DEF WriteBuild, Sound, RowIsHead
  <2>2. p \in Prep
    BY <1>t, <2>1, JobShape DEF Writing
  <2>3. /\ Write(p) /\ UNCHANGED <<docs, known>> /\ todo' = Tail(todo) /\ job'.pc = "idle"
        /\ owed' = IF p.type = "nodes" THEN owed \ {p.id} ELSE owed
    BY <1>6, <1>j DEF WriteBuild
  <2>4. p.type = "blocks" /\ p.id \in owed => p.ends = AllEnds[p.id] /\ p.label = known
    BY <2>1 DEF SweepInv, OwedInBuild
  <2> HIDE DEF p
  <2>5. p.type = "nodes" \/ p.type = "blocks"
    BY <2>2 DEF Prep
  <2>6. \A i \in owed' : i \in owed /\ (i = p.id => p.type = "blocks" /\ p.ends = AllEnds[i] /\ p.label \in Keys)
    BY <2>3, <2>4, <2>5 DEF Keys
  <2>7. \A i \in owed' : BlocksUpToDate(i) => BlocksUpToDate(i)'
    BY <1>o, <1>t, <2>2, <2>3, <2>6, CurrentWritten
  <2>8. OwedInQueue'
    BY <1>d, <1>o, <1>q, <1>s, <2>1, <2>3, <2>6, <2>7 DEF OwedInQueue
  <2> QED
    BY <2>3, <2>8, OwedAtRest
<1>7. CASE QueueSweep
  <2>1. /\ \A k \in DOMAIN todo : todo[k].type # "sweep"
        /\ job'.pc = "idle" /\ todo' = Append(todo, Task("sweep", 0)) /\ owed' = Docs /\ docs' = docs
    BY <1>7, <1>j DEF QueueSweep
  <2>2. ASSUME NEW i \in Docs PROVE SweepAhead(todo', i)
    <3>1. i \in DIds /\ 0 < i
      BY NumbersOfRecords DEF Docs
    <3> QED
      BY <1>t, <2>1, <3>1, QueuedSweeps
  <2>3. OwedInQueue'
    BY <1>d, <2>1, <2>2 DEF OwedInQueue
  <2> QED
    BY <2>1, <2>3, OwedAtRest
<1>8. CASE TakeSweep
  <2>1. todo # <<>> /\ Head(todo).type = "sweep" /\ UNCHANGED <<docs, nodeSet, blockSet, todo>>
    BY <1>8 DEF TakeSweep
  <2> DEFINE text == [i \in DIds |-> IF docs[i] = Nothing_ THEN Nothing_ ELSE docs[i].text]
             page == [text |-> text, sets |-> blockSet, ends |-> AllEnds]
  <2>2. PICK k \in RefreshedIdentity :
           /\ known' = k /\ owed' = IF k = known THEN owed ELSE {}
           /\ job' = [pc |-> "sweep", cursor |-> Head(todo).id, keys |-> {k, Legacy}, built |-> 0, failed |-> 0, page |-> page]
    BY <1>8 DEF TakeSweep
  <2>3. CASE k # known
    BY <2>2, <2>3, NothingOwed
  <2>4. CASE k = known
    <3>1. /\ job'.pc = "sweep" /\ job'.cursor = Head(todo).id /\ job'.keys = Keys
          /\ job'.page.text = text /\ job'.page.sets = blockSet /\ job'.page.ends = AllEnds
      BY <2>2, <2>4 DEF Keys
    <3>2. \A i \in owed : text[i] = docs[i].text
      BY <1>o
    <3>3. OwedInQueue'
      BY <1>d, <1>k, <1>o, <1>q, <2>1, <2>2, <2>4 DEF OwedInQueue
    <3>4. \A i \in DIds : Due(i)' <=> ~BlocksUpToDate(i)
      BY <3>1 DEF Due, BlocksUpToDate
    <3>5. \A i \in owed : BlocksUpToDate(i)' \/ (i > Head(todo).id /\ Due(i)')
      <4> SUFFICES ASSUME NEW i \in owed, ~BlocksUpToDate(i) PROVE i > Head(todo).id /\ Due(i)'
        BY <1>k, <1>o, <2>1, <2>2, <2>4
      <4>1. Head(todo).id < i
        BY <1>q, <1>s, <2>1
      <4>2. i \in Nat /\ Head(todo).id \in Nat
        <5>1. Head(todo) \in SweepTask
          BY <1>t, <2>1, QueueOps
        <5> QED
          BY <1>o, <5>1, NumbersOfRecords DEF SweepTask
      <4> QED
        BY <1>o, <3>4, <4>1, <4>2
    <3>6. OwedInSweep'
      BY <2>1, <2>2, <2>4, <3>1, <3>2, <3>5 DEF OwedInSweep
    <3> QED
      BY <3>1, <3>3, <3>6 DEF SweepInv, OwedAfterSweep, OwedInBuild
  <2> QED
    BY <2>3, <2>4
<1>w. ASSUME job.pc \in {"sweep", "sweep_write"}, NEW i \in owed
      PROVE  /\ job.page.text[i] = docs[i].text
             /\ BlocksUpToDate(i) \/ (i > job.cursor /\ Due(i))
             /\ todo # <<>> /\ Head(todo).type = "sweep"
  BY <1>w DEF SweepInv, OwedInSweep, Sound, RowIsHead
<1>x. ASSUME job.pc \in {"sweep", "sweep_write"}, ~PageDone, NEW i \in owed, ~BlocksUpToDate(i)
      PROVE  i = NextDoc \/ i > NextDoc
  <2>1. job \in Sweeping
    BY <1>t, <1>x, JobShape
  <2>2. NextDoc \in DIds /\ NextDoc <= i
    BY <1>o, <1>w, <1>x, <2>1, NextInPage
  <2> QED
    BY <1>o, <2>2, NumbersOfRecords
<1>9. CASE SweepRecord
  <2>1. UNCHANGED <<docs, nodeSet, blockSet, known, todo, owed>> /\ job.pc = "sweep" /\ ~PageDone
    BY <1>9 DEF SweepRecord
  <2>2. job \in Sweeping
    BY <1>t, <2>1, JobShape
  <2>3. OwedInQueue'
    BY <1>d, <1>k, <1>o, <1>q, <2>1 DEF OwedInQueue
  <2>4. \/ ~Due(NextDoc) /\ job' = [job EXCEPT !.cursor = NextDoc]
        \/ job' = [job EXCEPT !.pc = "sweep_write"]
    BY <1>9 DEF SweepRecord
  <2>5. /\ job'.pc \in {"sweep", "sweep_write"} /\ job'.page = job.page /\ job'.keys = job.keys
        /\ job'.cursor = job.cursor \/ (~Due(NextDoc) /\ job'.cursor = NextDoc)
    BY <2>1, <2>2, <2>4 DEF Sweeping
  <2>6. \A i \in DIds : Due(i)' <=> Due(i)
    BY <2>5 DEF Due
  <2>7. ASSUME NEW i \in owed PROVE BlocksUpToDate(i)' \/ (i > job'.cursor /\ Due(i)')
    BY <1>k, <1>o, <1>w, <1>x, <2>1, <2>5, <2>6
  <2>8. OwedInSweep'
    BY <1>w, <2>1, <2>5, <2>7 DEF OwedInSweep
  <2> QED
    BY <2>3, <2>5, <2>8 DEF SweepInv, OwedAfterSweep, OwedInBuild
<1>10. CASE SweepWrite \/ SweepFails
  <2>1. job.pc = "sweep_write" /\ ~PageDone
    BY <1>10 DEF SweepWrite, SweepFails, Sound, RowIsHead
  <2>2. job \in Sweeping
    BY <1>t, <2>1, JobShape
  <2>3. NextDoc \in DIds /\ job.page.text[NextDoc] \in DTexts
    BY <2>1, <2>2, NextInPage
  <2>4. /\ UNCHANGED <<docs, known, todo>> /\ owed' \subseteq owed /\ job'.pc = "sweep" /\ job'.cursor = NextDoc
        /\ job'.page = job.page /\ job'.keys = job.keys
    BY <1>10, <2>2 DEF SweepWrite, SweepFails, Sweeping
  <2>5. \A i \in owed' : (BlocksUpToDate(i) => BlocksUpToDate(i)') /\ (i = NextDoc => BlocksUpToDate(i)')
    <3>1. CASE SweepWrite
      <4> DEFINE p == Prepared("blocks", NextDoc, job.page.text[NextDoc], job.page.ends[NextDoc])
      <4>1. Write(p) /\ owed' = IF AllEnds[p.id] = p.ends THEN owed ELSE owed \ {p.id}
        BY <3>1 DEF SweepWrite
      <4>2. p.type = "blocks" /\ p.id = NextDoc /\ p.of = job.page.text[NextDoc] /\ p.label = known
        BY DEF Prepared, Label
      <4>3. job.page.ends[NextDoc] \in Ends
        BY <2>2, <2>3 DEF Sweeping, Page
      <4>4. p \in Prep
        BY <1>t, <2>3, <4>3, ReadTypes
      <4> HIDE DEF p
      <4>5. \A i \in owed' : i \in owed /\ (i = p.id => p.ends = AllEnds[i] /\ p.label \in Keys)
        BY <4>1, <4>2 DEF Keys
      <4>6. \A i \in owed' : i = p.id => Writable(p)
        BY <1>o, <1>w, <2>1, <4>2, <4>5 DEF Writable
      <4> QED
        BY <1>o, <1>t, <2>4, <4>1, <4>2, <4>4, <4>5, <4>6, CurrentWritten
    <3>2. CASE SweepFails
      BY <1>k, <1>o, <3>2 DEF SweepFails
    <3> QED
      BY <1>10, <3>1, <3>2
  <2>6. OwedInQueue'
    BY <1>d, <1>o, <1>q, <2>4, <2>5 DEF OwedInQueue
  <2>7. \A i \in DIds : Due(i)' <=> Due(i)
    BY <2>4 DEF Due
  <2>8. ASSUME NEW i \in owed' PROVE BlocksUpToDate(i)' \/ (i > NextDoc /\ Due(i)')
    BY <1>o, <1>w, <1>x, <2>1, <2>4, <2>5, <2>7
  <2>9. OwedInSweep'
    BY <1>w, <2>1, <2>4, <2>8 DEF OwedInSweep
  <2> QED
    BY <2>4, <2>6, <2>9 DEF SweepInv, OwedAfterSweep, OwedInBuild
<1>11. CASE SweepStops
  <2>1. /\ UNCHANGED <<docs, nodeSet, blockSet, known, owed>> /\ job.pc = "sweep" /\ job'.pc = "swept"
        /\ todo' = Append(todo, Task("sweep", job.cursor))
    BY <1>11 DEF SweepStops
  <2>2. job.cursor \in {0} \cup DIds
    BY <1>t, <2>1, JobShape DEF Sweeping
  <2>3. ASSUME NEW i \in owed, ~BlocksUpToDate(i) PROVE SweepAhead(todo', i) /\ SweepAhead(Tail(todo'), i)
    <3>1. job.cursor \in Nat /\ i \in Nat /\ i > job.cursor /\ todo # <<>>
      BY <1>o, <1>w, <2>1, <2>2, <2>3, NumbersOfRecords
    <3>2. job.cursor < i
      BY <3>1
    <3>3. SweepAhead(todo, i)
      BY <1>q, <2>3
    <3>a. ASSUME NEW s \in Seq(BuildTask \cup SweepTask), \A k \in DOMAIN s : s[k].type = "sweep" => s[k].id < i
          PROVE  SweepAhead(Append(s, Task("sweep", job.cursor)), i)
      <4>1. \A c \in {0} \cup DIds :
               c < i /\ (\A k \in DOMAIN s : s[k].type = "sweep" => s[k].id < i) => SweepAhead(Append(s, Task("sweep", c)), i)
        BY <1>o, QueuedSweeps
      <4> QED
        BY <2>2, <3>2, <3>a, <4>1
    <3>b. \A k \in DOMAIN todo : todo[k].type = "sweep" => todo[k].id < i
      BY <3>3 DEF SweepAhead
    <3>4. SweepAhead(todo', i)
      BY <1>t, <2>1, <3>a, <3>b
    <3>5. Tail(todo) \in Seq(BuildTask \cup SweepTask)
      BY <1>t, <3>1, QueueOps
    <3>6. Tail(todo') = Append(Tail(todo), Task("sweep", job.cursor))
      BY <1>o, <1>t, <2>1, <3>1, QueuedSweeps
    <3>7. \A k \in DOMAIN Tail(todo) : Tail(todo)[k].type = "sweep" => Tail(todo)[k].id < i
      BY <1>o, <1>t, <3>1, <3>3, QueuedSweeps
    <3>8. SweepAhead(Tail(todo'), i)
      BY <3>5, <3>6, <3>7, <3>a
    <3> QED
      BY <3>4, <3>8
  <2>4. OwedInQueue'
    BY <1>d, <1>k, <1>o, <2>1, <2>3 DEF OwedInQueue
  <2>5. OwedAfterSweep'
    BY <1>k, <1>o, <2>1, <2>3 DEF OwedAfterSweep
  <2> QED
    BY <2>1, <2>4, <2>5 DEF SweepInv, OwedInSweep, OwedInBuild
<1>12. CASE SweepLost
  BY <1>12, NothingOwed DEF SweepLost
<1>13. CASE SweepRowDeleted
  <2>1. UNCHANGED <<docs, nodeSet, blockSet, known, owed>> /\ todo' = Tail(todo) /\ job.pc = "swept" /\ job'.pc = "idle"
    BY <1>13, <1>j DEF SweepRowDeleted
  <2>2. OwedInQueue'
    BY <1>d, <1>k, <1>o, <2>1 DEF OwedInQueue, SweepInv, OwedAfterSweep
  <2> QED
    BY <2>1, <2>2, OwedAtRest
<1>14. CASE SweepEnds
  <2>1. UNCHANGED <<docs, nodeSet, blockSet, known, owed, todo>> /\ job.pc = "sweep" /\ PageDone /\ job'.pc = "swept"
    BY <1>14 DEF SweepEnds
  <2>2. \A i \in owed : BlocksUpToDate(i)
    BY <1>o, <1>w, <2>1 DEF PageDone
  <2>3. OwedInQueue' /\ OwedAfterSweep'
    BY <1>d, <1>k, <1>o, <2>1, <2>2 DEF OwedInQueue, OwedAfterSweep
  <2> QED
    BY <2>1, <2>3 DEF SweepInv, OwedInSweep, OwedInBuild
<1>15. CASE SweepRaises
  <2>1. /\ UNCHANGED <<docs, nodeSet, blockSet, known>> /\ job'.pc = "idle"
        /\ owed' = {} \/ (todo' = todo /\ owed' = owed)
    BY <1>15, <1>j DEF SweepRaises
  <2>2. CASE owed' = {}
    BY <2>2, NothingOwed
  <2>3. CASE todo' = todo /\ owed' = owed
    BY <1>d, <1>k, <1>o, <1>q, <2>1, <2>3, OwedAtRest DEF OwedInQueue
  <2> QED
    BY <2>1, <2>2, <2>3
<1>16. CASE DerivedCrash
  <2>1. /\ UNCHANGED <<docs, nodeSet, blockSet, todo>> /\ job'.pc = "idle"
        /\ owed' = {} \/ (known' = known /\ owed' = owed)
    BY <1>16, <1>j DEF DerivedCrash
  <2>2. CASE owed' = {}
    BY <2>2, NothingOwed
  <2>3. CASE known' = known /\ owed' = owed
    BY <1>d, <1>k, <1>o, <1>q, <2>1, <2>3, OwedAtRest DEF OwedInQueue
  <2> QED
    BY <2>1, <2>2, <2>3
<1> QED
  BY <1>1, <1>2, <1>3, <1>4, <1>5, <1>6, <1>7, <1>8, <1>9, <1>10, <1>11, <1>12, <1>13, <1>14, <1>15, <1>16 DEF DerivedNext

\* When no sweep is queued or under way, every record it was queued for has current blocks,
\* except those edited, given new nodes or failed since: a bound that stops it, a crash
\* before its row is deleted, and its retry from the start skip nothing (backfill and its
\* continuation).
THEOREM SweepsMissNothing == DerivedSpec => []SweepMissesNothing
<1>1. DerivedInit => SweepInv
  BY DEF DerivedInit, SweepInv, OwedInQueue, OwedInSweep, OwedAfterSweep, OwedInBuild, NoJob
<1>2. SweepInv => SweepMissesNothing
  BY DEF SweepInv, OwedInQueue, SweepMissesNothing, SweepAhead, BlocksUpToDate
<1> QED
  BY <1>1, <1>2, SoundInit, SoundStep, SweepStep, PTL DEF DerivedSpec

----------------------------------------------------------------------------
(* Coarse search: the orders of the two reads                              *)

\* The relation of EarlierIn on the rows a set of ids has.
ScanOrder(at, A) == {x \in A \X A : at[x[1]] > at[x[2]] \/ (at[x[1]] = at[x[2]] /\ x[1] < x[2])}

\* The order of an answer is a strict order.
LEMMA ScanOrderIsStrict ==
    ASSUME NEW A, A \subseteq Nat, NEW at \in [A -> Nat]
    PROVE  IsStrictOrder(A, ScanOrder(at, A))
<1>1. \A i, j \in A : <<i, j>> \in ScanOrder(at, A) <=> (at[i] > at[j] \/ (at[i] = at[j] /\ i < j))
  BY DEF ScanOrder
<1>2. \A i \in A : i \in Nat /\ at[i] \in Nat
  OBVIOUS
<1>3. \A i \in A : <<i, i>> \notin ScanOrder(at, A)
  BY <1>1, <1>2
<1>4. \A i, j, k \in A : <<i, j>> \in ScanOrder(at, A) /\ <<j, k>> \in ScanOrder(at, A) => <<i, k>> \in ScanOrder(at, A)
  BY <1>1, <1>2
<1>5. \A i, j \in A : i = j \/ <<i, j>> \in ScanOrder(at, A) \/ <<j, i>> \in ScanOrder(at, A)
  <2> TAKE i \in A, j \in A
  <2>1. at[i] > at[j] \/ at[j] > at[i] \/ at[i] = at[j]
    BY <1>2
  <2>2. i < j \/ j < i \/ i = j
    BY <1>2
  <2> QED
    BY <1>1, <2>1, <2>2
<1> QED
  BY <1>3, <1>4, <1>5 DEF IsStrictOrder

\* InScanOrder is the sequence of an order that agrees with EarlierIn.
LEMMA ScanIsInOrder ==
    ASSUME NEW rows, NEW ids, NEW R, \A i, j \in ids : <<i, j>> \in R <=> EarlierIn(rows, i, j)
    PROVE  InScanOrder(rows, ids) = InOrder(ids, R)
<1> DEFINE early(x) == Cardinality({y \in ids : EarlierIn(rows, y, x)})
<1>1. \A x \in ids : early(x) = PlaceOf(ids, R, x)
  <2> TAKE x \in ids
  <2>1. {y \in ids : EarlierIn(rows, y, x)} = Ahead(ids, R, x)
    BY DEF Ahead
  <2> QED
    BY <2>1 DEF PlaceOf
<1>2. InScanOrder(rows, ids) = [k \in 1..Cardinality(ids) |-> CHOOSE x \in ids : early(x) = k - 1]
  BY DEF InScanOrder, Sequenced
<1>3. ASSUME NEW k
      PROVE  (CHOOSE x \in ids : early(x) = k - 1) = CHOOSE x \in ids : PlaceOf(ids, R, x) = k - 1
  <2> HIDE DEF early
  <2> QED
    BY <1>1
<1> QED
  BY <1>2, <1>3 DEF InOrder

\* The candidates of a set of rows in an order, at their places.
CandidatesOf(A, R, D, q) ==
    {[id |-> i, distance |-> D[i], position |-> PlaceOf(A, R, i)] : i \in {j \in A : Placed(q, PlaceOf(A, R, j))}}

\* What a search found: no row twice, no two rows at one position.
Spread(found) ==
    /\ \E len \in Nat : DOMAIN found = 1..len
    /\ \A n \in DOMAIN found : found[n].position \in Int
    /\ \A m, n \in DOMAIN found : found[m].id = found[n].id \/ found[m].position = found[n].position => m = n

\* The best k of a set, in order, take one seat each.
LEMMA BestAreSpread ==
    ASSUME NEW A, IsFiniteSet(A), NEW R, IsStrictOrder(A, R), NEW D \in [A -> Nat], NEW q, NEW k \in Nat
    PROVE  Spread(Best_k(CandidatesOf(A, R, D, q), k))
<1> DEFINE C == CandidatesOf(A, R, D, q)
           p == [i \in A |-> PlaceOf(A, R, i)]
           closer(a, b) == a.distance < b.distance \/ (a.distance = b.distance /\ a.position < b.position)
           S == {x \in C \X C : closer(x[1], x[2])}
           order == InOrder(C, S)
           N == Cardinality(C)
           m == Min({k, N})
<1>1. /\ \A i \in A : p[i] \in Nat
      /\ \A i, j \in A : p[i] = p[j] => i = j
  <2>1. /\ \A i \in A : p[i] \in Nat
        /\ \A i, j \in A : <<i, j>> \in R <=> p[i] < p[j]
    BY PlacesCountUp
  <2> HIDE DEF p
  <2>2. \A i, j \in A : p[i] = p[j] => ~(p[i] < p[j]) /\ ~(p[j] < p[i])
    BY <2>1
  <2> QED
    BY <2>1, <2>2 DEF IsStrictOrder
<1>2. \A c \in C : /\ c.id \in A /\ c.distance \in Nat /\ c.position = p[c.id]
                   /\ c = [id |-> c.id, distance |-> D[c.id], position |-> p[c.id]]
  BY DEF CandidatesOf
<1>3. \A a, b \in C : a.id = b.id \/ a.position = b.position => a = b
  <2> HIDE DEF C, p
  <2> TAKE a \in C, b \in C
  <2>1. a.position = b.position => a.id = b.id
    BY <1>1, <1>2
  <2>2. a.id = b.id => a = b
    BY <1>2
  <2> QED
    BY <2>1, <2>2
<1>4. IsFiniteSet(C)
  <2> DEFINE I == {j \in A : Placed(q, PlaceOf(A, R, j))}
             f == [i \in I |-> [id |-> i, distance |-> D[i], position |-> PlaceOf(A, R, i)]]
  <2>1. I \in SUBSET A
    OBVIOUS
  <2>2. IsFiniteSet(I)
    <3> HIDE DEF I
    <3> QED
      BY <2>1, FS_Subset
  <2>3. f \in Surjection(I, C)
    <3>1. f \in [I -> C]
      BY DEF CandidatesOf
    <3>2. \A c \in C : \E i \in I : f[i] = c
      BY DEF CandidatesOf
    <3> HIDE DEF f, I, C
    <3> QED
      BY <3>1, <3>2, Fun_IsSurj
  <2> HIDE DEF f, I, C
  <2> QED
    BY <2>2, <2>3, FS_Surjection
<1>5. IsStrictOrder(C, S)
  <2>1. \A c \in C : c.distance \in Nat /\ c.position \in Nat
    BY <1>1, <1>2
  <2>2. \A a, b \in C : <<a, b>> \in S <=> closer(a, b)
    OBVIOUS
  <2> HIDE DEF C, S
  <2>3. \A a \in C : ~closer(a, a)
    BY <2>1
  <2>4. \A a, b, c \in C : closer(a, b) /\ closer(b, c) => closer(a, c)
    BY <2>1
  <2>5. \A a, b \in C : a = b \/ closer(a, b) \/ closer(b, a)
    BY <1>3, <2>1
  <2> HIDE DEF closer
  <2> QED
    BY <2>2, <2>3, <2>4, <2>5 DEF IsStrictOrder
<1>6. /\ N \in Nat /\ order \in [1..N -> C]
      /\ \A n \in 1..N : PlaceOf(C, S, order[n]) = n - 1
  <2> HIDE DEF C, S
  <2> QED
    BY <1>4, <1>5, InOrderFacts
<1>7. Best_k(C, k) = SubSeq(order, 1, Min({k, Len(order)}))
  <2> DEFINE early(c) == Cardinality({y \in C : closer(y, c)})
  <2>1. \A c \in C : early(c) = PlaceOf(C, S, c)
    <3> TAKE c \in C
    <3>1. {y \in C : closer(y, c)} = Ahead(C, S, c)
      <4> HIDE DEF C
      <4> QED
        BY DEF Ahead
    <3> QED
      BY <3>1 DEF PlaceOf
  <2>2. ASSUME NEW n
        PROVE  (CHOOSE c \in C : early(c) = n - 1) = CHOOSE c \in C : PlaceOf(C, S, c) = n - 1
    <3> HIDE DEF early, C, S
    <3> QED
      BY <2>1
  <2>3. [n \in 1..Cardinality(C) |-> CHOOSE c \in C : early(c) = n - 1] = order
    <3> HIDE DEF early, C, S
    <3> QED
      BY <2>2 DEF InOrder
  <2> HIDE DEF C
  <2> QED
    BY <2>3 DEF Best_k, Sequenced
<1>8. order \in Seq(C) /\ Len(order) = N
  <2> HIDE DEF order, N, C
  <2> QED
    BY <1>6
<1>9. m \in 0..N
  <2> HIDE DEF N
  <2>1. \E x \in {k, N} : \A y \in {k, N} : x <= y
    BY <1>6
  <2>2. m \in {k, N} /\ \A y \in {k, N} : m <= y
    BY <2>1 DEF Min
  <2> QED
    BY <1>6, <2>2
<1>10. /\ DOMAIN Best_k(C, k) = 1..m
       /\ \A n \in 1..m : n \in 1..N /\ Best_k(C, k)[n] = order[n] /\ order[n] \in C
  <2>1. Best_k(C, k) = SubSeq(order, 1, m)
    BY <1>7, <1>8
  <2> HIDE DEF order, N, C, m
  <2>2. \A n \in 1..m : n \in 1..N
    BY <1>6, <1>9
  <2>3. SubSeq(order, 1, m) = [n \in 1..m |-> order[n]]
    BY <1>6, <1>8, <1>9
  <2> QED
    BY <1>6, <2>1, <2>2, <2>3
<1>11. \A n \in 1..m : Best_k(C, k)[n].position \in Int
  <2> HIDE DEF order, N, C, m, p
  <2> QED
    BY <1>1, <1>2, <1>10
<1>12. ASSUME NEW a \in 1..m, NEW b \in 1..m,
              Best_k(C, k)[a].id = Best_k(C, k)[b].id \/ Best_k(C, k)[a].position = Best_k(C, k)[b].position
       PROVE  a = b
  <2> HIDE DEF order, N, C, m, S
  <2>1. order[a] = order[b] /\ a \in 1..N /\ b \in 1..N
    BY <1>3, <1>10, <1>12
  <2>2. a - 1 = b - 1
    BY <1>6, <2>1
  <2>3. a \in Int /\ b \in Int
    BY <1>6, <2>1
  <2> QED
    BY <2>2, <2>3
<1> HIDE DEF C, m
<1>13. m \in Nat
  BY <1>6, <1>9
<1> QED
  BY <1>10, <1>11, <1>12, <1>13 DEF Spread, C

\* The times and the distances of a file's rows and the table's, taken together.
MergedAt(index, selected, tail) ==
    [i \in selected \cup tail |-> IF i \in selected THEN index.rows[i].at ELSE held[i].at]
MergedDistance(index, selected, tail) ==
    [i \in selected \cup tail |-> Distance[IF i \in selected THEN index.rows[i].vec ELSE held[i].vec]]
MergedScan(index, selected, tail) == ScanOrder(MergedAt(index, selected, tail), selected \cup tail)

\* _rank places the rows of the file and those of the store as one merged scan would.
LEMMA RankedAtPlaces ==
    ASSUME NEW index, NEW selected, NEW tail, NEW q,
           selected \subseteq DOMAIN index.rows, tail \subseteq DOMAIN held, selected \cap tail = {},
           IsFiniteSet(selected), IsFiniteSet(tail), selected \cup tail \subseteq Nat,
           \A i \in selected : index.rows[i].at \in Nat,
           \A i \in tail : held[i].at \in Nat
    PROVE  /\ IsStrictOrder(selected \cup tail, MergedScan(index, selected, tail))
           /\ RankWith(index, selected, tail, q)
                = Best_k(CandidatesOf(selected \cup tail, MergedScan(index, selected, tail),
                                      MergedDistance(index, selected, tail), q), q.k)
<1> DEFINE A == selected \cup tail
           at == [i \in A |-> IF i \in selected THEN index.rows[i].at ELSE held[i].at]
           vec == [i \in A |-> IF i \in selected THEN index.rows[i].vec ELSE held[i].vec]
           D == [i \in A |-> Distance[IF i \in selected THEN index.rows[i].vec ELSE held[i].vec]]
           R == ScanOrder(at, A)
           order == InOrder(selected, R)
           rest == InOrder(tail, R)
           M == Cardinality(selected)
           N == Cardinality(tail)
           inserted == [t \in 1..N |-> Cardinality({n \in 1..M : <<order[n], rest[t]>> \in R})]
           p(i) == PlaceOf(A, R, i)
<1>1. IsFiniteSet(A)
  BY FS_Union
<1>2. at \in [A -> Nat]
  OBVIOUS
<1>3. IsStrictOrder(A, R)
  <2> HIDE DEF A, at
  <2>1. A \subseteq Nat
    BY DEF A
  <2> QED
    BY <1>2, <2>1, ScanOrderIsStrict
<1>4. IsStrictOrder(selected, R) /\ IsStrictOrder(tail, R)
  <2>1. selected \subseteq A /\ tail \subseteq A
    OBVIOUS
  <2> HIDE DEF A, R
  <2> QED
    BY <1>3, <2>1, OrderOfPart
<1>5. /\ M \in Nat /\ order \in [1..M -> selected]
      /\ \A i \in selected : PlaceOf(selected, R, i) + 1 \in 1..M /\ order[PlaceOf(selected, R, i) + 1] = i
      /\ N \in Nat /\ rest \in [1..N -> tail]
      /\ \A i \in tail : PlaceOf(tail, R, i) + 1 \in 1..N /\ rest[PlaceOf(tail, R, i) + 1] = i
  <2> HIDE DEF R
  <2> QED
    BY <1>4, InOrderFacts
<1>6. \A i, j \in A : <<i, j>> \in R <=> at[i] > at[j] \/ (at[i] = at[j] /\ i < j)
  <2> HIDE DEF at, A
  <2> QED
    BY DEF ScanOrder
<1>7. InScanOrder(index.rows, selected) = order
  <2>1. \A i \in selected : i \in A /\ at[i] = index.rows[i].at
    OBVIOUS
  <2>2. \A i, j \in selected : <<i, j>> \in R <=> EarlierIn(index.rows, i, j)
    <3> HIDE DEF at, R, A
    <3> QED
      BY <1>6, <2>1 DEF EarlierIn
  <2> HIDE DEF R
  <2> QED
    BY <2>2, ScanIsInOrder
<1>8. InScanOrder(held, tail) = rest
  <2>1. \A i \in tail : i \in A /\ at[i] = held[i].at
    OBVIOUS
  <2>2. \A i, j \in tail : <<i, j>> \in R <=> EarlierIn(held, i, j)
    <3> HIDE DEF at, R, A
    <3> QED
      BY <1>6, <2>1 DEF EarlierIn
  <2> HIDE DEF R
  <2> QED
    BY <2>2, ScanIsInOrder
<1>9. DOMAIN order = 1..M /\ DOMAIN rest = 1..N
  <2> HIDE DEF order, rest
  <2> QED
    BY <1>5
<1>10. ASSUME NEW t \in 1..N  PROVE Insertion(index, order, rest[t]) = inserted[t]
  <2>1. \A n \in 1..M : order[n] \in selected /\ rest[t] \in tail
    <3> HIDE DEF order, rest
    <3> QED
      BY <1>5
  <2>2. \A i \in selected, j \in tail :
           <<i, j>> \in R <=> (index.rows[i].at > held[j].at \/ (index.rows[i].at = held[j].at /\ i < j))
    <3>1. \A i \in selected : i \in A /\ at[i] = index.rows[i].at
      OBVIOUS
    <3>2. \A j \in tail : j \in A /\ at[j] = held[j].at
      OBVIOUS
    <3> HIDE DEF at, R, A
    <3> QED
      BY <1>6, <3>1, <3>2
  <2>3. {n \in 1..M : <<order[n], rest[t]>> \in R}
          = {n \in DOMAIN order : \/ index.rows[order[n]].at > held[rest[t]].at
                                  \/ (index.rows[order[n]].at = held[rest[t]].at /\ order[n] < rest[t])}
    <3> HIDE DEF order, rest, R, A, at, N
    <3> QED
      BY <1>9, <2>1, <2>2
  <2> HIDE DEF order, rest, R
  <2> QED
    BY <2>3 DEF Insertion
<1>11. /\ \A t \in 1..N : inserted[t] + t - 1 = p(rest[t])
       /\ \A n \in 1..M : n - 1 + Cardinality({t \in 1..N : inserted[t] <= n - 1}) = p(order[n])
  <2>1. \A t \in 1..N : inserted[t] = Inserted(selected, tail, R, t)
    <3> HIDE DEF R
    <3> QED
      BY DEF Inserted
  <2> HIDE DEF R, A, inserted
  <2>2. IsStrictOrder(selected \cup tail, R)
    BY <1>3 DEF A
  <2>3. MergedRest(selected, tail, R) /\ MergedOrder(selected, tail, R)
    <3> HIDE DEF at, vec, D, order, rest, M, N, p
    <3> QED
      BY <2>2, MergedPlaces
  <2>4. A = selected \cup tail
    BY DEF A
  <2>5. /\ \A t \in 1..N : PlaceOf(A, R, rest[t]) = Inserted(selected, tail, R, t) + t - 1
        /\ \A n \in 1..M :
             PlaceOf(A, R, order[n]) = n - 1 + Cardinality({t \in 1..N : Inserted(selected, tail, R, t) <= n - 1})
    BY <2>3, <2>4 DEF MergedRest, MergedOrder
  <2> HIDE DEF order, rest, M, N
  <2>6. \A n \in 1..M : {t \in 1..N : inserted[t] <= n - 1} = {t \in 1..N : Inserted(selected, tail, R, t) <= n - 1}
    BY <2>1
  <2> QED
    BY <2>1, <2>6, <2>5

<1> DEFINE X == {[id |-> rest[t], distance |-> Distance[held[rest[t]].vec], position |-> p(rest[t])] :
                    t \in {u \in 1..N : Placed(q, p(rest[u]))}}
           Y == {[id |-> order[n], distance |-> Distance[index.rows[order[n]].vec], position |-> p(order[n])] :
                    n \in {m \in 1..M : Placed(q, p(order[m]))}}
<1>12. RankWith(index, selected, tail, q) = Best_k(X \cup Y, q.k)
  <2> DEFINE ins == [t \in DOMAIN rest |-> Insertion(index, order, rest[t])]
             restPlace(t) == ins[t] + t - 1
             indexPlace(n) == n - 1 + Cardinality({t \in DOMAIN rest : ins[t] <= n - 1})
             X2 == {[id |-> rest[t], distance |-> Distance[held[rest[t]].vec], position |-> restPlace(t)] :
                      t \in {u \in DOMAIN rest : Placed(q, restPlace(u))}}
             Y2 == {[id |-> order[n], distance |-> Distance[index.rows[order[n]].vec], position |-> indexPlace(n)] :
                      n \in {m \in DOMAIN order : Placed(q, indexPlace(m))}}
  <2>1. ins = inserted
    <3> HIDE DEF order, rest, R, A, at, M
    <3>1. \A t \in 1..N : Insertion(index, order, rest[t]) = inserted[t]
      BY <1>10
    <3>2. ins = [t \in 1..N |-> Insertion(index, order, rest[t])]
      BY <1>9
    <3>3. inserted = [t \in 1..N |-> inserted[t]]
      OBVIOUS
    <3> HIDE DEF inserted, ins, N
    <3> QED
      BY <3>1, <3>2, <3>3
  <2>2. \A t \in 1..N : restPlace(t) = p(rest[t])
    <3> HIDE DEF order, rest, R, A, at, M, N, ins, inserted, p
    <3> QED
      BY <1>11, <2>1
  <2>3. \A n \in 1..M : indexPlace(n) = p(order[n])
    <3> HIDE DEF order, rest, R, A, at, M, N, ins, inserted, p
    <3> QED
      BY <1>9, <1>11, <2>1
  <2>4. X2 = X
    <3> HIDE DEF order, rest, R, A, at, M, N, ins, p, restPlace
    <3> QED
      BY <1>9, <2>2
  <2>5. Y2 = Y
    <3> HIDE DEF order, rest, R, A, at, M, N, ins, p, indexPlace
    <3> QED
      BY <1>9, <2>3
  <2>6. RankWith(index, selected, tail, q) = Best_k(X2 \cup Y2, q.k)
    <3> HIDE DEF order, rest
    <3> QED
      BY <1>7, <1>8 DEF RankWith
  <2> HIDE DEF X, Y, X2, Y2
  <2> QED
    BY <2>4, <2>5, <2>6
<1>13. X \cup Y = CandidatesOf(A, R, D, q)
  <2> DEFINE Z == CandidatesOf(A, R, D, q)
             cand(i) == [id |-> i, distance |-> D[i], position |-> p(i)]
  <2>1. \A i \in selected : i \in A /\ D[i] = Distance[index.rows[i].vec]
    OBVIOUS
  <2>2. \A i \in tail : i \in A /\ D[i] = Distance[held[i].vec]
    OBVIOUS
  <2>3. Z = {cand(i) : i \in {j \in A : Placed(q, p(j))}}
    <3> HIDE DEF A, R, D
    <3> QED
      BY DEF CandidatesOf
  <2>4. ASSUME NEW c \in X  PROVE c \in Z
    <3>1. PICK t \in 1..N : Placed(q, p(rest[t]))
                            /\ c = [id |-> rest[t], distance |-> Distance[held[rest[t]].vec], position |-> p(rest[t])]
      <4> HIDE DEF rest, A, R, N, p
      <4> QED
        BY <2>4
    <3>2. rest[t] \in tail
      <4> HIDE DEF rest, A, R, N, p
      <4> QED
        BY <1>5
    <3> HIDE DEF rest, A, R, N, p, D, Z
    <3>3. rest[t] \in A /\ c = cand(rest[t])
      BY <2>2, <3>1, <3>2
    <3> QED
      BY <2>3, <3>1, <3>3
  <2>5. ASSUME NEW c \in Y  PROVE c \in Z
    <3>1. PICK n \in 1..M : Placed(q, p(order[n]))
                            /\ c = [id |-> order[n], distance |-> Distance[index.rows[order[n]].vec], position |-> p(order[n])]
      <4> HIDE DEF order, A, R, M, p
      <4> QED
        BY <2>5
    <3>2. order[n] \in selected
      <4> HIDE DEF order, A, R, M, p
      <4> QED
        BY <1>5
    <3> HIDE DEF order, A, R, M, p, D, Z
    <3>3. order[n] \in A /\ c = cand(order[n])
      BY <2>1, <3>1, <3>2
    <3> QED
      BY <2>3, <3>1, <3>3
  <2>6. ASSUME NEW c \in Z  PROVE c \in X \cup Y
    <3>1. PICK i \in A : Placed(q, p(i)) /\ c = cand(i)
      <4> HIDE DEF A, R, D, p, Z
      <4> QED
        BY <2>3, <2>6
    <3>2. CASE i \in tail
      <4>1. PICK t \in 1..N : rest[t] = i
        <5> HIDE DEF rest, N, R, A
        <5> QED
          BY <1>5, <3>2
      <4>2. c = [id |-> rest[t], distance |-> Distance[held[rest[t]].vec], position |-> p(rest[t])]
        <5> HIDE DEF rest, N, R, A, p, D
        <5> QED
          BY <2>2, <3>1, <3>2, <4>1
      <4>3. c \in X
        <5> HIDE DEF rest, N, R, A, p, D
        <5> QED
          BY <3>1, <4>1, <4>2
      <4> QED
        BY <4>3
    <3>3. CASE i \in selected
      <4>1. PICK n \in 1..M : order[n] = i
        <5> HIDE DEF order, M, R, A
        <5> QED
          BY <1>5, <3>3
      <4>2. c = [id |-> order[n], distance |-> Distance[index.rows[order[n]].vec], position |-> p(order[n])]
        <5> HIDE DEF order, M, R, A, p, D
        <5> QED
          BY <2>1, <3>1, <3>3, <4>1
      <4>3. c \in Y
        <5> HIDE DEF order, M, R, A, p, D
        <5> QED
          BY <3>1, <4>1, <4>2
      <4> QED
        BY <4>3
    <3> QED
      BY <3>2, <3>3
  <2> HIDE DEF X, Y, Z
  <2> QED
    BY <2>4, <2>5, <2>6 DEF Z
<1>14. R = MergedScan(index, selected, tail) /\ D = MergedDistance(index, selected, tail) /\ A = selected \cup tail
  BY DEF MergedScan, MergedAt, MergedDistance
<1> QED
  <2> HIDE DEF X, Y, A, R, D
  <2> QED
    BY <1>3, <1>12, <1>13, <1>14

\* So does the scan of the live store, which ranks the rows of the query's width.
LEMMA LiveAtPlaces ==
    ASSUME NEW rows, NEW q, Scannable(rows, q.period) \subseteq Nat, IsFiniteSet(Scannable(rows, q.period)),
           \A i \in Scannable(rows, q.period) : rows[i].at \in Nat /\ rows[i].width = QueryWidth
    PROVE  LET A  == Scannable(rows, q.period)
               at == [i \in A |-> rows[i].at]
               D  == [i \in A |-> Distance[rows[i].vec]]
           IN  FromLive(rows, q) = Best_k(CandidatesOf(A, ScanOrder(at, A), D, q), q.k)
<1> DEFINE A  == Scannable(rows, q.period)
           at == [i \in A |-> rows[i].at]
           D  == [i \in A |-> Distance[rows[i].vec]]
           R  == ScanOrder(at, A)
           order == InOrder(A, R)
           N == Cardinality(A)
           Z == CandidatesOf(A, R, D, q)
           F == {[id |-> order[n], distance |-> Distance[rows[order[n]].vec], position |-> n - 1] :
                    n \in {m \in DOMAIN order : Placed(q, m - 1) /\ rows[order[m]].width = QueryWidth}}
<1> HIDE DEF A
<1>1. A \subseteq Nat /\ IsFiniteSet(A) /\ (\A i \in A : rows[i].at \in Nat /\ rows[i].width = QueryWidth)
  BY DEF A
<1>2. at \in [A -> Nat]
  BY <1>1
<1>3. IsStrictOrder(A, R)
  <2> HIDE DEF at
  <2> QED
    BY <1>1, <1>2, ScanOrderIsStrict
<1>4. /\ N \in Nat /\ order \in [1..N -> A]
      /\ \A k \in 1..N : PlaceOf(A, R, order[k]) = k - 1
      /\ \A i \in A : PlaceOf(A, R, i) \in Nat /\ PlaceOf(A, R, i) + 1 \in 1..N /\ order[PlaceOf(A, R, i) + 1] = i
  <2> HIDE DEF R
  <2> QED
    BY <1>1, <1>3, InOrderFacts
<1>5. InScanOrder(rows, A) = order
  <2>1. \A i, j \in A : <<i, j>> \in R <=> EarlierIn(rows, i, j)
    BY DEF ScanOrder, EarlierIn
  <2> HIDE DEF R
  <2> QED
    BY <2>1, ScanIsInOrder
<1>6. FromLive(rows, q) = Best_k(F, q.k)
  <2> HIDE DEF order
  <2> QED
    BY <1>5 DEF FromLive, A
<1> HIDE DEF R, order, N
<1>7. ASSUME NEW c \in F  PROVE c \in Z
  <2>1. PICK n \in 1..N : /\ Placed(q, n - 1)
                          /\ c = [id |-> order[n], distance |-> Distance[rows[order[n]].vec], position |-> n - 1]
    BY <1>4, <1>7
  <2>2. order[n] \in A /\ PlaceOf(A, R, order[n]) = n - 1 /\ D[order[n]] = Distance[rows[order[n]].vec]
    BY <1>4
  <2> HIDE DEF D
  <2>3. c = [id |-> order[n], distance |-> D[order[n]], position |-> PlaceOf(A, R, order[n])]
    BY <2>1, <2>2
  <2> QED
    BY <2>1, <2>2, <2>3 DEF CandidatesOf
<1>8. ASSUME NEW c \in Z  PROVE c \in F
  <2>1. PICK i \in A : /\ Placed(q, PlaceOf(A, R, i))
                       /\ c = [id |-> i, distance |-> D[i], position |-> PlaceOf(A, R, i)]
    <3> HIDE DEF D
    <3> QED
      BY <1>8 DEF CandidatesOf
  <2>2. PICK n \in 1..N : n = PlaceOf(A, R, i) + 1 /\ order[n] = i
    BY <1>4
  <2>3. n - 1 = PlaceOf(A, R, i) /\ n \in DOMAIN order
    BY <1>4, <2>2
  <2>4. c = [id |-> order[n], distance |-> Distance[rows[order[n]].vec], position |-> n - 1]
    BY <2>1, <2>2, <2>3
  <2>5. Placed(q, n - 1) /\ rows[order[n]].width = QueryWidth
    BY <1>1, <2>1, <2>2, <2>3
  <2> QED
    BY <2>3, <2>4, <2>5
<1>9. F = Z
  <2> HIDE DEF F, Z
  <2> QED
    BY <1>7, <1>8
<1> QED
  <2> HIDE DEF F
  <2> QED
    BY <1>6, <1>9 DEF A, R

----------------------------------------------------------------------------
(* Coarse search: what holds at every step                                 *)

CoarseRows ==
    [at : Nat, stamp : Nat, vec : DOMAIN Distance \cup {NoVec}, width : Nat, mine : BOOLEAN, rejected : BOOLEAN]

\* The ids handed out are 1..lastRow, and each names a row or nothing.
TableTyped ==
    /\ lastRow \in Nat
    /\ DOMAIN held \subseteq 1..lastRow
    /\ held \in [DOMAIN held -> CoarseRows]

\* A file: vectors of one width, of rows up to its watermark that are not its holes.
FileTyped(file) ==
    /\ file.watermark \in 0..lastRow
    /\ DOMAIN file.rows \subseteq 1..file.watermark
    /\ file.rows \in [DOMAIN file.rows -> CoarseRows]
    /\ \A i \in DOMAIN file.rows : file.rows[i].vec # NoVec /\ file.rows[i].width = file.width /\ i \notin file.holes

\* What a file and the rows named since leave unsaid is what the table still says.
FileAnswers(file, changed) ==
    /\ \A i \in DOMAIN held : i > file.watermark \/ i \in DOMAIN file.rows \cup file.holes \cup changed
    /\ \A i \in DOMAIN file.rows \ changed : i \in DOMAIN held /\ Watched(held[i]) = Watched(file.rows[i])

Searching == {"selected", "checked", "ranked", "candidates", "scored"}

ProbeTyped ==
    /\ probe.st \in Searching \cup {"idle", "seated"}
    /\ probe.st \in Searching =>
          /\ probe = [st |-> probe.st, query |-> probe.query, index |-> probe.index, changed |-> probe.changed,
                      quiet |-> probe.quiet, found |-> probe.found]
          /\ probe.query \in Queries

\* Before the ranking a search holds a file; a quiet one holds what the table says.
ProbeReads ==
    probe.st \in {"selected", "checked"} =>
        /\ FileTyped(probe.index) /\ probe.index.width = QueryWidth
        /\ probe.quiet => FileAnswers(probe.index, probe.changed)

\* After it, the candidates; a quiet search has those of the live scan.
ProbeRanked ==
    probe.st \in {"ranked", "candidates"} =>
        /\ Spread(probe.found)
        /\ probe.quiet => probe.found = FromLive(held, probe.query)

ProbeScored ==
    probe.st = "scored" =>
        /\ \E len \in Nat : DOMAIN probe.found = 1..len
        /\ \A m, n \in DOMAIN probe.found : probe.found[m].id = probe.found[n].id => m = n

ProbeSeated ==
    probe.st = "seated" =>
        /\ \A m, n \in DOMAIN probe.seats : probe.seats[m] = probe.seats[n] => m = n
        /\ \A n \in DOMAIN probe.seats :
              probe.seats[n] \in DOMAIN probe.stored /\ probe.stored[probe.seats[n]].mine

CoarseInv ==
    /\ TableTyped
    /\ FileTyped(coarse) /\ FileAnswers(coarse, named)
    /\ ProbeTyped /\ ProbeReads /\ ProbeRanked /\ ProbeScored /\ ProbeSeated

\* Ranked from a file the change log accounts for, the answer is the one of the live rows.
LEMMA RankedFromFile ==
    ASSUME TableTyped, NEW index, FileTyped(index), index.width = QueryWidth, NEW changed, NEW q \in Queries,
           \A i \in Tail_(index, changed, q.period) : held[i].width = QueryWidth
    PROVE  LET found == RankWith(index, Selected(index, changed, q.period), Tail_(index, changed, q.period), q)
           IN  /\ Spread(found)
               /\ FileAnswers(index, changed) => found = FromLive(held, q)
<1> DEFINE selected == Selected(index, changed, q.period)
           tail == Tail_(index, changed, q.period)
           A == selected \cup tail
           at == [i \in A |-> IF i \in selected THEN index.rows[i].at ELSE held[i].at]
           D == [i \in A |-> Distance[IF i \in selected THEN index.rows[i].vec ELSE held[i].vec]]
           R == ScanOrder(at, A)
           found == RankWith(index, selected, tail, q)
<1> USE CoarseAssumption
<1>1. q.k \in Nat /\ Distance \in [DOMAIN Distance -> Nat]
  BY DEF CoarseAssumption
<1>2. /\ lastRow \in Nat /\ index.watermark \in Nat
      /\ \A i \in DOMAIN held : i \in 1..lastRow /\ held[i] \in CoarseRows
      /\ \A i \in DOMAIN index.rows : /\ i \in 1..index.watermark /\ index.rows[i] \in CoarseRows
                                      /\ index.rows[i].vec # NoVec /\ index.rows[i].width = QueryWidth
                                      /\ i \notin index.holes
  BY DEF TableTyped, FileTyped
<1>3. ASSUME NEW i \in selected
      PROVE  /\ i \in DOMAIN index.rows /\ i \notin changed /\ i \in 1..index.watermark
             /\ index.rows[i].at \in Nat /\ index.rows[i].vec \in DOMAIN Distance
             /\ index.rows[i].mine /\ InPeriod(index.rows[i], q.period)
  BY <1>2 DEF Selected, Scannable, CoarseRows
<1>4. ASSUME NEW i \in tail
      PROVE  /\ i \in DOMAIN held /\ i \in 1..lastRow /\ held[i].vec # NoVec
             /\ held[i].mine /\ InPeriod(held[i], q.period)
             /\ i > index.watermark \/ i \in index.holes \/ i \in changed
             /\ held[i].at \in Nat /\ held[i].vec \in DOMAIN Distance /\ held[i].width = QueryWidth
  BY <1>2 DEF Tail_, Scannable, CoarseRows
<1>5. selected \cap tail = {}
  <2> SUFFICES ASSUME NEW i \in selected, i \in tail  PROVE FALSE
    OBVIOUS
  <2>1. i \in 1..index.watermark /\ i \notin index.holes /\ i \notin changed
    BY <1>2, <1>3
  <2>2. ~(i > index.watermark)
    BY <1>2, <2>1
  <2> QED
    BY <1>4, <2>1, <2>2
<1>6. IsFiniteSet(selected) /\ IsFiniteSet(tail) /\ A \subseteq Nat
  <2>1. selected \in SUBSET (1..index.watermark) /\ tail \in SUBSET (1..lastRow)
    BY <1>3, <1>4
  <2>2. IsFiniteSet(1..index.watermark) /\ IsFiniteSet(1..lastRow)
    <3>1. ASSUME NEW n \in Nat  PROVE IsFiniteSet(1..n)
      <4>1. 1 \in Int /\ n \in Int
        OBVIOUS
      <4> QED
        BY <4>1, FS_Interval
    <3> QED
      BY <1>2, <3>1
  <2> HIDE DEF selected, tail
  <2>3. \A n \in 1..index.watermark : n \in Nat
    BY <1>2
  <2>4. \A n \in 1..lastRow : n \in Nat
    BY <1>2
  <2>5. IsFiniteSet(selected) /\ IsFiniteSet(tail)
    BY <2>1, <2>2, FS_Subset
  <2>6. A \subseteq Nat
    BY <2>1, <2>3, <2>4
  <2> QED
    BY <2>5, <2>6
<1>7. selected \subseteq DOMAIN index.rows /\ tail \subseteq DOMAIN held
  BY <1>3, <1>4
<1> HIDE DEF selected, tail
<1>8. IsStrictOrder(A, R) /\ found = Best_k(CandidatesOf(A, R, D, q), q.k)
  <2>1. R = MergedScan(index, selected, tail) /\ D = MergedDistance(index, selected, tail)
    BY DEF MergedScan, MergedAt, MergedDistance
  <2>2. /\ \A i \in selected : index.rows[i].at \in Nat
        /\ \A i \in tail : held[i].at \in Nat
    BY <1>3, <1>4
  <2>3. selected \cup tail \subseteq Nat
    BY <1>6
  <2> HIDE DEF R, D
  <2> QED
    BY <1>5, <1>6, <1>7, <2>1, <2>2, <2>3, RankedAtPlaces
<1>9. Spread(found)
  <2>1. IsFiniteSet(A)
    BY <1>6, FS_Union
  <2>2. D \in [A -> Nat]
    BY <1>1, <1>3, <1>4
  <2> HIDE DEF A, R, D
  <2> QED
    BY <1>1, <1>8, <2>1, <2>2, BestAreSpread
<1>10. ASSUME FileAnswers(index, changed)  PROVE found = FromLive(held, q)
  <2>1. ASSUME NEW i \in selected
        PROVE  /\ i \in Scannable(held, q.period)
               /\ held[i].at = index.rows[i].at /\ held[i].vec = index.rows[i].vec
               /\ held[i].width = QueryWidth
    <3>1. i \in DOMAIN held /\ Watched(held[i]) = Watched(index.rows[i])
      BY <1>3, <1>10 DEF FileAnswers
    <3>2. /\ held[i].at = index.rows[i].at /\ held[i].stamp = index.rows[i].stamp /\ held[i].vec = index.rows[i].vec
          /\ held[i].width = index.rows[i].width /\ held[i].mine = index.rows[i].mine
      BY <3>1 DEF Watched
    <3>3. index.rows[i].vec # NoVec /\ index.rows[i].width = QueryWidth
      BY <1>2, <1>3
    <3> QED
      BY <1>3, <3>1, <3>2, <3>3 DEF Scannable, InPeriod
  <2>2. ASSUME NEW i \in Scannable(held, q.period)  PROVE i \in A
    <3>1. i \in DOMAIN held /\ held[i].vec # NoVec /\ held[i].mine /\ InPeriod(held[i], q.period)
      BY <2>2 DEF Scannable
    <3>2. CASE i > index.watermark \/ i \in index.holes \cup changed
      BY <3>2 DEF tail, Tail_
    <3>3. CASE i \in DOMAIN index.rows \ changed
      <4>1. Watched(held[i]) = Watched(index.rows[i])
        BY <1>10, <3>3 DEF FileAnswers
      <4>2. /\ held[i].stamp = index.rows[i].stamp /\ held[i].vec = index.rows[i].vec
            /\ held[i].mine = index.rows[i].mine
        BY <4>1 DEF Watched
      <4> QED
        BY <3>1, <3>3, <4>2 DEF selected, Selected, Scannable, InPeriod
    <3> QED
      BY <1>10, <3>1, <3>2, <3>3 DEF FileAnswers
  <2>3. \A i \in tail : i \in Scannable(held, q.period)
    BY DEF tail, Tail_
  <2>4. A = Scannable(held, q.period)
    BY <2>1, <2>2, <2>3
  <2>5. \A i \in A : held[i].at \in Nat /\ held[i].width = QueryWidth
    BY <1>3, <1>4, <2>1
  <2>6. at = [i \in A |-> held[i].at]
    BY <2>1
  <2>7. D = [i \in A |-> Distance[held[i].vec]]
    BY <2>1
  <2>8. IsFiniteSet(A) /\ A \subseteq Nat
    BY <1>6, FS_Union
  <2> HIDE DEF A, at, D, found
  <2>9. FromLive(held, q) = Best_k(CandidatesOf(A, ScanOrder([i \in A |-> held[i].at], A), [i \in A |-> Distance[held[i].vec]], q), q.k)
    BY <2>4, <2>5, <2>8, LiveAtPlaces
  <2> QED
    BY <1>8, <2>6, <2>7, <2>9
<1> QED
  <2> HIDE DEF found
  <2>1. found = RankWith(index, Selected(index, changed, q.period), Tail_(index, changed, q.period), q)
    BY DEF found, selected, tail
  <2> QED
    BY <1>9, <1>10, <2>1


\* A write leaves what a search holds, and a search under way is quiet no more.
LEMMA DisturbedKeeps ==
    ASSUME CoarseInv, probe' = Disturbed, lastRow' \in Nat, lastRow' >= lastRow
    PROVE  ProbeTyped' /\ ProbeReads' /\ ProbeRanked' /\ ProbeScored' /\ ProbeSeated'
<1>1. ProbeTyped /\ ProbeReads /\ ProbeRanked /\ ProbeScored /\ ProbeSeated /\ lastRow \in Nat
  BY DEF CoarseInv, TableTyped
<1>2. CASE probe.st \in {"idle", "seated"}
  <2>1. probe' = probe
    BY <1>2 DEF Disturbed
  <2>2. probe.st \notin Searching
    BY <1>2 DEF Searching
  <2>3. ProbeTyped' /\ ProbeReads' /\ ProbeRanked' /\ ProbeScored'
    BY <1>2, <2>1, <2>2 DEF ProbeTyped, ProbeReads, ProbeRanked, ProbeScored, Searching
  <2>4. ProbeSeated'
    BY <1>1, <2>1 DEF ProbeSeated
  <2> QED
    BY <2>3, <2>4
<1>3. CASE probe.st \notin {"idle", "seated"}
  <2>1. probe.st \in Searching /\ probe' = [probe EXCEPT !.quiet = FALSE]
    BY <1>1, <1>3 DEF Disturbed, ProbeTyped
  <2>2. /\ probe = [st |-> probe.st, query |-> probe.query, index |-> probe.index, changed |-> probe.changed,
                    quiet |-> probe.quiet, found |-> probe.found]
        /\ probe.query \in Queries
    BY <1>1, <2>1 DEF ProbeTyped
  <2>3. probe' = [st |-> probe.st, query |-> probe.query, index |-> probe.index, changed |-> probe.changed,
                  quiet |-> FALSE, found |-> probe.found]
    BY <2>1, <2>2
  <2>4. /\ probe'.st = probe.st /\ probe'.query = probe.query /\ probe'.index = probe.index
        /\ probe'.changed = probe.changed /\ probe'.quiet = FALSE /\ probe'.found = probe.found
    BY <2>3
  <2>5. ProbeTyped'
    BY <2>1, <2>2, <2>3, <2>4 DEF ProbeTyped
  <2>6. ProbeReads'
    <3>1. probe.st \in {"selected", "checked"} => FileTyped(probe.index) /\ probe.index.width = QueryWidth
      BY <1>1 DEF ProbeReads
    <3>2. FileTyped(probe.index) => FileTyped(probe.index)'
      BY <1>1, <2>4 DEF FileTyped
    <3> QED
      BY <2>4, <3>1, <3>2 DEF ProbeReads
  <2>7. ProbeRanked'
    BY <1>1, <2>4 DEF ProbeRanked
  <2>8. ProbeScored'
    BY <1>1, <2>4 DEF ProbeScored
  <2>9. ProbeSeated'
    BY <1>3, <2>4 DEF ProbeSeated
  <2> QED
    BY <2>5, <2>6, <2>7, <2>8, <2>9
<1> QED
  BY <1>2, <1>3

\* A row stored.
LEMMA StoreRowKeeps ==
    ASSUME CoarseInv, NEW row \in RowValues, StoreRow(row)
    PROVE  CoarseInv'
<1>1. /\ TableTyped /\ FileTyped(coarse) /\ FileAnswers(coarse, named)
      /\ lastRow' = lastRow + 1
      /\ held' = [i \in DOMAIN held \cup {lastRow + 1} |-> IF i \in DOMAIN held THEN held[i] ELSE row]
      /\ probe' = Disturbed /\ coarse' = coarse /\ named' = named
  BY DEF CoarseInv, StoreRow
<1>2. row \in CoarseRows
  BY CoarseAssumption DEF CoarseAssumption, CoarseRows
<1>3. /\ lastRow \in Nat /\ lastRow' \in Nat /\ lastRow' >= lastRow
      /\ \A i \in DOMAIN held : i \in 1..lastRow /\ held[i] \in CoarseRows
      /\ coarse.watermark \in 0..lastRow
  BY <1>1 DEF TableTyped, FileTyped
<1>4. TableTyped'
  <2>1. DOMAIN held' = DOMAIN held \cup {lastRow + 1}
    BY <1>1
  <2>2. \A i \in DOMAIN held' : i \in 1..lastRow' /\ held'[i] \in CoarseRows
    BY <1>1, <1>2, <1>3
  <2>3. held' = [i \in DOMAIN held' |-> held'[i]]
    BY <1>1
  <2>4. held' \in [DOMAIN held' -> CoarseRows]
    BY <2>2, <2>3
  <2> QED
    BY <1>3, <2>2, <2>4 DEF TableTyped
<1>5. FileTyped(coarse)'
  BY <1>1, <1>3 DEF FileTyped
<1>6. FileAnswers(coarse, named)'
  <2>1. \A i \in DOMAIN held : i \in DOMAIN held' /\ held'[i] = held[i]
    BY <1>1
  <2>2. \A i \in DOMAIN held' : i \in DOMAIN held \/ i > coarse.watermark
    BY <1>1, <1>3
  <2> QED
    BY <1>1, <2>1, <2>2 DEF FileAnswers
<1> QED
  BY <1>1, <1>3, <1>4, <1>5, <1>6, DisturbedKeeps DEF CoarseInv

\* A row's vector replaced.
LEMMA UpdateRowKeeps ==
    ASSUME CoarseInv, NEW i \in DOMAIN held, NEW row \in RowValues, UpdateRow(i, row)
    PROVE  CoarseInv'
<1>1. /\ TableTyped /\ FileTyped(coarse) /\ FileAnswers(coarse, named)
      /\ held' = [held EXCEPT ![i] = row] /\ named' = named \cup NamedBy(i, row)
      /\ probe' = Disturbed /\ lastRow' = lastRow /\ coarse' = coarse
  BY DEF CoarseInv, UpdateRow
<1>2. row \in CoarseRows
  BY CoarseAssumption DEF CoarseAssumption, CoarseRows
<1>3. TableTyped' /\ lastRow' \in Nat /\ lastRow' >= lastRow
  BY <1>1, <1>2 DEF TableTyped
<1>4. FileTyped(coarse)'
  BY <1>1 DEF FileTyped
<1>5. FileAnswers(coarse, named)'
  <2>1. DOMAIN held' = DOMAIN held /\ held'[i] = row /\ \A j \in DOMAIN held : j # i => held'[j] = held[j]
    BY <1>1
  <2>2. \A j \in DOMAIN held : j \in named' \/ Watched(held'[j]) = Watched(held[j])
    <3>1. i \in named' \/ Watched(held[i]) = Watched(row)
      BY <1>1 DEF NamedBy
    <3> QED
      BY <2>1, <3>1
  <2>3. named \subseteq named'
    BY <1>1
  <2> QED
    BY <1>1, <2>1, <2>2, <2>3 DEF FileAnswers
<1> QED
  BY <1>1, <1>3, <1>4, <1>5, DisturbedKeeps DEF CoarseInv

\* A row deleted.
LEMMA DeleteRowKeeps ==
    ASSUME CoarseInv, NEW i \in DOMAIN held, DeleteRow(i)
    PROVE  CoarseInv'
<1>1. /\ TableTyped /\ FileTyped(coarse) /\ FileAnswers(coarse, named)
      /\ held' = [j \in DOMAIN held \ {i} |-> held[j]] /\ named' = named \cup {i}
      /\ probe' = Disturbed /\ lastRow' = lastRow /\ coarse' = coarse
  BY DEF CoarseInv, DeleteRow
<1>2. TableTyped' /\ lastRow' \in Nat /\ lastRow' >= lastRow
  BY <1>1 DEF TableTyped
<1>3. FileTyped(coarse)'
  BY <1>1 DEF FileTyped
<1>4. FileAnswers(coarse, named)'
  <2>1. DOMAIN held' = DOMAIN held \ {i} /\ \A j \in DOMAIN held' : held'[j] = held[j]
    BY <1>1
  <2> QED
    BY <1>1, <2>1 DEF FileAnswers
<1> QED
  BY <1>1, <1>2, <1>3, <1>4, DisturbedKeeps DEF CoarseInv

\* A row's time changed.
LEMMA RestampRowKeeps ==
    ASSUME CoarseInv, NEW i \in DOMAIN held, NEW r \in RowValues, NEW unlinked \in BOOLEAN,
           RestampRow(i, r.stamp, unlinked)
    PROVE  CoarseInv'
<1>1. /\ TableTyped /\ FileTyped(coarse) /\ FileAnswers(coarse, named)
      /\ held' = [held EXCEPT ![i].stamp = r.stamp] /\ named' = named \cup {i}
      /\ coarse' = coarse \/ coarse' = NoCoarse
      /\ probe' = Disturbed /\ lastRow' = lastRow
  BY DEF CoarseInv, RestampRow
<1>2. r.stamp \in Nat
  BY CoarseAssumption DEF CoarseAssumption
<1>3. DOMAIN held' = DOMAIN held /\ held'[i] \in CoarseRows /\ \A j \in DOMAIN held : j # i => held'[j] = held[j]
  <2>1. held[i] \in CoarseRows
    BY <1>1 DEF TableTyped
  <2>2. [held[i] EXCEPT !.stamp = r.stamp] \in CoarseRows
    BY <1>2, <2>1 DEF CoarseRows
  <2>3. held'[i] = [held[i] EXCEPT !.stamp = r.stamp]
    BY <1>1
  <2> QED
    BY <1>1, <2>2, <2>3
<1>4. TableTyped' /\ lastRow' \in Nat /\ lastRow' >= lastRow
  <2>1. held' = [j \in DOMAIN held' |-> held'[j]]
    BY <1>1
  <2>2. \A j \in DOMAIN held' : held'[j] \in CoarseRows
    BY <1>1, <1>3 DEF TableTyped
  <2>3. held' \in [DOMAIN held' -> CoarseRows]
    BY <2>1, <2>2
  <2> QED
    BY <1>1, <1>3, <2>3 DEF TableTyped
<1>5. CASE coarse' = coarse
  <2>1. FileTyped(coarse)'
    BY <1>1, <1>5 DEF FileTyped
  <2>2. FileAnswers(coarse, named)'
    BY <1>1, <1>3, <1>5 DEF FileAnswers
  <2> QED
    BY <1>1, <1>4, <2>1, <2>2, DisturbedKeeps DEF CoarseInv
<1>6. CASE coarse' = NoCoarse
  <2>1. /\ coarse'.rows = <<>> /\ coarse'.watermark = 0 /\ coarse'.holes = {} /\ DOMAIN coarse'.rows = {}
    BY <1>6 DEF NoCoarse
  <2>2. FileTyped(coarse)'
    BY <1>4, <2>1 DEF FileTyped
  <2>3. FileAnswers(coarse, named)'
    BY <1>4, <2>1 DEF FileAnswers, TableTyped
  <2> QED
    BY <1>1, <1>4, <2>2, <2>3, DisturbedKeeps DEF CoarseInv
<1> QED
  BY <1>1, <1>5, <1>6


\* A search that a step leaves alone stays as it was, if its file's rows were handed out.
LEMMA ProbeKept ==
    ASSUME CoarseInv, UNCHANGED <<held, lastRow, probe>>
    PROVE  ProbeTyped' /\ ProbeReads' /\ ProbeRanked' /\ ProbeScored' /\ ProbeSeated'
<1>1. ProbeTyped /\ ProbeReads /\ ProbeRanked /\ ProbeScored /\ ProbeSeated
  BY DEF CoarseInv
<1>2. ProbeTyped' /\ ProbeScored' /\ ProbeSeated'
  BY <1>1 DEF ProbeTyped, ProbeScored, ProbeSeated
<1>3. ProbeReads'
  BY <1>1 DEF ProbeReads, FileTyped, FileAnswers
<1>4. FromLive(held, probe.query)' = FromLive(held, probe.query)
  OBVIOUS
<1>5. ProbeRanked'
  BY <1>1, <1>4 DEF ProbeRanked
<1> QED
  BY <1>2, <1>3, <1>5

\* A file built from the table.
LEMMA BuildCoarseKeeps ==
    ASSUME CoarseInv, BuildCoarse
    PROVE  CoarseInv'
<1>1. /\ TableTyped
      /\ Cardinality({held[i].width : i \in Embedded}) = 1 /\ Kept_ # {}
      /\ coarse' = [rows |-> [i \in Kept_ |-> held[i]], watermark |-> Max(DOMAIN held),
                    holes |-> DOMAIN held \ Kept_, width |-> held[CHOOSE i \in Kept_ : TRUE].width]
      /\ named' = {}
      /\ held' = held /\ lastRow' = lastRow /\ probe' = probe
  BY DEF CoarseInv, BuildCoarse
<1>2. /\ lastRow \in Nat
      /\ \A i \in DOMAIN held : i \in 1..lastRow /\ held[i] \in CoarseRows
  BY <1>1 DEF TableTyped
<1>3. \A i \in Kept_ : i \in Embedded /\ i \in DOMAIN held /\ held[i].vec # NoVec
  BY DEF Kept_, Embedded
<1> DEFINE W == {held[i].width : i \in Embedded}
           one == CHOOSE i \in Kept_ : TRUE
           top == Max(DOMAIN held)
<1>4. \A i \in Kept_ : held[i].width = held[one].width
  <2>1. IsFiniteSet(Embedded)
    <3>1. Embedded \in SUBSET (1..lastRow)
      BY <1>2 DEF Embedded
    <3>2. 1 \in Int /\ lastRow \in Int
      BY <1>2
    <3>3. IsFiniteSet(1..lastRow)
      BY <3>2, FS_Interval
    <3> QED
      BY <3>1, <3>3, FS_Subset
  <2>2. IsFiniteSet(W)
    <3> DEFINE f == [i \in Embedded |-> held[i].width]
    <3>1. f \in [Embedded -> W] /\ \A w \in W : \E i \in Embedded : f[i] = w
      OBVIOUS
    <3> HIDE DEF f, W
    <3>2. f \in Surjection(Embedded, W)
      BY <3>1, Fun_IsSurj
    <3> QED
      BY <2>1, <3>2, FS_Surjection
  <2>3. Cardinality(W) = 1
    BY <1>1
  <2>4. \E w : W = {w}
    <3> HIDE DEF W
    <3> QED
      BY <2>2, <2>3, FS_Singleton
  <2>5. one \in Kept_
    BY <1>1
  <2>6. \A i \in Kept_ : held[i].width \in W
    BY <1>3
  <2> HIDE DEF W, one
  <2> QED
    BY <2>4, <2>5, <2>6
<1>5. top \in DOMAIN held /\ \A i \in DOMAIN held : top >= i
  <2>1. DOMAIN held \subseteq 0..lastRow /\ DOMAIN held # {}
    BY <1>1, <1>2, <1>3
  <2>2. \E x \in DOMAIN held : \A y \in DOMAIN held : x >= y
    BY <1>2, <2>1, GreatestNumber
  <2> QED
    BY <2>2 DEF Max
<1> HIDE DEF W, one, top
<1>6. /\ coarse'.rows = [i \in Kept_ |-> held[i]] /\ coarse'.watermark = top
      /\ coarse'.holes = DOMAIN held \ Kept_ /\ coarse'.width = held[one].width
  BY <1>1 DEF top, one
<1>7. TableTyped'
  BY <1>1 DEF TableTyped
<1>8. FileTyped(coarse)'
  <2>1. top \in 0..lastRow /\ \A i \in DOMAIN held : i \in 1..top
    BY <1>2, <1>5
  <2>2. DOMAIN coarse'.rows = Kept_ /\ \A i \in Kept_ : coarse'.rows[i] = held[i]
    BY <1>6
  <2>3. coarse'.rows \in [DOMAIN coarse'.rows -> CoarseRows]
    BY <1>2, <1>3, <1>6
  <2>4. \A i \in Kept_ : i \in 1..top /\ i \notin coarse'.holes /\ held[i].vec # NoVec
    BY <1>3, <1>6, <2>1
  <2> QED
    BY <1>1, <1>4, <1>6, <2>1, <2>2, <2>3, <2>4 DEF FileTyped
<1>9. FileAnswers(coarse, named)'
  <2>1. DOMAIN coarse'.rows = Kept_ /\ \A i \in Kept_ : coarse'.rows[i] = held[i]
    BY <1>6
  <2> QED
    BY <1>1, <1>3, <1>6, <2>1 DEF FileAnswers
<1> QED
  BY <1>1, <1>7, <1>8, <1>9, ProbeKept DEF CoarseInv

\* A step of the search leaves the table, the file and the log.
LEMMA TablesKept ==
    ASSUME CoarseInv, UNCHANGED <<held, lastRow, coarse, named>>
    PROVE  TableTyped' /\ FileTyped(coarse)' /\ FileAnswers(coarse, named)'
<1>1. TableTyped /\ FileTyped(coarse) /\ FileAnswers(coarse, named)
  BY DEF CoarseInv
<1> QED
  BY <1>1 DEF TableTyped, FileTyped, FileAnswers

\* A probe opens the file and reads the change log.
LEMMA BeginProbeKeeps ==
    ASSUME CoarseInv, NEW q \in Queries, BeginProbe(q)
    PROVE  CoarseInv'
<1>1. /\ FileTyped(coarse) /\ FileAnswers(coarse, named) /\ coarse.width = QueryWidth
      /\ UNCHANGED <<held, lastRow, coarse, named>>
      /\ probe' = [st |-> "selected", query |-> q, index |-> coarse, changed |-> named, quiet |-> TRUE,
                   found |-> <<>>]
  BY DEF CoarseInv, BeginProbe, Loaded
<1>2. /\ probe'.st = "selected" /\ probe'.query = q /\ probe'.index = coarse /\ probe'.changed = named
      /\ probe'.quiet = TRUE /\ probe'.found = <<>>
  BY <1>1
<1>3. ProbeTyped'
  BY <1>1, <1>2 DEF ProbeTyped, Searching
<1>4. ProbeReads'
  BY <1>1, <1>2 DEF ProbeReads, FileTyped, FileAnswers
<1>5. ProbeRanked' /\ ProbeScored' /\ ProbeSeated'
  BY <1>2 DEF ProbeRanked, ProbeScored, ProbeSeated
<1> QED
  BY <1>1, <1>3, <1>4, <1>5, TablesKept DEF CoarseInv

\* A search that is over, or falls back to the live scan.
LEMMA NoProbeKeeps ==
    ASSUME CoarseInv, UNCHANGED <<held, lastRow, coarse, named>>, probe' = NoProbe
    PROVE  CoarseInv'
<1>1. probe'.st = "idle"
  BY DEF NoProbe
<1>2. ProbeTyped' /\ ProbeReads' /\ ProbeRanked' /\ ProbeScored' /\ ProbeSeated'
  BY <1>1 DEF ProbeTyped, ProbeReads, ProbeRanked, ProbeScored, ProbeSeated, Searching
<1> QED
  BY <1>2, TablesKept DEF CoarseInv

\* A selected row of the file is looked up, or the probe is given up.
LEMMA CheckLostKeeps ==
    ASSUME CoarseInv, CheckLost
    PROVE  CoarseInv'
<1>1. /\ ProbeTyped /\ ProbeReads /\ probe.st = "selected"
      /\ UNCHANGED <<held, lastRow, coarse, named>>
      /\ probe' = NoProbe \/ probe' = [probe EXCEPT !.st = "checked"]
  BY DEF CoarseInv, CheckLost
<1>2. CASE probe' = [probe EXCEPT !.st = "checked"]
  <2>1. probe.query \in Queries
        /\ probe' = [st |-> "checked", query |-> probe.query, index |-> probe.index, changed |-> probe.changed,
                     quiet |-> probe.quiet, found |-> probe.found]
    BY <1>1, <1>2 DEF ProbeTyped, Searching
  <2>2. /\ probe'.st = "checked" /\ probe'.query = probe.query /\ probe'.index = probe.index
        /\ probe'.changed = probe.changed /\ probe'.quiet = probe.quiet /\ probe'.found = probe.found
    BY <2>1
  <2>3. ProbeTyped'
    BY <2>1, <2>2 DEF ProbeTyped, Searching
  <2>4. ProbeReads'
    BY <1>1, <2>2 DEF ProbeReads, FileTyped, FileAnswers
  <2>5. ProbeRanked' /\ ProbeScored' /\ ProbeSeated'
    BY <2>2 DEF ProbeRanked, ProbeScored, ProbeSeated
  <2> QED
    BY <1>1, <2>3, <2>4, <2>5, TablesKept DEF CoarseInv
<1> QED
  BY <1>1, <1>2, NoProbeKeeps

\* The rows written since the file are ranked with the file's.
LEMMA RankTailKeeps ==
    ASSUME CoarseInv, RankTail
    PROVE  CoarseInv'
<1> DEFINE tail == Tail_(probe.index, probe.changed, probe.query.period)
           found == RankWith(probe.index, ProbeSelected, tail, probe.query)
<1>1. /\ ProbeTyped /\ ProbeReads /\ TableTyped /\ probe.st = "checked"
      /\ UNCHANGED <<held, lastRow, coarse, named>>
      /\ probe' = IF \E i \in tail : held[i].width # QueryWidth THEN NoProbe
                  ELSE [probe EXCEPT !.st = "ranked", !.found = found]
  BY DEF CoarseInv, RankTail
<1>2. CASE \A i \in tail : held[i].width = QueryWidth
  <2>0. PICK query \in Queries : query = probe.query
    BY <1>1 DEF ProbeTyped, Searching
  <2>1. PICK index, changed : query = probe.query /\ index = probe.index /\ changed = probe.changed
    BY <2>0
  <2>2. FileTyped(index) /\ index.width = QueryWidth /\ (probe.quiet => FileAnswers(index, changed))
    BY <1>1, <2>1 DEF ProbeReads
  <2>3. \A i \in Tail_(index, changed, query.period) : held[i].width = QueryWidth
    BY <1>2, <2>1
  <2>4. found = RankWith(index, Selected(index, changed, query.period), Tail_(index, changed, query.period), query)
    BY <2>1 DEF ProbeSelected
  <2> HIDE DEF found, tail
  <2>5. Spread(found) /\ (probe.quiet => found = FromLive(held, query))
    BY <1>1, <2>2, <2>3, <2>4, RankedFromFile
  <2>6. probe' = [st |-> "ranked", query |-> query, index |-> index, changed |-> changed,
                  quiet |-> probe.quiet, found |-> found]
    BY <1>1, <1>2, <2>1 DEF ProbeTyped, Searching
  <2>7. /\ probe'.st = "ranked" /\ probe'.query = query /\ probe'.index = index
        /\ probe'.changed = changed /\ probe'.quiet = probe.quiet /\ probe'.found = found
    BY <2>6
  <2>8. ProbeTyped'
    BY <2>6, <2>7 DEF ProbeTyped, Searching
  <2>9. FromLive(held, probe.query)' = FromLive(held, query)
    BY <1>1, <2>7
  <2>10. ProbeRanked'
    BY <2>5, <2>7, <2>9 DEF ProbeRanked
  <2>11. ProbeReads' /\ ProbeScored' /\ ProbeSeated'
    BY <2>7 DEF ProbeReads, ProbeScored, ProbeSeated
  <2> QED
    BY <1>1, <2>8, <2>10, <2>11, TablesKept DEF CoarseInv
<1>3. CASE \E i \in tail : held[i].width # QueryWidth
  BY <1>1, <1>3, NoProbeKeeps
<1> QED
  BY <1>2, <1>3

\* The ranked rows are looked up, or the probe is given up.
LEMMA CheckExistKeeps ==
    ASSUME CoarseInv, CheckExist
    PROVE  CoarseInv'
<1>1. /\ ProbeTyped /\ ProbeRanked /\ probe.st = "ranked"
      /\ UNCHANGED <<held, lastRow, coarse, named>>
      /\ probe' = NoProbe \/ probe' = [probe EXCEPT !.st = "candidates"]
  BY DEF CoarseInv, CheckExist
<1>2. CASE probe' = [probe EXCEPT !.st = "candidates"]
  <2>1. probe.query \in Queries
        /\ probe' = [st |-> "candidates", query |-> probe.query, index |-> probe.index, changed |-> probe.changed,
                     quiet |-> probe.quiet, found |-> probe.found]
    BY <1>1, <1>2 DEF ProbeTyped, Searching
  <2>2. /\ probe'.st = "candidates" /\ probe'.query = probe.query /\ probe'.index = probe.index
        /\ probe'.changed = probe.changed /\ probe'.quiet = probe.quiet /\ probe'.found = probe.found
    BY <2>1
  <2>3. ProbeTyped'
    BY <2>1, <2>2 DEF ProbeTyped, Searching
  <2>4. FromLive(held, probe.query)' = FromLive(held, probe.query)
    BY <1>1, <2>2
  <2>5. ProbeRanked'
    BY <1>1, <2>2, <2>4 DEF ProbeRanked
  <2>6. ProbeReads' /\ ProbeScored' /\ ProbeSeated'
    BY <2>2 DEF ProbeReads, ProbeScored, ProbeSeated
  <2> QED
    BY <1>1, <2>3, <2>5, <2>6, TablesKept DEF CoarseInv
<1> QED
  BY <1>1, <1>2, NoProbeKeeps


\* The candidates are scored against the table.
LEMMA ScoreCandidatesKeeps ==
    ASSUME CoarseInv, ScoreCandidates
    PROVE  CoarseInv'
<1> DEFINE kept == {n \in DOMAIN probe.found : Rescored(probe.found[n].id, probe.query.period)}
           hit(c) == [id |-> c.id, cosine |-> Cosine[held[c.id].vec], position |-> c.position]
           H == {hit(probe.found[n]) : n \in kept}
           better(a, b) == a.cosine > b.cosine \/ (a.cosine = b.cosine /\ a.position < b.position)
           S == {x \in H \X H : better(x[1], x[2])}
           N == Cardinality(H)
           order == InOrder(H, S)
<1>1. /\ ProbeTyped /\ ProbeRanked /\ TableTyped /\ probe.st = "candidates"
      /\ UNCHANGED <<held, lastRow, coarse, named>>
      /\ probe' = [probe EXCEPT !.st = "scored", !.found = Sequenced(H, LAMBDA a, b :
                     a.cosine > b.cosine \/ (a.cosine = b.cosine /\ a.position < b.position))]
  BY Zenon DEF CoarseInv, ScoreCandidates
<1>2. PICK len \in Nat : DOMAIN probe.found = 1..len
  BY <1>1 DEF ProbeRanked, Spread
<1>3. /\ \A n \in 1..len : probe.found[n].position \in Int
      /\ \A m, n \in 1..len : probe.found[m].id = probe.found[n].id \/ probe.found[m].position = probe.found[n].position
                                => m = n
  BY <1>1, <1>2 DEF ProbeRanked, Spread
<1>4. \A n \in kept : n \in 1..len /\ Cosine[held[probe.found[n].id].vec] \in Int
  <2>1. \A i : Rescored(i, probe.query.period) => i \in DOMAIN held /\ held[i].vec # NoVec
    BY DEF Rescored, Scannable
  <2>2. \A i \in DOMAIN held : held[i].vec # NoVec => held[i].vec \in DOMAIN Distance
    BY <1>1 DEF TableTyped, CoarseRows
  <2>3. \A v \in DOMAIN Distance : Cosine[v] \in Int
    BY CoarseAssumption DEF CoarseAssumption
  <2> QED
    BY <1>2, <2>1, <2>2, <2>3
<1>5. /\ \A h \in H : h.cosine \in Int /\ h.position \in Int
      /\ \A g, h \in H : g.id = h.id \/ g.position = h.position => g = h
  <2>1. ASSUME NEW h \in H  PROVE \E n \in kept : h = hit(probe.found[n])
    OBVIOUS
  <2> HIDE DEF H, kept
  <2>2. \A h \in H : h.cosine \in Int /\ h.position \in Int
    BY <1>3, <1>4, <2>1
  <2>3. ASSUME NEW g \in H, NEW h \in H, g.id = h.id \/ g.position = h.position  PROVE g = h
    <3>1. PICK m \in kept : g = hit(probe.found[m])
      BY <2>1
    <3>2. PICK n \in kept : h = hit(probe.found[n])
      BY <2>1
    <3>3. /\ g.id = probe.found[m].id /\ g.position = probe.found[m].position
          /\ h.id = probe.found[n].id /\ h.position = probe.found[n].position
      BY <3>1, <3>2
    <3>4. m = n
      BY <1>3, <1>4, <2>3, <3>3
    <3> QED
      BY <3>1, <3>2, <3>4
  <2> QED
    BY <2>2, <2>3
<1>6. IsFiniteSet(H)
  <2>1. kept \in SUBSET (1..len)
    BY <1>2
  <2>2. 1 \in Int /\ len \in Int
    OBVIOUS
  <2>3. IsFiniteSet(1..len)
    BY <2>2, FS_Interval
  <2> DEFINE f == [n \in kept |-> hit(probe.found[n])]
  <2>4. f \in [kept -> H] /\ \A h \in H : \E n \in kept : f[n] = h
    OBVIOUS
  <2> HIDE DEF f, H, kept
  <2>5. f \in Surjection(kept, H)
    BY <2>4, Fun_IsSurj
  <2>6. IsFiniteSet(kept)
    BY <2>1, <2>3, FS_Subset
  <2> QED
    BY <2>5, <2>6, FS_Surjection
<1> HIDE DEF H
<1>7. IsStrictOrder(H, S)
  <2>1. \A a, b \in H : <<a, b>> \in S <=> better(a, b)
    OBVIOUS
  <2> HIDE DEF S
  <2>2. \A a \in H : ~better(a, a)
    BY <1>5
  <2>3. \A a, b, c \in H : better(a, b) /\ better(b, c) => better(a, c)
    BY <1>5
  <2>4. \A a, b \in H : a = b \/ better(a, b) \/ better(b, a)
    BY <1>5
  <2> HIDE DEF better
  <2> QED
    BY <2>1, <2>2, <2>3, <2>4 DEF IsStrictOrder
<1>8. /\ N \in Nat /\ order \in [1..N -> H] /\ \A k \in 1..N : PlaceOf(H, S, order[k]) = k - 1
  <2> HIDE DEF S
  <2> QED
    BY <1>6, <1>7, InOrderFacts
<1>9. probe' = [probe EXCEPT !.st = "scored", !.found = order]
  <2> DEFINE early(c) == Cardinality({y \in H : better(y, c)})
  <2>1. \A c \in H : early(c) = PlaceOf(H, S, c)
    <3> TAKE c \in H
    <3>1. {y \in H : better(y, c)} = Ahead(H, S, c)
      BY DEF Ahead
    <3> QED
      BY <3>1 DEF PlaceOf
  <2>2. ASSUME NEW n
        PROVE  (CHOOSE c \in H : early(c) = n - 1) = CHOOSE c \in H : PlaceOf(H, S, c) = n - 1
    <3> HIDE DEF early, S
    <3> QED
      BY <2>1
  <2>3. [n \in 1..Cardinality(H) |-> CHOOSE c \in H : early(c) = n - 1] = order
    <3> HIDE DEF early, S
    <3> QED
      BY <2>2 DEF InOrder
  <2>4. probe' = [probe EXCEPT !.st = "scored",
                     !.found = [n \in 1..Cardinality(H) |-> CHOOSE c \in H : early(c) = n - 1]]
    BY <1>1 DEF Sequenced
  <2> HIDE DEF early, order
  <2> QED
    BY <2>3, <2>4
<1> HIDE DEF order, S
<1>10. /\ probe' = [st |-> "scored", query |-> probe.query, index |-> probe.index, changed |-> probe.changed,
                    quiet |-> probe.quiet, found |-> order]
       /\ probe.query \in Queries
  <2>1. probe = [st |-> probe.st, query |-> probe.query, index |-> probe.index, changed |-> probe.changed,
                 quiet |-> probe.quiet, found |-> probe.found] /\ probe.query \in Queries
    BY <1>1 DEF ProbeTyped, Searching
  <2> QED
    BY <1>9, <2>1
<1>11. /\ probe'.st = "scored" /\ probe'.query = probe.query /\ probe'.index = probe.index
       /\ probe'.changed = probe.changed /\ probe'.quiet = probe.quiet /\ probe'.found = order
  BY <1>10
<1>12. ProbeTyped'
  BY <1>10, <1>11 DEF ProbeTyped, Searching
<1>13. ProbeScored'
  <2>1. ASSUME NEW m \in 1..N, NEW n \in 1..N, order[m].id = order[n].id  PROVE m = n
    <3>1. order[m] = order[n]
      BY <1>5, <1>8, <2>1
    <3>2. m - 1 = n - 1 /\ m \in Int /\ n \in Int
      BY <1>8, <3>1
    <3> QED
      BY <3>2
  <2>2. DOMAIN order = 1..N
    BY <1>8
  <2> HIDE DEF N
  <2> QED
    BY <1>8, <1>11, <2>1, <2>2 DEF ProbeScored
<1>14. ProbeReads' /\ ProbeRanked' /\ ProbeSeated'
  BY <1>11 DEF ProbeReads, ProbeRanked, ProbeSeated
<1> QED
  BY <1>1, <1>12, <1>13, <1>14, TablesKept DEF CoarseInv

\* The far seats are given to rows of the agent.
LEMMA SeatRowsKeeps ==
    ASSUME CoarseInv, SeatRows
    PROVE  CoarseInv'
<1> DEFINE K == {n \in DOMAIN probe.found : probe.found[n].id \in DOMAIN held /\ held[probe.found[n].id].mine}
           S == {x \in K \X K : x[1] < x[2]}
           N == Cardinality(K)
           there == InOrder(K, S)
           m == Min({Seats, Len(there)})
<1>1. /\ ProbeScored /\ probe.st = "scored"
      /\ UNCHANGED <<held, lastRow, coarse, named>>
      /\ LET rows == Sequenced(K, LAMBDA i, j : i < j)
         IN  probe' = [st |-> "seated", query |-> probe.query, quiet |-> probe.quiet,
                       seats |-> [n \in 1..Min({Seats, Len(rows)}) |-> probe.found[rows[n]].id],
                       stored |-> held]
  BY Zenon DEF CoarseInv, SeatRows
<1>2. PICK len \in Nat : DOMAIN probe.found = 1..len
  BY <1>1 DEF ProbeScored
<1>3. /\ \A n \in K : n \in 1..len /\ n \in Int /\ probe.found[n].id \in DOMAIN held /\ held[probe.found[n].id].mine
      /\ \A i, j \in K : probe.found[i].id = probe.found[j].id => i = j
  <2>1. \A n \in 1..len : n \in Int
    OBVIOUS
  <2>2. \A i, j \in DOMAIN probe.found : probe.found[i].id = probe.found[j].id => i = j
    BY <1>1 DEF ProbeScored
  <2> HIDE DEF S, N, there, m
  <2> QED
    BY <1>2, <2>1, <2>2
<1>4. IsFiniteSet(K)
  <2>1. K \in SUBSET (1..len)
    BY <1>2
  <2>2. 1 \in Int /\ len \in Int
    OBVIOUS
  <2>3. IsFiniteSet(1..len)
    BY <2>2, FS_Interval
  <2> HIDE DEF K
  <2> QED
    BY <2>1, <2>3, FS_Subset
<1> HIDE DEF K
<1>5. IsStrictOrder(K, S)
  <2>1. \A i, j \in K : <<i, j>> \in S <=> i < j
    OBVIOUS
  <2> HIDE DEF S
  <2> QED
    BY <1>3, <2>1 DEF IsStrictOrder
<1>6. N \in Nat /\ there \in [1..N -> K] /\ \A k \in 1..N : PlaceOf(K, S, there[k]) = k - 1
  <2> HIDE DEF S
  <2> QED
    BY <1>4, <1>5, InOrderFacts
<1>7. probe' = [st |-> "seated", query |-> probe.query, quiet |-> probe.quiet,
                seats |-> [n \in 1..m |-> probe.found[there[n]].id], stored |-> held]
  <2> DEFINE early(i) == Cardinality({j \in K : j < i})
             rows == [n \in 1..Cardinality(K) |-> CHOOSE i \in K : early(i) = n - 1]
  <2>1. \A i \in K : early(i) = PlaceOf(K, S, i)
    <3> TAKE i \in K
    <3>1. {j \in K : j < i} = Ahead(K, S, i)
      BY DEF Ahead
    <3> QED
      BY <3>1 DEF PlaceOf
  <2>2. ASSUME NEW n
        PROVE  (CHOOSE i \in K : early(i) = n - 1) = CHOOSE i \in K : PlaceOf(K, S, i) = n - 1
    <3> HIDE DEF early, S
    <3> QED
      BY <2>1
  <2>3. rows = there
    <3> HIDE DEF early, S
    <3> QED
      BY <2>2 DEF InOrder
  <2>4. probe' = [st |-> "seated", query |-> probe.query, quiet |-> probe.quiet,
                  seats |-> [n \in 1..Min({Seats, Len(rows)}) |-> probe.found[rows[n]].id], stored |-> held]
    BY <1>1 DEF Sequenced
  <2> HIDE DEF rows, there
  <2> QED
    BY <2>3, <2>4
<1> HIDE DEF there, S
<1>8. m \in 0..N
  <2>1. Len(there) = N
    <3>1. there \in Seq(K)
      BY <1>6
    <3> QED
      BY <1>6, <3>1
  <2>2. Seats \in Nat
    BY CoarseAssumption DEF CoarseAssumption
  <2> HIDE DEF N
  <2>3. \E x \in {Seats, N} : \A y \in {Seats, N} : x <= y
    BY <1>6, <2>2
  <2>4. m \in {Seats, N} /\ \A y \in {Seats, N} : m <= y
    BY <2>1, <2>3 DEF Min
  <2> QED
    BY <1>6, <2>2, <2>4
<1> HIDE DEF m, N
<1>9. /\ probe'.st = "seated" /\ probe'.stored = held
      /\ DOMAIN probe'.seats = 1..m /\ \A n \in 1..m : probe'.seats[n] = probe.found[there[n]].id
  BY <1>7
<1>10. \A n \in 1..m : n \in 1..N /\ there[n] \in K
  BY <1>6, <1>8
<1>11. ProbeSeated'
  <2>1. ASSUME NEW a \in 1..m, NEW b \in 1..m, probe'.seats[a] = probe'.seats[b]  PROVE a = b
    <3>1. there[a] = there[b]
      BY <1>3, <1>9, <1>10, <2>1
    <3>2. a - 1 = b - 1 /\ a \in Int /\ b \in Int
      BY <1>6, <1>10, <3>1
    <3> QED
      BY <3>2
  <2>2. \A n \in 1..m : probe'.seats[n] \in DOMAIN probe'.stored /\ probe'.stored[probe'.seats[n]].mine
    BY <1>3, <1>9, <1>10
  <2> QED
    BY <1>9, <2>1, <2>2 DEF ProbeSeated
<1>12. ProbeTyped' /\ ProbeReads' /\ ProbeRanked' /\ ProbeScored'
  BY <1>9 DEF ProbeTyped, ProbeReads, ProbeRanked, ProbeScored, Searching
<1> QED
  BY <1>1, <1>11, <1>12, TablesKept DEF CoarseInv

\* No file and no probe.
LEMMA CoarseInitially == CoarseInit => CoarseInv
<1> SUFFICES ASSUME CoarseInit  PROVE CoarseInv
  OBVIOUS
<1>1. /\ held = <<>> /\ DOMAIN held = {} /\ lastRow = 0 /\ named = {} /\ probe.st = "idle"
      /\ coarse.rows = <<>> /\ DOMAIN coarse.rows = {} /\ coarse.watermark = 0 /\ coarse.holes = {}
  BY DEF CoarseInit, NoCoarse, NoProbe
<1>2. TableTyped
  BY <1>1 DEF TableTyped
<1>3. FileTyped(coarse) /\ FileAnswers(coarse, named)
  BY <1>1 DEF FileTyped, FileAnswers
<1>4. ProbeTyped /\ ProbeReads /\ ProbeRanked /\ ProbeScored /\ ProbeSeated
  BY <1>1 DEF ProbeTyped, ProbeReads, ProbeRanked, ProbeScored, ProbeSeated, Searching
<1> QED
  BY <1>2, <1>3, <1>4 DEF CoarseInv

\* Every step of a probe and of the writes beside it keeps it.
LEMMA CoarseSteps == CoarseInv /\ [CoarseNext]_coarseVars => CoarseInv'
<1> SUFFICES ASSUME CoarseInv, [CoarseNext]_coarseVars  PROVE CoarseInv'
  OBVIOUS
<1>1. CASE BuildCoarse
  BY <1>1, BuildCoarseKeeps
<1>2. CASE \E row \in RowValues : StoreRow(row)
  BY <1>2, StoreRowKeeps
<1>3. CASE \E i \in DOMAIN held, row \in RowValues : UpdateRow(i, row)
  BY <1>3, UpdateRowKeeps
<1>4. CASE \E i \in DOMAIN held : DeleteRow(i)
  BY <1>4, DeleteRowKeeps
<1>5. CASE \E i \in DOMAIN held, r \in RowValues, unlinked \in BOOLEAN : RestampRow(i, r.stamp, unlinked)
  BY <1>5, RestampRowKeeps
<1>6. CASE \E q \in Queries : BeginProbe(q)
  BY <1>6, BeginProbeKeeps
<1>7. CASE CheckLost
  BY <1>7, CheckLostKeeps
<1>8. CASE RankTail
  BY <1>8, RankTailKeeps
<1>9. CASE CheckExist
  BY <1>9, CheckExistKeeps
<1>10. CASE ScoreCandidates
  BY <1>10, ScoreCandidatesKeeps
<1>11. CASE SeatRows
  BY <1>11, SeatRowsKeeps
<1>12. CASE EndProbe
  BY <1>12, NoProbeKeeps DEF EndProbe
<1>13. CASE UNCHANGED coarseVars
  BY <1>13, ProbeKept, TablesKept DEF coarseVars, CoarseInv
<1> QED
  BY <1>1, <1>2, <1>3, <1>4, <1>5, <1>6, <1>7, <1>8, <1>9, <1>10, <1>11, <1>12, <1>13 DEF CoarseNext

\* A search through the file that no writer disturbed offers what the live scan would, at the
\* same places; a disturbed one offers no row twice; and every seat is a row of the scope.
THEOREM CoarseStaysExact == CoarseSpec => []CoarseAnswer
<1>1. CoarseInv => CoarseAnswer
  <2> SUFFICES ASSUME CoarseInv  PROVE CoarseAnswer
    OBVIOUS
  <2>1. ASSUME probe.st \in {"ranked", "candidates"}
        PROVE  /\ IsInjective([n \in DOMAIN probe.found |-> probe.found[n].id])
               /\ IsInjective([n \in DOMAIN probe.found |-> probe.found[n].position])
               /\ probe.quiet => probe.found = FromLive(held, probe.query)
    BY <2>1 DEF CoarseInv, ProbeRanked, Spread, IsInjective
  <2>2. ASSUME probe.st = "seated"
        PROVE  /\ IsInjective(probe.seats)
               /\ \A n \in DOMAIN probe.seats :
                    probe.seats[n] \in DOMAIN probe.stored /\ probe.stored[probe.seats[n]].mine
    BY <2>2 DEF CoarseInv, ProbeSeated, IsInjective
  <2> QED
    BY <2>1, <2>2 DEF CoarseAnswer
<1> QED
  BY <1>1, CoarseInitially, CoarseSteps, PTL DEF CoarseSpec

----------------------------------------------------------------------------
(* Associations: the tables stay in order, and the walk of traverse        *)

\* What the statements keep of the tables: ids below their counters, declarations that
\* name entities there are, and in each channel one entity a name or alias leads to.
EntitiesOk(g) == /\ g.entId \in Nat /\ DOMAIN g.ents \subseteq 1..g.entId
                 /\ g.ents \in [DOMAIN g.ents -> [chan : GraphChannels, name : EntityNames]]
                 /\ g.aliases \subseteq (DOMAIN g.ents) \X EntityNames
                 /\ g.mentions \subseteq (DOMAIN g.ents) \X GraphRecords
EndOk(g, x) == x \in {"entity"} \X (DOMAIN g.ents) \/ x \in {"mem"} \X GraphRecords
RelationsOk(g) == /\ g.relId \in Nat /\ IsFiniteSet(g.rels)
                  /\ \A x \in g.rels :
                        /\ x = [id |-> x.id, chan |-> x.chan, s |-> x.s, o |-> x.o, anchor |-> x.anchor]
                        /\ x.id \in 1..g.relId /\ EndOk(g, x.s) /\ EndOk(g, x.o)
OneEach(g) == \A c \in GraphChannels, n \in EntityNames : \A e, f \in Known(g, c, n) : e = f
ShapeOk(g) == g = [ents |-> g.ents, aliases |-> g.aliases, mentions |-> g.mentions, rels |-> g.rels,
                   entId |-> g.entId, relId |-> g.relId]
GraphOk(g) == ShapeOk(g) /\ EntitiesOk(g) /\ RelationsOk(g) /\ OneEach(g)
AssocInv == GraphOk(graph) /\ DOMAIN chanOf \subseteq GraphRecords

\* The lowest id of the entities of a name is one of them.
LEMMA LeastKnown ==
    ASSUME NEW g, EntitiesOk(g), NEW c, NEW n, Known(g, c, n) # {}
    PROVE  Least(Known(g, c, n)) \in Known(g, c, n)
<1>1. Known(g, c, n) \subseteq Nat
  BY DEF EntitiesOk, Known
<1>2. PICK e \in Known(g, c, n) : \A f \in Known(g, c, n) : e <= f
  BY <1>1, LeastNumber
<1> QED
  BY <1>2 DEF Least

\* What a name leads to is an entity of the table.
LEMMA KnownThere ==
    ASSUME NEW g, NEW c, NEW n
    PROVE  Known(g, c, n) \subseteq DOMAIN g.ents
BY DEF Known

\* What a name leads to: an entity of the own channel when there is one.
LEMMA ResolveFacts ==
    ASSUME NEW g, EntitiesOk(g), NEW c, NEW n, NEW exact \in BOOLEAN
    PROVE  /\ ResolveEntity(g, c, n, exact) \subseteq DOMAIN g.ents
           /\ exact => ResolveEntity(g, c, n, exact) \subseteq Known(g, c, n)
           /\ Known(g, c, n) # {} => /\ ResolveEntity(g, c, n, exact) = {Least(Known(g, c, n))}
                                     /\ Least(Known(g, c, n)) \in Known(g, c, n)
           /\ ResolveEntity(g, c, n, exact) # {} <=>
                \/ Known(g, c, n) # {}
                \/ ~exact /\ c # Global /\ Known(g, Global, n) # {}
<1>1. \A d : Known(g, d, n) # {} => Least(Known(g, d, n)) \in Known(g, d, n)
  BY LeastKnown
<1>2. \A d : Known(g, d, n) \subseteq DOMAIN g.ents
  BY KnownThere
<1> QED
  BY <1>1, <1>2 DEF ResolveEntity

\* h has what g has of the entities and aliases, and perhaps more.
Extends(h, g) == /\ DOMAIN g.ents \subseteq DOMAIN h.ents
                 /\ \A e \in DOMAIN g.ents : h.ents[e] = g.ents[e]
                 /\ g.aliases \subseteq h.aliases

\* A name goes on leading to what it led to.
LEMMA KnownStays ==
    ASSUME NEW g, NEW h, Extends(h, g), NEW c, NEW n
    PROVE  Known(g, c, n) \subseteq Known(h, c, n)
BY DEF Extends, Known

\* A name that resolves goes on resolving.
LEMMA ResolvedStays ==
    ASSUME NEW g, NEW h, EntitiesOk(g), EntitiesOk(h), Extends(h, g), NEW c, NEW n, NEW exact \in BOOLEAN,
           ResolveEntity(g, c, n, exact) # {}
    PROVE  ResolveEntity(h, c, n, exact) # {}
<1>1. \/ Known(g, c, n) # {}
      \/ ~exact /\ c # Global /\ Known(g, Global, n) # {}
  BY ResolveFacts
<1>2. Known(g, c, n) \subseteq Known(h, c, n) /\ Known(g, Global, n) \subseteq Known(h, Global, n)
  BY KnownStays
<1> QED
  BY <1>1, <1>2, ResolveFacts

\* Entities added to a channel under names it has not, each name once.
NewIn(h, g, c) == /\ Extends(h, g) /\ h.aliases = g.aliases /\ h.mentions = g.mentions
                  /\ h.rels = g.rels /\ h.relId = g.relId
                  /\ \A e \in (DOMAIN h.ents) \ (DOMAIN g.ents) :
                        /\ h.ents[e].chan = c /\ Known(g, c, h.ents[e].name) = {}
                        /\ \A f \in (DOMAIN h.ents) \ (DOMAIN g.ents) : h.ents[e].name = h.ents[f].name => e = f

\* Such entities leave the tables in order.
LEMMA NewEntitiesKeep ==
    ASSUME NEW g, GraphOk(g), NEW h, NEW c \in GraphChannels, NewIn(h, g, c), ShapeOk(h),
           h.entId \in Nat, DOMAIN h.ents \subseteq 1..h.entId,
           h.ents \in [DOMAIN h.ents -> [chan : GraphChannels, name : EntityNames]]
    PROVE  GraphOk(h)
<1>1. EntitiesOk(h)
  BY DEF GraphOk, EntitiesOk, NewIn, Extends
<1>2. RelationsOk(h)
  BY DEF GraphOk, RelationsOk, EndOk, NewIn, Extends
<1>3. ASSUME NEW d \in GraphChannels, NEW n \in EntityNames, NEW e \in Known(h, d, n), NEW f \in Known(h, d, n)
      PROVE  e = f
  <2>1. \A k \in Known(h, d, n) : \/ k \in DOMAIN g.ents /\ k \in Known(g, d, n)
                                  \/ /\ k \in (DOMAIN h.ents) \ (DOMAIN g.ents)
                                     /\ h.ents[k].name = n /\ d = c
    BY DEF Known, NewIn, Extends, GraphOk, EntitiesOk
  <2>2. Known(g, d, n) # {} => \A k \in (DOMAIN h.ents) \ (DOMAIN g.ents) : ~(h.ents[k].name = n /\ d = c)
    BY DEF NewIn
  <2>3. CASE e \in Known(g, d, n)
    BY <2>1, <2>2, <2>3 DEF GraphOk, OneEach
  <2>4. CASE e \notin Known(g, d, n)
    BY <2>1, <2>2, <2>4 DEF NewIn
  <2> QED
    BY <2>3, <2>4
<1> QED
  BY <1>1, <1>2, <1>3 DEF GraphOk, OneEach

\* Aliases added to entities of a channel, none of which led to another entity of it.
LEMMA NewAliasesKeep ==
    ASSUME NEW g, GraphOk(g), NEW h, ShapeOk(h), NEW c \in GraphChannels,
           h.ents = g.ents, h.entId = g.entId, h.rels = g.rels, h.relId = g.relId,
           h.mentions \subseteq (DOMAIN g.ents) \X GraphRecords,
           NEW A, A \subseteq (DOMAIN g.ents) \X EntityNames, h.aliases = g.aliases \cup A,
           \A a \in A : g.ents[a[1]].chan = c /\ Known(g, c, a[2]) \subseteq {a[1]},
           \A a, b \in A : a[2] = b[2] => a[1] = b[1]
    PROVE  GraphOk(h)
<1>1. EntitiesOk(h)
  BY DEF GraphOk, EntitiesOk
<1>2. RelationsOk(h)
  BY DEF GraphOk, RelationsOk, EndOk
<1>3. ASSUME NEW d \in GraphChannels, NEW n \in EntityNames, NEW e \in Known(h, d, n), NEW f \in Known(h, d, n)
      PROVE  e = f
  <2>1. \A k \in Known(h, d, n) : k \in Known(g, d, n) \/ (d = c /\ <<k, n>> \in A)
    BY DEF Known, GraphOk, EntitiesOk
  <2>2. \A k, l : <<k, n>> \in A /\ <<l, n>> \in A => k = l
    OBVIOUS
  <2>3. \A k : <<k, n>> \in A /\ d = c => Known(g, d, n) \subseteq {k}
    OBVIOUS
  <2> QED
    BY <2>1, <2>2, <2>3 DEF GraphOk, OneEach
<1> QED
  BY <1>1, <1>2, <1>3 DEF GraphOk, OneEach

\* The same entities and aliases, other mentions and relations.
LEMMA OtherDeclarationsKeep ==
    ASSUME NEW g, GraphOk(g), NEW h, ShapeOk(h), h.ents = g.ents, h.entId = g.entId, h.aliases = g.aliases,
           h.mentions \subseteq (DOMAIN g.ents) \X GraphRecords, RelationsOk(h)
    PROVE  GraphOk(h)
<1>1. EntitiesOk(h)
  BY DEF GraphOk, EntitiesOk
<1>2. OneEach(h)
  BY DEF GraphOk, OneEach, Known
<1> QED
  BY <1>1, <1>2 DEF GraphOk

\* Registering a name leaves the tables in order and the name resolved.
LEMMA RegisteredKeeps ==
    ASSUME NEW g, GraphOk(g), NEW c \in GraphChannels, NEW n \in EntityNames, NEW exact \in BOOLEAN
    PROVE  /\ GraphOk(Registered(g, c, n, exact)) /\ Extends(Registered(g, c, n, exact), g)
           /\ ResolveEntity(Registered(g, c, n, exact), c, n, exact) # {}
           /\ Registered(g, c, n, exact).mentions = g.mentions
<1> PICK h : h = Registered(g, c, n, exact)
  OBVIOUS
<1>1. CASE ResolveEntity(g, c, n, exact) # {}
  <2>1. h = g
    BY <1>1 DEF Registered
  <2> QED
    BY <1>1, <2>1 DEF Extends
<1>2. CASE ResolveEntity(g, c, n, exact) = {}
  <2> DEFINE new == g.entId + 1
             ents == [e \in DOMAIN g.ents \cup {new} |-> IF e = new THEN [chan |-> c, name |-> n] ELSE g.ents[e]]
  <2>1. h = [ents |-> ents, aliases |-> g.aliases, mentions |-> g.mentions, rels |-> g.rels,
             entId |-> new, relId |-> g.relId]
    BY <1>2 DEF Registered, GraphOk, ShapeOk
  <2>2. Known(g, c, n) = {}
    BY <1>2, ResolveFacts DEF GraphOk
  <2>3. g.entId \in Nat /\ new \in Nat /\ new \notin DOMAIN g.ents /\ DOMAIN ents \subseteq 1..new
    BY DEF GraphOk, EntitiesOk
  <2>4. ents \in [DOMAIN ents -> [chan : GraphChannels, name : EntityNames]]
    <3>1. [chan |-> c, name |-> n] \in [chan : GraphChannels, name : EntityNames]
      OBVIOUS
    <3> QED
      BY <3>1 DEF GraphOk, EntitiesOk
  <2>5. ents[new].chan = c /\ ents[new].name = n /\ \A e \in DOMAIN g.ents : ents[e] = g.ents[e]
    BY <2>3
  <2>5a. DOMAIN ents = DOMAIN g.ents \cup {new}
    OBVIOUS
  <2> HIDE DEF ents, new
  <2>6. NewIn(h, g, c) /\ ShapeOk(h)
    BY <2>1, <2>2, <2>3, <2>5, <2>5a DEF NewIn, Extends, ShapeOk
  <2>7. GraphOk(h)
    BY <2>1, <2>3, <2>4, <2>6, NewEntitiesKeep
  <2>8. new \in Known(h, c, n)
    BY <2>1, <2>5, <2>5a DEF Known
  <2>9. ResolveEntity(h, c, n, exact) # {}
    BY <2>7, <2>8, ResolveFacts DEF GraphOk
  <2> QED
    BY <2>6, <2>7, <2>9 DEF NewIn
<1> QED
  BY <1>1, <1>2

\* An alias that is not refused leads to no other entity of the channel.
LEMMA NotRefused ==
    ASSUME NEW g, GraphOk(g), NEW c \in GraphChannels, NEW e, NEW n \in EntityNames, ~AliasRefused(g, c, e, n)
    PROVE  Known(g, c, n) \subseteq {e}
<1>1. CASE Known(g, c, n) # {}
  <2>1. /\ ResolveEntity(g, c, n, FALSE) = {Least(Known(g, c, n))}
        /\ Least(Known(g, c, n)) \in Known(g, c, n)
    BY <1>1, ResolveFacts DEF GraphOk
  <2>2. Least(Known(g, c, n)) = e
    BY <2>1 DEF AliasRefused
  <2> QED
    BY <2>1, <2>2 DEF GraphOk, OneEach
<1> QED
  BY <1>1

\* A relation between ends that exist leaves them in order.
LEMMA WithRelationKeeps ==
    ASSUME NEW g, GraphOk(g), NEW c, NEW s, NEW o, EndOk(g, s), EndOk(g, o), NEW anchor
    PROVE  GraphOk(WithRelation(g, c, s, o, anchor))
<1> PICK h : h = WithRelation(g, c, s, o, anchor)
  OBVIOUS
<1> DEFINE x == [id |-> g.relId + 1, chan |-> c, s |-> s, o |-> o, anchor |-> anchor]
<1>1. CASE h = g
  BY <1>1
<1>2. CASE h # g
  <2>1. h = [ents |-> g.ents, aliases |-> g.aliases, mentions |-> g.mentions, rels |-> g.rels \cup {x},
             entId |-> g.entId, relId |-> g.relId + 1]
    BY <1>2 DEF WithRelation, GraphOk, ShapeOk
  <2>2. g.relId \in Nat /\ IsFiniteSet(g.rels)
    BY DEF GraphOk, RelationsOk
  <2>3. x.id = g.relId + 1 /\ x.s = s /\ x.o = o /\ x.chan = c /\ x.anchor = anchor
    OBVIOUS
  <2> HIDE DEF x
  <2>4. IsFiniteSet(g.rels \cup {x})
    BY <2>2, FS_AddElement
  <2>5. RelationsOk(h)
    <3>1. ASSUME NEW y \in h.rels
          PROVE  /\ y = [id |-> y.id, chan |-> y.chan, s |-> y.s, o |-> y.o, anchor |-> y.anchor]
                 /\ y.id \in 1..h.relId /\ EndOk(h, y.s) /\ EndOk(h, y.o)
      <4>1. CASE y \in g.rels
        BY <2>1, <2>2, <4>1 DEF GraphOk, RelationsOk, EndOk
      <4>2. CASE y = x
        <5>1. y = [id |-> y.id, chan |-> y.chan, s |-> y.s, o |-> y.o, anchor |-> y.anchor]
          BY <4>2 DEF x
        <5> QED
          BY <2>1, <2>2, <2>3, <4>2, <5>1 DEF EndOk
      <4> QED
        BY <2>1, <4>1, <4>2
    <3> QED
      BY <2>1, <2>2, <2>4, <3>1 DEF RelationsOk
  <2>6. h.mentions \subseteq (DOMAIN g.ents) \X GraphRecords /\ ShapeOk(h)
    BY <2>1 DEF GraphOk, EntitiesOk, ShapeOk
  <2> QED
    BY <2>1, <2>5, <2>6, OtherDeclarationsKeep
<1> QED
  BY <1>1, <1>2

\* declare_entity: the name registered, then its alias and mention (associations.py).
LEMMA DeclareEntityKeeps ==
    ASSUME AssocInv, NEW c \in GraphChannels, NEW n \in EntityNames, NEW alias \in EntityNames \cup {NoName}, NEW r,
           DeclareEntity(c, n, alias, r)
    PROVE  AssocInv'
<1> DEFINE exact == alias # NoName
           g == Registered(graph, c, n, exact)
           e == CHOOSE x \in ResolveEntity(g, c, n, exact) : TRUE
           A == IF alias = NoName \/ AliasRefused(g, c, e, alias) THEN {} ELSE {<<e, alias>>}
           M == IF AnchorOf(r) = NoAnchor THEN {} ELSE {<<e, r>>}
<1>1. GraphOk(g) /\ g.mentions = graph.mentions /\ ResolveEntity(g, c, n, exact) # {}
  BY RegisteredKeeps DEF AssocInv
<1>2. e \in ResolveEntity(g, c, n, exact)
  BY <1>1
<1>3. e \in DOMAIN g.ents /\ (exact => e \in Known(g, c, n))
  BY <1>1, <1>2, ResolveFacts DEF GraphOk
<1>4. graph' = [g EXCEPT !.aliases = IF alias = NoName \/ AliasRefused(g, c, e, alias)
                                     THEN @ ELSE @ \cup {<<e, alias>>},
                         !.mentions = IF AnchorOf(r) = NoAnchor THEN @ ELSE @ \cup {<<e, r>>}]
      /\ chanOf' = chanOf
  BY Zenon DEF DeclareEntity
<1>5. ASSUME AnchorOf(r) # NoAnchor  PROVE r \in GraphRecords
  BY <1>5 DEF AnchorOf, AssocInv
<1>6. \A a \in A : a = <<e, alias>> /\ exact /\ alias \in EntityNames /\ Known(g, c, alias) \subseteq {e}
  <2> HIDE DEF g, e
  <2> QED
    BY <1>1, NotRefused
<1>7. exact => g.ents[e].chan = c
  <2> HIDE DEF g, e
  <2> QED
    BY <1>3 DEF Known
<1> HIDE DEF g, e
<1>8. graph' = [ents |-> g.ents, aliases |-> g.aliases \cup A, mentions |-> g.mentions \cup M, rels |-> g.rels,
                entId |-> g.entId, relId |-> g.relId]
  BY <1>1, <1>4 DEF GraphOk, ShapeOk
<1>9. g.mentions \cup M \subseteq (DOMAIN g.ents) \X GraphRecords
  BY <1>1, <1>3, <1>5 DEF GraphOk, EntitiesOk
<1>10. /\ A \subseteq (DOMAIN g.ents) \X EntityNames
       /\ \A a \in A : g.ents[a[1]].chan = c /\ Known(g, c, a[2]) \subseteq {a[1]}
       /\ \A a, b \in A : a[2] = b[2] => a[1] = b[1]
  BY <1>3, <1>6, <1>7
<1> HIDE DEF A, M
<1> PICK h : h = graph'
  OBVIOUS
<1>11. /\ ShapeOk(h) /\ h.ents = g.ents /\ h.entId = g.entId /\ h.rels = g.rels /\ h.relId = g.relId
       /\ h.mentions \subseteq (DOMAIN g.ents) \X GraphRecords /\ h.aliases = g.aliases \cup A
  BY <1>8, <1>9 DEF ShapeOk
<1>12. GraphOk(h)
  BY <1>1, <1>10, <1>11, NewAliasesKeep
<1> QED
  BY <1>4, <1>12 DEF AssocInv, GraphOk, ShapeOk, EntitiesOk, RelationsOk, OneEach, EndOk, Known

\* declare_relation: both ends registered before the relation names them.
LEMMA DeclareRelationKeeps ==
    ASSUME AssocInv, NEW c \in GraphChannels, NEW s \in EndPoints, NEW o \in EndPoints, NEW r,
           DeclareRelation(c, s, o, r)
    PROVE  AssocInv'
<1> DEFINE g1 == IF s[1] = "name" THEN Registered(graph, c, s[2], FALSE) ELSE graph
           g2 == IF o[1] = "name" THEN Registered(g1, c, o[2], FALSE) ELSE g1
           end(x) == IF x[1] = "mem" THEN x
                     ELSE Entity(CHOOSE e \in ResolveEntity(g2, c, x[2], FALSE) : TRUE)
<1>1. /\ \A x \in {s, o} : x[1] = "mem" => x[2] \in DOMAIN chanOf
      /\ graph' = WithRelation(g2, c, end(s), end(o), AnchorOf(r)) /\ chanOf' = chanOf
  BY Zenon DEF DeclareRelation
<1>2. \A x \in {s, o} : \/ x[1] = "name" /\ x[2] \in EntityNames
                        \/ x[1] = "mem" /\ x[2] \in GraphRecords /\ x = <<"mem", x[2]>>
  BY DEF EndPoints, Memory
<1>3. GraphOk(g1) /\ (s[1] = "name" => ResolveEntity(g1, c, s[2], FALSE) # {})
  BY <1>2, RegisteredKeeps DEF AssocInv
<1>4. /\ GraphOk(g2) /\ (o[1] = "name" => ResolveEntity(g2, c, o[2], FALSE) # {})
      /\ (s[1] = "name" => ResolveEntity(g2, c, s[2], FALSE) # {})
  <2> HIDE DEF g1
  <2>1. CASE o[1] = "name"
    <3>1. GraphOk(g2) /\ Extends(g2, g1) /\ ResolveEntity(g2, c, o[2], FALSE) # {}
      BY <1>2, <1>3, <2>1, RegisteredKeeps
    <3> HIDE DEF g2
    <3>2. s[1] = "name" => ResolveEntity(g2, c, s[2], FALSE) # {}
      BY <1>3, <3>1, ResolvedStays DEF GraphOk
    <3> QED
      BY <3>1, <3>2
  <2>2. CASE o[1] # "name"
    BY <1>3, <2>2
  <2> QED
    BY <2>1, <2>2
<1> HIDE DEF g1, g2
<1>5. ASSUME NEW x \in {s, o}  PROVE EndOk(g2, end(x))
  <2>1. CASE x[1] = "mem"
    BY <1>2, <2>1 DEF EndOk
  <2>2. CASE x[1] # "mem"
    <3>1. ResolveEntity(g2, c, x[2], FALSE) # {} /\ ResolveEntity(g2, c, x[2], FALSE) \subseteq DOMAIN g2.ents
      BY <1>2, <1>4, <2>2, ResolveFacts DEF GraphOk
    <3> DEFINE e == CHOOSE f \in ResolveEntity(g2, c, x[2], FALSE) : TRUE
    <3>2. e \in DOMAIN g2.ents /\ end(x) = <<"entity", e>>
      BY <2>2, <3>1 DEF Entity
    <3> HIDE DEF e, end
    <3> QED
      BY <3>2 DEF EndOk
  <2> QED
    BY <2>1, <2>2
<1> PICK h : h = graph'
  OBVIOUS
<1>6. GraphOk(h)
  <2>1. EndOk(g2, end(s)) /\ EndOk(g2, end(o))
    BY <1>5
  <2> HIDE DEF end
  <2> QED
    BY <1>1, <1>4, <2>1, WithRelationKeeps
<1>7. chanOf' = chanOf
  BY <1>1
<1> QED
  BY <1>6, <1>7 DEF AssocInv, GraphOk, ShapeOk, EntitiesOk, RelationsOk, OneEach, EndOk, Known

\* Fewer mentions and relations.
LEMMA FewerDeclarationsKeep ==
    ASSUME NEW g, GraphOk(g), NEW M, M \subseteq g.mentions, NEW R, R \subseteq g.rels, NEW h,
           h = [ents |-> g.ents, aliases |-> g.aliases, mentions |-> M, rels |-> R,
                entId |-> g.entId, relId |-> g.relId]
    PROVE  GraphOk(h)
<1>1. IsFiniteSet(R)
  <2>1. IsFiniteSet(g.rels) /\ R \in SUBSET g.rels
    BY DEF GraphOk, RelationsOk
  <2> QED
    BY <2>1, FS_Subset
<1>2. RelationsOk(h)
  BY <1>1 DEF GraphOk, RelationsOk, EndOk
<1>3. ShapeOk(h) /\ h.mentions \subseteq (DOMAIN g.ents) \X GraphRecords
  BY DEF ShapeOk, GraphOk, EntitiesOk
<1> QED
  BY <1>2, <1>3, OtherDeclarationsKeep

\* retract takes a relation or a mention.
LEMMA RetractKeeps ==
    ASSUME AssocInv, Retract
    PROVE  AssocInv'
<1>1. PICK M, R : /\ M \subseteq graph.mentions /\ R \subseteq graph.rels
                  /\ graph' = [ents |-> graph.ents, aliases |-> graph.aliases, mentions |-> M, rels |-> R,
                               entId |-> graph.entId, relId |-> graph.relId]
  <2>1. CASE \E x \in graph.rels : graph' = [graph EXCEPT !.rels = @ \ {x}]
    <3>1. PICK x \in graph.rels : graph' = [graph EXCEPT !.rels = @ \ {x}]
      BY <2>1
    <3>2. graph' = [ents |-> graph.ents, aliases |-> graph.aliases, mentions |-> graph.mentions,
                    rels |-> graph.rels \ {x}, entId |-> graph.entId, relId |-> graph.relId]
      BY <3>1 DEF AssocInv, GraphOk, ShapeOk
    <3> QED
      BY <3>2
  <2>2. CASE \E m \in graph.mentions : graph' = [graph EXCEPT !.mentions = @ \ {m}]
    <3>1. PICK m \in graph.mentions : graph' = [graph EXCEPT !.mentions = @ \ {m}]
      BY <2>2
    <3>2. graph' = [ents |-> graph.ents, aliases |-> graph.aliases, mentions |-> graph.mentions \ {m},
                    rels |-> graph.rels, entId |-> graph.entId, relId |-> graph.relId]
      BY <3>1 DEF AssocInv, GraphOk, ShapeOk
    <3> QED
      BY <3>2
  <2> QED
    BY <2>1, <2>2 DEF Retract
<1> PICK h : h = graph'
  OBVIOUS
<1>2. GraphOk(h)
  BY <1>1, FewerDeclarationsKeep DEF AssocInv
<1> QED
  BY <1>2 DEF Retract, AssocInv, GraphOk, ShapeOk, EntitiesOk, RelationsOk, OneEach, EndOk, Known

\* The triggers on a deleted memory take its mentions and relations.
LEMMA DeleteMemoryKeeps ==
    ASSUME AssocInv, NEW r \in GraphRecords, DeleteMemory(r)
    PROVE  AssocInv'
<1> DEFINE M == {m \in graph.mentions : m[2] # r}
           R == {x \in graph.rels \ Touching(graph, Memory(r)) : x.anchor # r}
<1>1. graph' = [ents |-> graph.ents, aliases |-> graph.aliases, mentions |-> M, rels |-> R,
                entId |-> graph.entId, relId |-> graph.relId]
  BY DEF DeleteMemory, AssocInv, GraphOk, ShapeOk
<1>2. M \subseteq graph.mentions /\ R \subseteq graph.rels
  OBVIOUS
<1> HIDE DEF M, R
<1> PICK h : h = graph'
  OBVIOUS
<1>3. GraphOk(h)
  BY <1>1, <1>2, FewerDeclarationsKeep DEF AssocInv
<1>4. DOMAIN chanOf' \subseteq GraphRecords
  BY DEF DeleteMemory, AssocInv
<1> QED
  BY <1>3, <1>4 DEF AssocInv, GraphOk, ShapeOk, EntitiesOk, RelationsOk, OneEach, EndOk, Known

\* The triggers on deleted entities leave nothing that names them.
LEMMA WithoutEntitiesKeeps ==
    ASSUME NEW g, GraphOk(g), NEW gone
    PROVE  GraphOk(WithoutEntities(g, gone))
<1> PICK h : h = WithoutEntities(g, gone)
  OBVIOUS
<1> DEFINE kept == (DOMAIN g.ents) \ gone
           ents == [e \in kept |-> g.ents[e]]
           aliases == {a \in g.aliases : a[1] \notin gone}
           mentions == {m \in g.mentions : m[1] \notin gone}
           rels == g.rels \ UNION {Touching(g, Entity(e)) : e \in gone}
<1>1. h = [ents |-> ents, aliases |-> aliases, mentions |-> mentions, rels |-> rels,
           entId |-> g.entId, relId |-> g.relId]
  BY DEF WithoutEntities, GraphOk, ShapeOk
<1>2. EntitiesOk(h)
  <2>1. /\ g.entId \in Nat /\ DOMAIN g.ents \subseteq 1..g.entId
        /\ \A e \in DOMAIN g.ents : g.ents[e] \in [chan : GraphChannels, name : EntityNames]
        /\ g.aliases \subseteq (DOMAIN g.ents) \X EntityNames
        /\ g.mentions \subseteq (DOMAIN g.ents) \X GraphRecords
    BY DEF GraphOk, EntitiesOk
  <2>2. ents \in [kept -> [chan : GraphChannels, name : EntityNames]] /\ DOMAIN ents = kept
    BY <2>1
  <2>3. aliases \subseteq kept \X EntityNames /\ mentions \subseteq kept \X GraphRecords
    BY <2>1
  <2> QED
    BY <1>1, <2>1, <2>2, <2>3 DEF EntitiesOk
<1>3. RelationsOk(h)
  <2>1. \A x \in rels : x \in g.rels /\ \A e \in gone : x.s # Entity(e) /\ x.o # Entity(e)
    BY DEF Touching
  <2>2. \A x \in rels : \A z \in {x.s, x.o} : EndOk(g, z) => EndOk(h, z)
    <3> SUFFICES ASSUME NEW x \in rels, NEW z \in {x.s, x.o}, EndOk(g, z)  PROVE EndOk(h, z)
      OBVIOUS
    <3>1. \A e \in gone : z # Entity(e)
      BY <2>1
    <3>2. CASE z \in {"entity"} \X (DOMAIN g.ents)
      <4>1. z = Entity(z[2]) /\ z[2] \in DOMAIN g.ents
        BY <3>2 DEF Entity
      <4>2. z[2] \in kept
        BY <3>1, <4>1
      <4>3. DOMAIN h.ents = kept
        BY <1>1
      <4> QED
        BY <4>1, <4>2, <4>3 DEF EndOk, Entity
    <3>3. CASE z \in {"mem"} \X GraphRecords
      BY <3>3 DEF EndOk
    <3> QED
      BY <3>2, <3>3 DEF EndOk
  <2>3. g.relId \in Nat /\ IsFiniteSet(g.rels)
    BY DEF GraphOk, RelationsOk
  <2>4. rels \in SUBSET g.rels
    OBVIOUS
  <2>5. IsFiniteSet(rels)
    BY <2>3, <2>4, FS_Subset
  <2> HIDE DEF rels, ents, aliases, mentions
  <2> QED
    BY <1>1, <2>1, <2>2, <2>3, <2>5 DEF GraphOk, RelationsOk
<1>4. OneEach(h)
  <2>1. \A c \in GraphChannels, n \in EntityNames : Known(h, c, n) \subseteq Known(g, c, n)
    BY <1>1 DEF Known
  <2> QED
    BY <2>1 DEF GraphOk, OneEach
<1>5. ShapeOk(h)
  BY <1>1 DEF ShapeOk
<1> QED
  BY <1>2, <1>3, <1>4, <1>5 DEF GraphOk

\* What the migration removes of the originals leaves the rest in order.
LEMMA SettledKeeps ==
    ASSUME NEW g, GraphOk(g), NEW carried, NEW gone, NEW copied, NEW incomplete
    PROVE  GraphOk(Settled(g, carried, gone, copied, incomplete))
<1> DEFINE left == [g EXCEPT !.mentions = @ \ gone.mentions, !.rels = @ \ gone.rels]
<1>1. left = [ents |-> g.ents, aliases |-> g.aliases, mentions |-> g.mentions \ gone.mentions,
              rels |-> g.rels \ gone.rels, entId |-> g.entId, relId |-> g.relId]
  <2> PICK M, R : M = gone.mentions /\ R = gone.rels
    OBVIOUS
  <2>1. left = [g EXCEPT !.mentions = @ \ M, !.rels = @ \ R]
    BY Zenon
  <2> HIDE DEF left
  <2> QED
    BY <2>1 DEF GraphOk, ShapeOk
<1>2. g.mentions \ gone.mentions \subseteq g.mentions /\ g.rels \ gone.rels \subseteq g.rels
  OBVIOUS
<1> DEFINE removed == {e \in carried \ incomplete :
                         /\ \A m \in left.mentions : m[1] # e
                         /\ Touching(left, Entity(e)) \subseteq copied \cup gone.rels}
<1>3. Settled(g, carried, gone, copied, incomplete) = WithoutEntities(left, removed)
  BY Zenon DEF Settled
<1> HIDE DEF left, removed
<1>4. GraphOk(left)
  BY <1>1, <1>2, FewerDeclarationsKeep
<1> QED
  BY <1>3, <1>4, WithoutEntitiesKeeps

\* The count of a part of a finite set that holds a given element.
LEMMA CountOfPart ==
    ASSUME NEW S, IsFiniteSet(S), NEW T \in SUBSET S, NEW x \in T
    PROVE  Cardinality(S) \in Nat /\ Cardinality(T) \in 1..Cardinality(S)
<1>1. IsFiniteSet(T) /\ Cardinality(T) <= Cardinality(S)
  BY FS_Subset
<1>2. Cardinality(S) \in Nat /\ Cardinality(T) \in Nat
  BY <1>1, FS_CardinalityType
<1>3. Cardinality(T) # 0
  BY <1>1, FS_EmptySet
<1> QED
  BY <1>1, <1>2, <1>3

\* The values of a function on a finite set are finitely many.
LEMMA FiniteImageOf ==
    ASSUME NEW S, IsFiniteSet(S), NEW f, DOMAIN f = S
    PROVE  IsFiniteSet({f[x] : x \in S})
<1> DEFINE T == {f[x] : x \in S}
           g == [x \in S |-> f[x]]
<1>1. g \in [S -> T] /\ \A t \in T : \E x \in S : g[x] = t
  OBVIOUS
<1> HIDE DEF T, g
<1>2. g \in Surjection(S, T)
  BY <1>1, Fun_IsSurj
<1>3. IsFiniteSet(T)
  BY <1>2, FS_Surjection
<1> QED
  BY <1>3 DEF T

\* What carry() takes of the channel's declarations.
LEMMA TakenFacts ==
    ASSUME AssocInv, NEW c, NEW lands
    PROVE  /\ EntitiesTo(c, lands) \subseteq Filed
           /\ \A m \in MentionsTo(c, lands) : m \in graph.mentions /\ m[1] \in EntitiesTo(c, lands)
           /\ RelsTo(c, lands) \subseteq graph.rels /\ CopiedTo(c, lands) \subseteq graph.rels
BY DEF EntitiesTo, MentionsTo, RelsTo, CopiedTo, FiledRels

\* Two entities of the bridge channel have different names and aliases.
LEMMA FiledApart ==
    ASSUME AssocInv, NEW g, GraphOk(g), Extends(g, graph), NEW e \in Filed, NEW f \in Filed,
           NEW n \in EntityNames,
           g.ents[e].name = n \/ <<e, n>> \in g.aliases, g.ents[f].name = n \/ <<f, n>> \in g.aliases
    PROVE  e = f
<1>1. Bridge \in GraphChannels
  BY DEF GraphChannels
<1>2. e \in Known(g, Bridge, n) /\ f \in Known(g, Bridge, n)
  BY DEF Filed, Extends, Known
<1> QED
  BY <1>1, <1>2 DEF GraphOk, OneEach

UpTo(S, n) == {k \in S : k <= n}

\* Two numbers with as many numbers of a set up to the one as up to the other are one.
LEMMA PlacesDiffer ==
    ASSUME NEW S, IsFiniteSet(S), S \subseteq Nat, NEW e \in S, NEW f \in S,
           Cardinality(UpTo(S, e)) = Cardinality(UpTo(S, f))
    PROVE  e = f
<1>1. ASSUME NEW a \in S, NEW b \in S, a < b
      PROVE  Cardinality(UpTo(S, a)) # Cardinality(UpTo(S, b))
  <2> DEFINE A == UpTo(S, a)
             B == UpTo(S, b)
  <2>1. A \in SUBSET B /\ b \in B /\ b \notin A /\ B \in SUBSET S
    <3>1. a \in Nat /\ b \in Nat /\ \A k \in S : k \in Nat
      OBVIOUS
    <3>2. \A k \in S : k <= a => k <= b
      BY <1>1, <3>1
    <3>3. b <= b /\ ~(b <= a)
      BY <1>1, <3>1
    <3> QED
      BY <3>2, <3>3 DEF UpTo
  <2> HIDE DEF A, B
  <2>2. IsFiniteSet(B)
    BY <2>1, FS_Subset
  <2>3. Cardinality(A) # Cardinality(B)
    BY <2>1, <2>2, FS_Subset
  <2> QED
    BY <2>3 DEF A, B
<1>2. e \in Nat /\ f \in Nat
  OBVIOUS
<1>3. e < f \/ f < e \/ e = f
  BY <1>2
<1> QED
  BY <1>1, <1>3

\* The entities of the channel that stand for the carried ones.
LEMMA StandInsKeep ==
    ASSUME AssocInv, NEW g, GraphOk(g), Extends(g, graph), NEW c \in GraphChannels, NEW E \in SUBSET Filed
    PROVE  /\ GraphOk(WithStandIns(g, c, E)) /\ NewIn(WithStandIns(g, c, E), g, c)
           /\ \A e \in E : /\ StandIns(g, c, E)[e] \in DOMAIN WithStandIns(g, c, E).ents
                           /\ WithStandIns(g, c, E).ents[StandIns(g, c, E)[e]].chan = c
                           /\ StandIns(g, c, E)[e] \in Known(WithStandIns(g, c, E), c, g.ents[e].name)
           /\ \A e \in DOMAIN graph.ents : e \notin E => StandIns(g, c, E)[e] = e
           /\ \A e \in DOMAIN graph.ents : StandIns(g, c, E)[e] \in DOMAIN WithStandIns(g, c, E).ents
<1> DEFINE to == StandIns(g, c, E)
           new == NewTo(g, c, E)
           g1 == WithStandIns(g, c, E)
           source(e) == CHOOSE f \in new : to[f] = e
           ids == {to[f] : f \in new}
           ents == [e \in DOMAIN g.ents \cup ids |-> IF e \in DOMAIN g.ents THEN g.ents[e]
                                                     ELSE [chan |-> c, name |-> g.ents[source(e)].name]]
<1>1. g1 = [g EXCEPT !.entId = @ + Cardinality(new), !.ents = ents]
  BY Zenon DEF WithStandIns
<1>2. /\ Filed \subseteq DOMAIN g.ents /\ Filed \subseteq DOMAIN graph.ents
      /\ \A e \in E : g.ents[e].chan = Bridge /\ g.ents[e].name \in EntityNames
      /\ g.entId \in Nat /\ DOMAIN g.ents \subseteq 1..g.entId
  BY DEF Filed, Extends, GraphOk, EntitiesOk
<1>3. new \subseteq E /\ \A e \in E : e \in new <=> Known(g, c, g.ents[e].name) = {}
  BY DEF NewTo
<1>4. /\ IsFiniteSet(new) /\ Cardinality(new) \in Nat
      /\ \A e \in new : Cardinality({f \in new : f <= e}) \in 1..Cardinality(new)
  <2>1. new \in SUBSET (1..g.entId)
    BY <1>2, <1>3
  <2>2. 1 \in Int /\ g.entId \in Int
    BY <1>2
  <2>3. IsFiniteSet(1..g.entId)
    BY <2>2, FS_Interval
  <2>4. IsFiniteSet(new)
    BY <2>1, <2>3, FS_Subset
  <2>5. ASSUME NEW e \in new  PROVE Cardinality({f \in new : f <= e}) \in 1..Cardinality(new)
    <3>1. e \in Nat
      BY <2>1
    <3>2. e \in {f \in new : f <= e} /\ {f \in new : f <= e} \in SUBSET new
      BY <3>1
    <3> HIDE DEF new
    <3> QED
      BY <2>4, <3>2, CountOfPart
  <2> HIDE DEF new
  <2> QED
    BY <2>4, <2>5, FS_CardinalityType
<1>5. /\ \A e \in new : to[e] = g.entId + Cardinality({f \in new : f <= e})
      /\ \A e \in E : e \notin new => to[e] = Least(Known(g, c, g.ents[e].name))
      /\ \A e \in DOMAIN graph.ents : e \notin E => to[e] = e
  <2>1. \A e \in DOMAIN graph.ents :
           to[e] = IF e \notin E THEN e
                   ELSE IF e \in new THEN g.entId + Cardinality({f \in new : f <= e})
                   ELSE Least(Known(g, c, g.ents[e].name))
    BY DEF StandIns
  <2> HIDE DEF to, new
  <2> QED
    BY <1>2, <1>3, <2>1
<1>5a. ASSUME NEW e \in new, NEW f \in new, to[e] = to[f]
       PROVE  e = f
  <2> HIDE DEF to, new
  <2>1. new \subseteq Nat
    BY <1>2, <1>3
  <2> PICK m : m = Cardinality(new)
    OBVIOUS
  <2> PICK k, l : k = Cardinality({x \in new : x <= e}) /\ l = Cardinality({x \in new : x <= f})
    OBVIOUS
  <2>2. m \in Nat /\ k \in 1..m /\ l \in 1..m
    BY <1>4
  <2>3. to[e] = g.entId + k /\ to[f] = g.entId + l
    BY <1>5
  <2>4. k = l
    <3>1. k \in Nat /\ l \in Nat /\ g.entId \in Nat
      BY <1>2, <2>2
    <3>2. g.entId + k = g.entId + l
      BY <1>5a, <2>3
    <3> QED
      BY <3>1, <3>2
  <2>5. IsFiniteSet(new)
    BY <1>4
  <2>6. Cardinality(UpTo(new, e)) = Cardinality(UpTo(new, f))
    BY <2>4 DEF UpTo
  <2> QED
    BY <2>1, <2>5, <2>6, PlacesDiffer
<1> HIDE DEF to, new, g1
<1>6. \A e \in new : to[e] \notin DOMAIN g.ents /\ to[e] \in 1..(g.entId + Cardinality(new))
  <2> SUFFICES ASSUME NEW e \in new
               PROVE  to[e] \notin DOMAIN g.ents /\ to[e] \in 1..(g.entId + Cardinality(new))
    OBVIOUS
  <2> PICK k, m : k = Cardinality({f \in new : f <= e}) /\ m = Cardinality(new)
    OBVIOUS
  <2>1. m \in Nat /\ k \in 1..m /\ to[e] = g.entId + k
    BY <1>4, <1>5
  <2> QED
    BY <1>2, <2>1
<1>7. \A e \in E : e \notin new => to[e] \in Known(g, c, g.ents[e].name)
  BY <1>2, <1>3, <1>5, LeastKnown DEF GraphOk
<1>8. \A e \in ids : source(e) \in new /\ to[source(e)] = e /\ e \notin DOMAIN g.ents
  BY <1>6
<1>9. \A f \in new : to[f] \in ids
  OBVIOUS
<1> HIDE DEF ids, source
<1>10. /\ DOMAIN ents = DOMAIN g.ents \cup ids /\ ents = [e \in DOMAIN ents |-> ents[e]]
       /\ \A e \in DOMAIN g.ents : ents[e] = g.ents[e]
       /\ \A e \in ids : ents[e] = [chan |-> c, name |-> g.ents[source(e)].name]
  BY <1>8
<1> HIDE DEF ents
<1>11. g1 = [ents |-> ents, aliases |-> g.aliases, mentions |-> g.mentions, rels |-> g.rels,
             entId |-> g.entId + Cardinality(new), relId |-> g.relId]
  <2> PICK k : k = g.entId + Cardinality(new)
    OBVIOUS
  <2>1. g1 = [g EXCEPT !.entId = k, !.ents = ents]
    BY <1>1
  <2> QED
    BY <2>1 DEF GraphOk, ShapeOk
<1>12. ASSUME NEW e \in ids
       PROVE  /\ source(e) \in E /\ ents[e].chan = c /\ ents[e].name = g.ents[source(e)].name
              /\ Known(g, c, ents[e].name) = {} /\ ents[e].name \in EntityNames
              /\ ents[e] \in [chan : GraphChannels, name : EntityNames]
  <2> PICK f : f = source(e)
    OBVIOUS
  <2>1. f \in new /\ f \in E /\ Known(g, c, g.ents[f].name) = {} /\ g.ents[f].name \in EntityNames
    BY <1>2, <1>3, <1>8
  <2>2. ents[e] = [chan |-> c, name |-> g.ents[f].name]
    BY <1>10
  <2> QED
    BY <2>1, <2>2
<1>13. ASSUME NEW e \in ids, NEW k \in ids, ents[e].name = ents[k].name
       PROVE  e = k
  <2>1. /\ source(e) \in Filed /\ source(k) \in Filed /\ ents[e].name \in EntityNames
        /\ g.ents[source(e)].name = ents[e].name /\ g.ents[source(k)].name = ents[e].name
    BY <1>12, <1>13
  <2>2. source(e) = source(k)
    BY <2>1, FiledApart
  <2> QED
    BY <1>8, <2>2
<1>14. NewIn(g1, g, c)
  <2>1. Extends(g1, g)
    BY <1>10, <1>11 DEF Extends
  <2>2. \A e \in (DOMAIN g1.ents) \ (DOMAIN g.ents) : e \in ids /\ g1.ents[e] = ents[e]
    BY <1>10, <1>11
  <2> QED
    BY <1>11, <1>12, <1>13, <2>1, <2>2 DEF NewIn
<1>15. GraphOk(g1)
  <2>1. g1.ents \in [DOMAIN g1.ents -> [chan : GraphChannels, name : EntityNames]]
    <3>1. \A e \in DOMAIN g.ents : g.ents[e] \in [chan : GraphChannels, name : EntityNames]
      BY DEF GraphOk, EntitiesOk
    <3>2. \A e \in DOMAIN ents : ents[e] \in [chan : GraphChannels, name : EntityNames]
      BY <1>10, <1>12, <3>1
    <3> QED
      BY <1>10, <1>11, <3>2
  <2>2. g1.entId \in Nat /\ DOMAIN g1.ents \subseteq 1..g1.entId
    <3> PICK m : m = Cardinality(new)
      OBVIOUS
    <3>1. m \in Nat /\ g1.entId = g.entId + m /\ g1.ents = ents
      BY <1>4, <1>11
    <3>2. \A e \in ids : e \in 1..(g.entId + m)
      BY <1>6, <1>8
    <3> QED
      BY <1>2, <1>10, <3>1, <3>2
  <2>3. ShapeOk(g1)
    BY <1>11 DEF ShapeOk
  <2> QED
    BY <1>14, <2>1, <2>2, <2>3, NewEntitiesKeep
<1>16. ASSUME NEW e \in E  PROVE to[e] \in Known(g1, c, g.ents[e].name)
  <2>1. g1.ents = ents
    BY <1>11
  <2>2. CASE e \in new
    <3>1. to[e] \in ids
      BY <1>9, <2>2
    <3>2. source(to[e]) = e
      BY <1>5a, <1>8, <2>2, <3>1
    <3> QED
      BY <1>10, <1>12, <2>1, <3>1, <3>2 DEF Known
  <2>3. CASE e \notin new
    <3>1. Extends(g1, g)
      BY <1>14 DEF NewIn
    <3> QED
      BY <1>7, <2>3, <3>1, KnownStays
  <2> QED
    BY <2>2, <2>3
<1>16a. \A e \in E : to[e] \in DOMAIN g1.ents /\ g1.ents[to[e]].chan = c
  BY <1>16 DEF Known
<1>17. \A e \in DOMAIN graph.ents : to[e] \in DOMAIN g1.ents
  BY <1>5, <1>14, <1>16a DEF Extends, NewIn
<1> QED
  BY <1>5, <1>14, <1>15, <1>16, <1>16a, <1>17 DEF to, g1

\* The relations made in the channel: numbered on from the last, between what stands in.
LEMMA MadeRelations ==
    ASSUME AssocInv, NEW g, GraphOk(g), NEW c, NEW h, h.relId = g.relId,
           NEW to, \A e \in DOMAIN graph.ents : to[e] \in DOMAIN h.ents,
           NEW fresh \in SUBSET graph.rels
    PROVE  /\ IsFiniteSet(NumberedRels(g, c, to, fresh)) /\ Cardinality(fresh) \in Nat
           /\ \A x \in NumberedRels(g, c, to, fresh) :
                 /\ x = [id |-> x.id, chan |-> x.chan, s |-> x.s, o |-> x.o, anchor |-> x.anchor]
                 /\ x.id \in 1..(g.relId + Cardinality(fresh)) /\ EndOk(h, x.s) /\ EndOk(h, x.o)
<1> DEFINE number(x) == g.relId + Cardinality({y \in fresh : y.id <= x.id})
           end(z) == IF z[1] = "entity" THEN Entity(to[z[2]]) ELSE z
           made == [x \in fresh |-> [ImageOf(x, c, to) EXCEPT !.id = number(x)]]
           R == {made[x] : x \in fresh}
<1>1. NumberedRels(g, c, to, fresh) = R
  <2> DEFINE G(x) == [ImageOf(x, c, to) EXCEPT !.id = number(x)]
  <2>1. \A x \in fresh : made[x] = G(x)
    OBVIOUS
  <2>2. NumberedRels(g, c, to, fresh) = {G(x) : x \in fresh}
    BY Zenon DEF NumberedRels
  <2> HIDE DEF made, number, G
  <2> QED
    BY <2>1, <2>2
<1>2. /\ IsFiniteSet(fresh) /\ Cardinality(fresh) \in Nat
      /\ g.relId \in Nat /\ \A x \in fresh : x.id \in Nat
  <2>1. IsFiniteSet(graph.rels) /\ g.relId \in Nat /\ \A x \in graph.rels : x.id \in Nat
    BY DEF AssocInv, GraphOk, RelationsOk
  <2>2. IsFiniteSet(fresh)
    BY <2>1, FS_Subset
  <2> QED
    BY <2>1, <2>2, FS_CardinalityType
<1>3. ASSUME NEW x \in fresh  PROVE number(x) \in 1..(g.relId + Cardinality(fresh))
  <2> PICK k, m : k = Cardinality({y \in fresh : y.id <= x.id}) /\ m = Cardinality(fresh)
    OBVIOUS
  <2>1. x \in {y \in fresh : y.id <= x.id} /\ {y \in fresh : y.id <= x.id} \in SUBSET fresh
    BY <1>2
  <2>2. m \in Nat /\ k \in 1..m
    BY <1>2, <2>1, CountOfPart
  <2> QED
    BY <1>2, <2>2
<1>4. ASSUME NEW x \in fresh
      PROVE  made[x] = [id |-> number(x), chan |-> c, s |-> end(x.s), o |-> end(x.o), anchor |-> x.anchor]
  <2>1. x = [id |-> x.id, chan |-> x.chan, s |-> x.s, o |-> x.o, anchor |-> x.anchor]
    BY DEF AssocInv, GraphOk, RelationsOk
  <2>2. made[x] = [ImageOf(x, c, to) EXCEPT !.id = number(x)]
    OBVIOUS
  <2> PICK a, b : a = end(x.s) /\ b = end(x.o)
    OBVIOUS
  <2>3. ImageOf(x, c, to) = [x EXCEPT !.id = 0, !.chan = c, !.s = a, !.o = b]
    BY Zenon DEF ImageOf
  <2>4. ImageOf(x, c, to) = [id |-> 0, chan |-> c, s |-> a, o |-> b, anchor |-> x.anchor]
    BY <2>1, <2>3
  <2> HIDE DEF made, number, end
  <2> QED
    BY <2>2, <2>4
<1>5. ASSUME NEW x \in fresh, NEW z \in {x.s, x.o}  PROVE EndOk(h, end(z))
  <2>1. z \in {"entity"} \X (DOMAIN graph.ents) \/ z \in {"mem"} \X GraphRecords
    BY DEF AssocInv, GraphOk, RelationsOk, EndOk
  <2>2. CASE z \in {"entity"} \X (DOMAIN graph.ents)
    <3>1. z[2] \in DOMAIN graph.ents /\ end(z) = <<"entity", to[z[2]]>>
      BY <2>2 DEF Entity
    <3>2. to[z[2]] \in DOMAIN h.ents
      BY <3>1
    <3> HIDE DEF end
    <3> QED
      BY <3>1, <3>2 DEF EndOk
  <2>3. CASE z \in {"mem"} \X GraphRecords
    <3>1. end(z) = z
      BY <2>3
    <3> QED
      BY <2>3, <3>1 DEF EndOk
  <2> QED
    BY <2>1, <2>2, <2>3
<1>6. IsFiniteSet(R)
  <2>1. DOMAIN made = fresh
    OBVIOUS
  <2> HIDE DEF made
  <2> QED
    BY <1>2, <2>1, FiniteImageOf
<1>7. \A x \in R : \E y \in fresh : x = made[y]
  OBVIOUS
<1> HIDE DEF R, made, number, end
<1>8. ASSUME NEW x \in R
      PROVE  /\ x = [id |-> x.id, chan |-> x.chan, s |-> x.s, o |-> x.o, anchor |-> x.anchor]
             /\ x.id \in 1..(g.relId + Cardinality(fresh)) /\ EndOk(h, x.s) /\ EndOk(h, x.o)
  <2>1. PICK y \in fresh : x = made[y]
    BY <1>7
  <2>2. x = [id |-> number(y), chan |-> c, s |-> end(y.s), o |-> end(y.o), anchor |-> y.anchor]
    BY <1>4, <2>1
  <2> QED
    BY <1>3, <1>5, <2>2
<1> QED
  BY <1>1, <1>2, <1>6, <1>8

\* carry() to a channel leaves the tables in order and takes nothing from them.
LEMMA CarriedKeeps ==
    ASSUME AssocInv, NEW g, GraphOk(g), Extends(g, graph), NEW c \in GraphChannels, NEW lands
    PROVE  GraphOk(Carried(g, c, lands).g) /\ Extends(Carried(g, c, lands).g, g)
<1> DEFINE E == EntitiesTo(c, lands)
           to == StandIns(g, c, E)
           g1 == WithStandIns(g, c, E)
           refused == {a \in g.aliases : a[1] \in E /\ AliasRefused(g1, c, to[a[1]], a[2])}
           fresh == FreshRels(g, c, to, RelsTo(c, lands) \cup CopiedTo(c, lands))
           A == {<<to[a[1]], a[2]>> : a \in {b \in g.aliases \ refused : b[1] \in E}}
           M == {<<to[m[1]], m[2]>> : m \in MentionsTo(c, lands)}
           R == NumberedRels(g, c, to, fresh)
           out == [g1 EXCEPT !.aliases = @ \cup A, !.mentions = @ \cup M,
                             !.relId = @ + Cardinality(fresh), !.rels = @ \cup R]
           lost == {a[1] : a \in refused}
<1>1. Carried(g, c, lands).g = out
  <2>1. Carried(g, c, lands) = [g |-> out, incomplete |-> lost]
    BY Zenon DEF Carried
  <2> HIDE DEF out, lost
  <2> QED
    BY <2>1
<1>2. E \in SUBSET Filed /\ \A m \in MentionsTo(c, lands) : m \in graph.mentions /\ m[1] \in E
  BY TakenFacts
<1>3. fresh \in SUBSET graph.rels
  BY TakenFacts DEF FreshRels
<1> HIDE DEF E, fresh
<1>4. /\ GraphOk(g1) /\ NewIn(g1, g, c)
      /\ \A e \in E : to[e] \in DOMAIN g1.ents /\ g1.ents[to[e]].chan = c
      /\ \A e \in DOMAIN graph.ents : to[e] \in DOMAIN g1.ents
  BY <1>2, StandInsKeep
<1> HIDE DEF to, g1
<1> PICK g2 : g2 = [ents |-> g1.ents, aliases |-> g1.aliases \cup A, mentions |-> g1.mentions \cup M,
                    rels |-> g1.rels, entId |-> g1.entId, relId |-> g1.relId]
  OBVIOUS
<1>5. GraphOk(g2)
  <2>1. ASSUME NEW a \in A
        PROVE  \E e \in E : /\ <<e, a[2]>> \in g.aliases /\ a[1] = to[e] /\ a = <<a[1], a[2]>> /\ a[2] \in EntityNames
                             /\ Known(g1, c, a[2]) \subseteq {a[1]}
    <3>1. PICK b \in g.aliases \ refused : b[1] \in E /\ a = <<to[b[1]], b[2]>>
      OBVIOUS
    <3>2. b = <<b[1], b[2]>> /\ b[2] \in EntityNames
      BY DEF GraphOk, EntitiesOk
    <3>3. ~AliasRefused(g1, c, to[b[1]], b[2])
      BY <3>1
    <3>4. Known(g1, c, b[2]) \subseteq {to[b[1]]}
      BY <1>4, <3>2, <3>3, NotRefused
    <3> QED
      BY <3>1, <3>2, <3>4
  <2>2. ASSUME NEW a \in A, NEW b \in A, a[2] = b[2]  PROVE a[1] = b[1]
    <3>1. PICK e \in E : <<e, a[2]>> \in g.aliases /\ a[1] = to[e] /\ a[2] \in EntityNames
      BY <2>1
    <3>2. PICK f \in E : <<f, a[2]>> \in g.aliases /\ b[1] = to[f]
      BY <2>1, <2>2
    <3>3. e = f
      BY <1>2, <3>1, <3>2, FiledApart
    <3> QED
      BY <3>1, <3>2, <3>3
  <2>3. M \subseteq (DOMAIN g1.ents) \X GraphRecords
    <3>1. ASSUME NEW m \in MentionsTo(c, lands)
          PROVE  m[1] \in E /\ m[2] \in GraphRecords
      BY TakenFacts DEF E, AssocInv, GraphOk, EntitiesOk
    <3> QED
      BY <1>4, <3>1
  <2>4. A \subseteq (DOMAIN g1.ents) \X EntityNames /\ \A a \in A : g1.ents[a[1]].chan = c
    <3> SUFFICES ASSUME NEW a \in A
                 PROVE  a \in (DOMAIN g1.ents) \X EntityNames /\ g1.ents[a[1]].chan = c
      BY Zenon
    <3>1. PICK e \in E : a[1] = to[e] /\ a = <<a[1], a[2]>> /\ a[2] \in EntityNames
      BY <2>1
    <3>2. a[1] \in DOMAIN g1.ents /\ g1.ents[a[1]].chan = c
      BY <1>4, <3>1
    <3> HIDE DEF A
    <3> QED
      BY <3>1, <3>2
  <2> HIDE DEF A, M
  <2>5. /\ ShapeOk(g2) /\ g2.ents = g1.ents /\ g2.entId = g1.entId /\ g2.rels = g1.rels /\ g2.relId = g1.relId
        /\ g2.mentions \subseteq (DOMAIN g1.ents) \X GraphRecords /\ g2.aliases = g1.aliases \cup A
    BY <1>4, <2>3 DEF ShapeOk, GraphOk, EntitiesOk
  <2>6. \A a \in A : g1.ents[a[1]].chan = c /\ Known(g1, c, a[2]) \subseteq {a[1]}
    BY <2>1, <2>4
  <2>7. GraphOk(g1) /\ A \subseteq (DOMAIN g1.ents) \X EntityNames
    BY <1>4, <2>4
  <2>8. \A a, b \in A : a[2] = b[2] => a[1] = b[1]
    BY <2>2
  <2> QED
    BY <2>5, <2>6, <2>7, <2>8, NewAliasesKeep
<1> HIDE DEF A, M, refused, lost
<1>6. /\ IsFiniteSet(R) /\ Cardinality(fresh) \in Nat
      /\ \A x \in R : /\ x = [id |-> x.id, chan |-> x.chan, s |-> x.s, o |-> x.o, anchor |-> x.anchor]
                      /\ x.id \in 1..(g.relId + Cardinality(fresh)) /\ EndOk(g1, x.s) /\ EndOk(g1, x.o)
  <2>1. g1.relId = g.relId
    BY <1>4 DEF NewIn
  <2> QED
    BY <1>3, <1>4, <2>1, MadeRelations
<1> HIDE DEF R
<1>7. out = [ents |-> g2.ents, aliases |-> g2.aliases, mentions |-> g2.mentions, rels |-> g2.rels \cup R,
             entId |-> g2.entId, relId |-> g2.relId + Cardinality(fresh)]
  <2> PICK m : m = Cardinality(fresh)
    OBVIOUS
  <2>1. out = [g1 EXCEPT !.aliases = @ \cup A, !.mentions = @ \cup M, !.relId = @ + m, !.rels = @ \cup R]
    BY Zenon
  <2>2. ShapeOk(g1)
    BY <1>4 DEF GraphOk
  <2> HIDE DEF out
  <2> QED
    BY <2>1, <2>2 DEF ShapeOk
<1> HIDE DEF out
<1>8. RelationsOk(out)
  <2> PICK m : m = Cardinality(fresh)
    OBVIOUS
  <2>1. g2.relId = g.relId /\ g2.ents = g1.ents /\ RelationsOk(g2)
    BY <1>4, <1>5 DEF NewIn, GraphOk
  <2>2. out.relId = g.relId + m /\ out.rels = g2.rels \cup R /\ out.ents = g1.ents
    BY <1>7, <2>1
  <2>3. m \in Nat /\ g.relId \in Nat
    BY <1>6, <2>1 DEF RelationsOk
  <2>4. ASSUME NEW x \in out.rels
        PROVE  /\ x = [id |-> x.id, chan |-> x.chan, s |-> x.s, o |-> x.o, anchor |-> x.anchor]
               /\ x.id \in 1..out.relId /\ EndOk(out, x.s) /\ EndOk(out, x.o)
    <3>1. CASE x \in R
      BY <1>6, <2>2, <3>1 DEF EndOk
    <3>2. CASE x \in g2.rels
      BY <2>1, <2>2, <2>3, <3>2 DEF RelationsOk, EndOk
    <3> QED
      BY <2>2, <3>1, <3>2
  <2>5. IsFiniteSet(out.rels)
    <3>1. IsFiniteSet(g2.rels)
      BY <2>1 DEF RelationsOk
    <3>2. IsFiniteSet(g2.rels \cup R)
      BY <1>6, <3>1, FS_Union
    <3> QED
      BY <2>2, <3>2
  <2> QED
    BY <2>2, <2>3, <2>4, <2>5 DEF RelationsOk
<1>9. GraphOk(out)
  <2>1. ShapeOk(out) /\ out.mentions \subseteq (DOMAIN g2.ents) \X GraphRecords
    BY <1>5, <1>7 DEF ShapeOk, GraphOk, EntitiesOk
  <2>2. out.ents = g2.ents /\ out.entId = g2.entId /\ out.aliases = g2.aliases
    BY <1>7
  <2> QED
    BY <1>5, <1>8, <2>1, <2>2, OtherDeclarationsKeep
<1>10. Extends(out, g)
  BY <1>4, <1>7 DEF NewIn, Extends
<1> QED
  BY <1>1, <1>9, <1>10

\* Both carries and the removal after them (follow_rechannelled).
LEMMA FollowedKeeps ==
    ASSUME AssocInv, NEW lands
    PROVE  GraphOk(Followed(lands))
<1> DEFINE first == Carried(graph, Global, lands)
           second == Carried(first.g, Concrete, lands)
           gone == [mentions |-> UNION {MentionsTo(c, lands) : c \in GraphChannels},
                    rels |-> UNION {RelsTo(c, lands) : c \in GraphChannels}]
           carried == UNION {EntitiesTo(c, lands) : c \in GraphChannels}
           copied == UNION {CopiedTo(c, lands) : c \in GraphChannels}
           incomplete == first.incomplete \cup second.incomplete
<1>1. Followed(lands) = Settled(second.g, carried, gone, copied, incomplete)
  BY Zenon DEF Followed
<1>2. Global \in GraphChannels /\ Concrete \in GraphChannels
  BY DEF GraphChannels
<1>3. GraphOk(graph) /\ Extends(graph, graph)
  BY DEF AssocInv, Extends
<1>4. GraphOk(first.g) /\ Extends(first.g, graph)
  BY <1>2, <1>3, CarriedKeeps
<1> HIDE DEF first
<1>5. GraphOk(second.g)
  BY <1>2, <1>4, CarriedKeeps
<1> HIDE DEF second, gone, carried, copied, incomplete
<1> QED
  BY <1>1, <1>5, SettledKeeps

\* A migration that commits, and one that is rolled back.
LEMMA MigrateKeeps ==
    ASSUME AssocInv, NEW globalize, NEW stay, Migrate(globalize, stay)
    PROVE  AssocInv'
<1>1. PICK lands : \/ graph' = graph /\ chanOf' = chanOf
                   \/ graph' = Followed(lands) /\ DOMAIN chanOf' = DOMAIN chanOf
  BY DEF Migrate
<1> PICK h : h = graph'
  OBVIOUS
<1>2. GraphOk(h)
  BY <1>1, FollowedKeeps DEF AssocInv
<1>3. DOMAIN chanOf' \subseteq GraphRecords
  BY <1>1 DEF AssocInv
<1> QED
  BY <1>2, <1>3 DEF AssocInv, GraphOk, ShapeOk, EntitiesOk, RelationsOk, OneEach, EndOk, Known

\* The empty tables are in order.
LEMMA AssocStarts == AssocInit => AssocInv
<1> SUFFICES ASSUME AssocInit  PROVE AssocInv
  OBVIOUS
<1>1. graph = [ents |-> [e \in {} |-> 0], aliases |-> {}, mentions |-> {}, rels |-> {}, entId |-> 0, relId |-> 0]
      /\ DOMAIN chanOf \subseteq GraphRecords
  BY DEF AssocInit
<1>2. IsFiniteSet({})
  BY FS_EmptySet
<1> QED
  BY <1>1, <1>2 DEF AssocInv, GraphOk, ShapeOk, EntitiesOk, RelationsOk, OneEach, Known

\* Every statement keeps the tables in order.
LEMMA AssocSteps == AssocInv /\ [AssocNext]_assocVars => AssocInv'
<1> SUFFICES ASSUME AssocInv, [AssocNext]_assocVars  PROVE AssocInv'
  OBVIOUS
<1>1. CASE \E c \in GraphChannels, n \in EntityNames, a \in EntityNames \cup {NoName},
              r \in GraphRecords \cup {NoAnchor} : a # n /\ DeclareEntity(c, n, a, r)
  BY <1>1, DeclareEntityKeeps
<1>2. CASE \E c \in RelationChannels, s \in EndPoints, o \in EndPoints, r \in GraphRecords \cup {NoAnchor} :
              s # o /\ DeclareRelation(c, s, o, r)
  BY <1>2, DeclareRelationKeeps, AssocAssumption DEF GraphChannels
<1>3. CASE Retract
  BY <1>3, RetractKeeps
<1>4. CASE \E r \in GraphRecords, c \in GraphChannels : StoreMemory(r, c)
  BY <1>4 DEF StoreMemory, AssocInv, GraphOk, ShapeOk, EntitiesOk, RelationsOk, OneEach, EndOk, Known
<1>5. CASE \E r \in GraphRecords : DeleteMemory(r)
  BY <1>5, DeleteMemoryKeeps
<1>6. CASE \E globalize \in BOOLEAN, stay \in SUBSET GraphRecords : Migrate(globalize, stay)
  BY <1>6, MigrateKeeps
<1>7. CASE UNCHANGED assocVars
  BY <1>7 DEF assocVars, AssocInv, GraphOk, ShapeOk, EntitiesOk, RelationsOk, OneEach, EndOk, Known
<1> QED
  BY <1>1, <1>2, <1>3, <1>4, <1>5, <1>6, <1>7 DEF AssocNext

----------------------------------------------------------------------------
(* The walk of traverse.                                                   *)

\* Of a set larger than the room there is, one is left out.
LEMMA OneLeftOut ==
    ASSUME NEW S, IsFiniteSet(S), S \subseteq Nat, S # {}, NEW b \in [S -> Nat], NEW room \in Int,
           Cardinality(S) > room
    PROVE  {e \in S : Cardinality({f \in S : b[f] > b[e] \/ (b[f] = b[e] /\ f < e)}) < room} # S
<1> DEFINE R == {x \in S \X S : b[x[1]] > b[x[2]] \/ (b[x[1]] = b[x[2]] /\ x[1] < x[2])}
           n == Cardinality(S)
           e == InOrder(S, R)[n]
<1>1. \A x, y \in S : /\ <<x, y>> \in R <=> b[x] > b[y] \/ (b[x] = b[y] /\ x < y)
                      /\ x \in Nat /\ y \in Nat /\ b[x] \in Nat /\ b[y] \in Nat
  OBVIOUS
<1>2. IsStrictOrder(S, R)
  <2> HIDE DEF R
  <2> QED
    BY <1>1 DEF IsStrictOrder
<1>3. n \in Nat \ {0}
  BY FS_CardinalityType, FS_EmptySet
<1>4. e \in S /\ PlaceOf(S, R, e) = n - 1
  <2>1. n \in 1..n
    BY <1>3
  <2> HIDE DEF R
  <2>2. /\ InOrder(S, R) \in [1..Cardinality(S) -> S]
        /\ \A k \in 1..Cardinality(S) : PlaceOf(S, R, InOrder(S, R)[k]) = k - 1
    BY <1>2, InOrderFacts
  <2> QED
    BY <2>1, <2>2
<1>5. PlaceOf(S, R, e) = Cardinality({f \in S : b[f] > b[e] \/ (b[f] = b[e] /\ f < e)})
  <2> HIDE DEF R, e
  <2>1. Ahead(S, R, e) = {f \in S : b[f] > b[e] \/ (b[f] = b[e] /\ f < e)}
    BY <1>1, <1>4 DEF Ahead
  <2> QED
    BY <2>1 DEF PlaceOf
<1> HIDE DEF e, n, R
<1>6. ~(n - 1 < room)
  BY <1>3 DEF n
<1> QED
  BY <1>4, <1>5, <1>6

ClosedFor(c, n, S) == /\ S \subseteq SeenEntities(c) /\ Starts(c, n) \subseteq S
                      /\ \A x \in SeenRels(c) : EntitiesOf(x) \cap S # {} => EntitiesOf(x) \subseteq S

\* Walks as far as a hop: what was reached belongs to the answer, and either everything
\* behind the front was followed or the walk has ended with something left out.
Walks == [dist : UNION {[S -> Nat] : S \in SUBSET DOMAIN graph.ents}, front : SUBSET DOMAIN graph.ents,
          edges : SUBSET graph.rels]
FollowedUp(w, c) == /\ \A x \in SeenRels(c) : EntitiesOf(x) \cap ((DOMAIN w.dist) \ w.front) # {} => x \in w.edges
                   /\ \A x \in w.edges : EntitiesOf(x) \subseteq DOMAIN w.dist
WalkOk(w, c, n) == /\ Starts(c, n) \subseteq DOMAIN w.dist /\ w.front \subseteq DOMAIN w.dist
                   /\ DOMAIN w.dist \subseteq SeenEntities(c) /\ w.edges \subseteq SeenRels(c)
                   /\ \A S : ClosedFor(c, n, S) => DOMAIN w.dist \subseteq S
                   /\ FollowedUp(w, c) \/ (w.front = {} /\ Unreached(w) # {})

\* Entities and relations are finitely many, numbered from one.
LEMMA GraphFinite ==
    ASSUME AssocInv
    PROVE  /\ IsFiniteSet(DOMAIN graph.ents) /\ DOMAIN graph.ents \subseteq Nat
           /\ IsFiniteSet(graph.rels) /\ graph.relId \in Nat /\ \A x \in graph.rels : x.id \in 1..graph.relId
<1>1. graph.entId \in Nat /\ DOMAIN graph.ents \subseteq 1..graph.entId
  BY DEF AssocInv, GraphOk, EntitiesOk
<1>2. 1 \in Int /\ graph.entId \in Int /\ DOMAIN graph.ents \in SUBSET (1..graph.entId)
  BY <1>1
<1>3. IsFiniteSet(1..graph.entId)
  BY <1>2, FS_Interval
<1>4. IsFiniteSet(DOMAIN graph.ents)
  BY <1>2, <1>3, FS_Subset
<1> QED
  BY <1>1, <1>4 DEF AssocInv, GraphOk, RelationsOk

\* The walk starts at what the name leads to.
LEMMA StartOk ==
    ASSUME NEW c, NEW n
    PROVE  FirstHop(c, n) \in Walks /\ WalkOk(FirstHop(c, n), c, n)
<1> PICK w : w = FirstHop(c, n)
  OBVIOUS
<1> PICK S : S = Starts(c, n)
  OBVIOUS
<1>1. S \subseteq SeenEntities(c) /\ S \subseteq DOMAIN graph.ents
  BY DEF Starts, SeenEntities, Known
<1>2. w = [dist |-> [e \in S |-> 0], front |-> S, edges |-> {}]
  BY DEF FirstHop
<1>3. w.dist \in [S -> Nat] /\ DOMAIN w.dist = S /\ w.front = S /\ w.edges = {}
  BY <1>2
<1>4. w \in Walks
  BY <1>1, <1>2, <1>3 DEF Walks
<1>5. WalkOk(w, c, n)
  BY <1>1, <1>3 DEF WalkOk, FollowedUp, ClosedFor
<1> QED
  BY <1>4, <1>5

\* A hop reaches only what is connected, and follows all of it or leaves something out.
LEMMA NextOk ==
    ASSUME AssocInv, NEW c, NEW w \in Walks, NEW h \in Nat, NEW maxHops \in Nat, NEW bound \in Nat
    PROVE  /\ NextHop(c, w, h, maxHops, bound) \in Walks
           /\ h = maxHops + 1 => NextHop(c, w, h, maxHops, bound).front = {}
           /\ \A n : WalkOk(w, c, n) => WalkOk(NextHop(c, w, h, maxHops, bound), c, n)
<1> DEFINE read == {x \in SeenRels(c) : EntitiesOf(x) \cap w.front # {}}
           found == (UNION {EntitiesOf(x) : x \in read}) \ DOMAIN w.dist
           by(e) == CHOOSE i \in {x.id : x \in read} :
                      /\ \E x \in read : x.id = i /\ e \in EntitiesOf(x)
                      /\ \A x \in read : e \in EntitiesOf(x) => x.id <= i
           b == [e \in found |-> by(e)]
           room == bound - Cardinality(DOMAIN w.dist)
           over == Cardinality(found) > room
           few == {e \in found : Cardinality({f \in found : by(f) > by(e) \/ (by(f) = by(e) /\ f < e)}) < room}
           taken == IF h = maxHops + 1 THEN {} ELSE IF over THEN few ELSE found
           front == IF over THEN {} ELSE taken
           dist == [e \in DOMAIN w.dist \cup taken |-> IF e \in taken THEN h ELSE w.dist[e]]
           next == [dist |-> dist, front |-> front, edges |-> w.edges \cup read]
<1>1. NextHop(c, w, h, maxHops, bound) = next
  BY DEF NextHop, Newest
<1>2. found \subseteq DOMAIN graph.ents /\ read \subseteq graph.rels /\ read \subseteq SeenRels(c)
      /\ \A x \in SeenRels(c) : EntitiesOf(x) \subseteq SeenEntities(c)
  BY DEF EntitiesOf, SeenRels
<1>3. /\ w = [dist |-> w.dist, front |-> w.front, edges |-> w.edges] /\ w.edges \subseteq graph.rels
      /\ DOMAIN w.dist \subseteq DOMAIN graph.ents /\ \A e \in DOMAIN w.dist : w.dist[e] \in Nat
  BY DEF Walks
<1>4. IsFiniteSet(found) /\ found \subseteq Nat /\ IsFiniteSet(DOMAIN w.dist)
  <2>1. found \in SUBSET DOMAIN graph.ents /\ DOMAIN w.dist \in SUBSET DOMAIN graph.ents
    BY <1>2, <1>3
  <2> HIDE DEF found
  <2> QED
    BY <2>1, GraphFinite, FS_Subset
<1>5. room \in Int /\ Cardinality(found) \in Nat
  BY <1>4, FS_CardinalityType
<1>6. b \in [found -> Nat]
  <2> SUFFICES ASSUME NEW e \in found  PROVE by(e) \in Nat
    OBVIOUS
  <2> DEFINE ids == {x.id : x \in {y \in read : e \in EntitiesOf(y)}}
  <2>1. ids \subseteq 0..graph.relId /\ ids # {}
    <3>1. PICK x \in read : e \in EntitiesOf(x)
      OBVIOUS
    <3>2. \A y \in read : y.id \in 0..graph.relId
      BY <1>2, GraphFinite
    <3> HIDE DEF read, found
    <3> QED
      BY <3>1, <3>2
  <2>2. graph.relId \in Nat
    BY GraphFinite
  <2>3. PICK i \in ids : \A j \in ids : i >= j
    <3> HIDE DEF ids
    <3> QED
      BY <2>1, <2>2, GreatestNumber
  <2>3a. i \in Nat /\ \A x \in read : x.id \in Nat
    BY <1>2, <2>1, GraphFinite
  <2>4. /\ i \in {x.id : x \in read} /\ \E x \in read : x.id = i /\ e \in EntitiesOf(x)
        /\ \A x \in read : e \in EntitiesOf(x) => x.id <= i
    BY <2>3, <2>3a
  <2>5. by(e) \in {x.id : x \in read}
    BY <2>4
  <2> HIDE DEF by, read
  <2> QED
    BY <2>3a, <2>5
<1>7. few = {e \in found : Cardinality({f \in found : b[f] > b[e] \/ (b[f] = b[e] /\ f < e)}) < room}
  <2>1. \A e \in found : b[e] = by(e)
    OBVIOUS
  <2> HIDE DEF by, b, found
  <2> QED
    BY <2>1
<1>8. over /\ found # {} => few # found
  <2> HIDE DEF few, b, found, room
  <2> QED
    BY <1>4, <1>5, <1>6, <1>7, OneLeftOut
<1>9. few \subseteq found
  OBVIOUS
<1>10. \A x \in read : EntitiesOf(x) \subseteq DOMAIN w.dist \cup found
  OBVIOUS
<1>11. found = {} \/ \E e \in found : \E x \in read : e \in EntitiesOf(x)
  OBVIOUS
<1>12. found \cap DOMAIN w.dist = {} /\ \A e \in found : \E x \in read : e \in EntitiesOf(x)
  OBVIOUS
<1>13. \A x \in SeenRels(c) : x \in read <=> EntitiesOf(x) \cap w.front # {}
  OBVIOUS
<1> HIDE DEF few, found, by, b, over, room, read
<1>14. taken \subseteq found /\ front \subseteq taken
  BY <1>9
<1>15. DOMAIN dist = DOMAIN w.dist \cup taken
  OBVIOUS
<1>16. next \in Walks
  <2>1. dist \in [DOMAIN w.dist \cup taken -> Nat]
    BY <1>3
  <2>2. DOMAIN w.dist \cup taken \in SUBSET DOMAIN graph.ents
    BY <1>2, <1>3, <1>14
  <2>3. front \in SUBSET DOMAIN graph.ents /\ w.edges \cup read \in SUBSET graph.rels
    BY <1>2, <1>3, <1>14
  <2> HIDE DEF dist, front, taken
  <2> QED
    BY <2>1, <2>2, <2>3 DEF Walks
<1>17. h = maxHops + 1 => front = {}
  OBVIOUS
<1>18. ASSUME NEW n, WalkOk(w, c, n)  PROVE WalkOk(next, c, n)
  <2>1. next.dist = dist /\ next.front = front /\ next.edges = w.edges \cup read
    OBVIOUS
  <2>2. taken \subseteq SeenEntities(c)
    BY <1>2, <1>12, <1>14
  <2>3. ASSUME NEW S, ClosedFor(c, n, S)  PROVE taken \subseteq S
    <3>1. DOMAIN w.dist \subseteq S /\ w.front \subseteq DOMAIN w.dist
      BY <1>18, <2>3 DEF WalkOk
    <3>2. \A x \in read : EntitiesOf(x) \subseteq S
      BY <1>2, <1>13, <2>3, <3>1 DEF ClosedFor
    <3> QED
      BY <1>12, <1>14, <3>2
  <2>4. FollowedUp(next, c) \/ (next.front = {} /\ Unreached(next) # {})
    <3>1. CASE w.front = {} /\ Unreached(w) # {}
      <4>1. read = {} /\ found = {}
        BY <1>2, <1>12, <1>13, <3>1
      <4>2. taken = {} /\ front = {} /\ DOMAIN dist = DOMAIN w.dist
        BY <1>14, <1>15, <4>1
      <4> HIDE DEF next, taken, front, dist
      <4> QED
        BY <2>1, <3>1, <4>1, <4>2 DEF Unreached
    <3>2. CASE FollowedUp(w, c)
      <4>1. CASE taken = found /\ (front = taken \/ found = {})
        <5>1. \A x \in SeenRels(c) : EntitiesOf(x) \cap ((DOMAIN dist) \ front) # {} => x \in w.edges \cup read
          BY <1>13, <1>14, <1>15, <3>2, <4>1 DEF FollowedUp
        <5>2. \A x \in w.edges \cup read : EntitiesOf(x) \subseteq DOMAIN dist
          BY <1>10, <1>15, <3>2, <4>1 DEF FollowedUp
        <5> HIDE DEF next, taken, front, dist
        <5> QED
          BY <2>1, <5>1, <5>2 DEF FollowedUp
      <4>2. CASE ~(taken = found /\ (front = taken \/ found = {}))
        <5>1. taken # found /\ front = {}
          BY <1>8, <1>14, <4>2
        <5>2. PICK e \in found : e \notin taken
          BY <1>14, <5>1
        <5>3. PICK x \in read : e \in EntitiesOf(x)
          BY <1>12
        <5>4. e \notin DOMAIN dist
          BY <1>12, <1>15, <5>2
        <5> HIDE DEF next, taken, front, dist
        <5> QED
          BY <2>1, <5>1, <5>3, <5>4 DEF Unreached
      <4> QED
        BY <4>1, <4>2
    <3> QED
      BY <1>18, <3>1, <3>2 DEF WalkOk
  <2> HIDE DEF next, taken, front, dist
  <2> QED
    BY <1>2, <1>14, <1>15, <1>18, <2>1, <2>2, <2>3, <2>4 DEF WalkOk
<1> HIDE DEF next
<1>19. next.front = front
  BY DEF next
<1> QED
  BY <1>1, <1>16, <1>17, <1>18, <1>19

\* The walk ends, with no front left to follow.
LEMMA HopsOk ==
    ASSUME AssocInv, NEW c, NEW n, NEW maxHops \in Nat, NEW bound \in Nat
    PROVE  LET w == Hops(c, n, maxHops, bound) IN w \in Walks /\ w.front = {} /\ WalkOk(w, c, n)
<1> DEFINE N == maxHops + 1
           F(f) == [h \in 0..N |-> IF h = 0 THEN FirstHop(c, n) ELSE NextHop(c, f[h - 1], h, maxHops, bound)]
           walk == CHOOSE f : f = F(f)
           step == [h \in 1..N |-> [w \in Walks |-> NextHop(c, w, h, maxHops, bound)]]
<1>1. Hops(c, n, maxHops, bound) = walk[N]
  BY Zenon DEF Hops
<1>2. N \in Nat /\ FirstHop(c, n) \in Walks
  BY StartOk
<1>2a. \A h \in 1..N : h \in Nat
  OBVIOUS
<1>3. step \in [1..N -> [Walks -> Walks]]
  <2> SUFFICES ASSUME NEW h \in 1..N, NEW w \in Walks  PROVE NextHop(c, w, h, maxHops, bound) \in Walks
    OBVIOUS
  <2>1. h \in Nat
    BY <1>2a
  <2> QED
    BY <2>1, NextOk
<1>4. PICK f \in [0..N -> Walks] : f[0] = FirstHop(c, n) /\ \A h \in 1..N : f[h] = step[h][f[h - 1]]
  <2> HIDE DEF N, step
  <2> QED
    BY <1>2, <1>3, WalkExists
<1>5. f = F(f)
  <2>1. ASSUME NEW h \in 1..N  PROVE f[h] = NextHop(c, f[h - 1], h, maxHops, bound)
    <3>1. h - 1 \in 0..N
      BY <1>2
    <3>2. f[h - 1] \in Walks
      BY <3>1
    <3> QED
      BY <1>4, <3>2
  <2>2. \A h \in 0..N : h = 0 \/ h \in 1..N
    BY <1>2
  <2> QED
    BY <1>2, <1>4, <2>1, <2>2
<1>6. walk = F(walk)
  <2> HIDE DEF F
  <2> QED
    BY <1>5
<1> HIDE DEF walk, step
<1>7. walk[0] = FirstHop(c, n) /\ \A h \in 1..N : walk[h] = NextHop(c, walk[h - 1], h, maxHops, bound)
  BY <1>2, <1>6
<1> HIDE DEF F
<1> DEFINE T == {h \in 0..N : walk[h] \in Walks /\ WalkOk(walk[h], c, n)}
<1>8. \A h \in 0..N : h \in T
  <2>1. 0 \in T
    BY <1>2, <1>7, StartOk
  <2>2. ASSUME NEW h \in 1..N, h - 1 \in T  PROVE h \in T
    <3>1. h \in Nat /\ h \in 0..N
      BY <1>2
    <3> PICK v : v = walk[h - 1]
      OBVIOUS
    <3>2. v \in Walks /\ WalkOk(v, c, n)
      BY <2>2
    <3>3. NextHop(c, v, h, maxHops, bound) \in Walks /\ WalkOk(NextHop(c, v, h, maxHops, bound), c, n)
      BY <3>1, <3>2, NextOk
    <3>4. walk[h] = NextHop(c, v, h, maxHops, bound)
      BY <1>7
    <3> QED
      BY <3>1, <3>3, <3>4
  <2> HIDE DEF T, N
  <2> QED
    BY <1>2, <2>1, <2>2, StepByStep
<1>9. walk[N] \in Walks /\ WalkOk(walk[N], c, n)
  BY <1>2, <1>8
<1>10. walk[N].front = {}
  <2>1. N - 1 \in 0..N /\ N \in 1..N
    BY <1>2
  <2>2. walk[N - 1] \in Walks
    BY <1>8, <2>1
  <2> PICK v, h : v = walk[N - 1] /\ h = N
    OBVIOUS
  <2>3. walk[N] = NextHop(c, v, h, maxHops, bound)
    BY <1>7, <2>1
  <2>4. v \in Walks /\ h \in Nat /\ h = maxHops + 1
    BY <1>2, <2>2
  <2> HIDE DEF N
  <2>5. NextHop(c, v, h, maxHops, bound).front = {}
    BY <2>4, NextOk
  <2> QED
    BY <2>3, <2>5
<1> QED
  BY <1>1, <1>9, <1>10

\* A set that fits into the limit is answered whole.
LEMMA FewAreAll ==
    ASSUME NEW S, IsFiniteSet(S), S \subseteq Nat, NEW limit \in Nat, ~(Cardinality(S) > limit)
    PROVE  FirstFew(S, limit) = S
<1> SUFFICES ASSUME NEW r \in S  PROVE Cardinality({q \in S : q < r}) < limit
  BY DEF FirstFew
<1> DEFINE T == {q \in S : q < r}
<1>1. T \in SUBSET S /\ T # S
  BY DEF T
<1> HIDE DEF T
<1>2. IsFiniteSet(T) /\ Cardinality(T) <= Cardinality(S) /\ (Cardinality(S) = Cardinality(T) => S = T)
  BY <1>1, FS_Subset
<1>3. Cardinality(S) \in Nat /\ Cardinality(T) \in Nat
  BY <1>2, FS_CardinalityType
<1>4. Cardinality(T) < limit
  BY <1>1, <1>2, <1>3
<1> QED
  BY <1>4 DEF T

\* An answer with everything connected to the start, and what is declared of it.
Whole(t, c, n) == /\ t.kept = Connected(c, n)
                  /\ t.rels = {x \in SeenRels(c) : EntitiesOf(x) \subseteq t.kept}
                  /\ \A e \in t.kept : t.mentions[e] = MentionedIn(c, e)

\* An answer that reports no omission is whole.
LEMMA AnswerOwnsUp ==
    ASSUME AssocInv, NEW c \in GraphChannels, NEW n, NEW b \in TraverseBounds,
           Traverse(c, n, b.hops, b.limit, b.entities).omitted = {}
    PROVE  Whole(Traverse(c, n, b.hops, b.limit, b.entities), c, n)
<1> DEFINE w == Hops(c, n, b.hops, b.entities)
           kept == KeptOf(w, b.limit)
           cut == \E e \in kept : Cardinality(MentionedIn(c, e)) > b.limit
           omitted == {o \in {"max_hops", "limit"} :
                        \/ o = "max_hops" /\ Unreached(w) # {}
                        \/ o = "limit" /\ (kept # DOMAIN w.dist \/ cut)}
           mentions == [e \in kept |-> FirstFew(MentionedIn(c, e), b.limit)]
           rels == {x \in w.edges : EntitiesOf(x) \subseteq kept}
           t == [dist |-> w.dist, kept |-> kept, rels |-> rels, mentions |-> mentions, omitted |-> omitted]
<1>1. Traverse(c, n, b.hops, b.limit, b.entities) = t
  BY Zenon DEF Traverse
<1>2. b.hops \in Nat /\ b.limit \in Nat /\ b.entities \in Nat
  BY AssocAssumption
<1>3. w \in Walks /\ w.front = {} /\ WalkOk(w, c, n)
  BY <1>2, HopsOk
<1>4. omitted = {}
  BY <1>1
<1>5. Unreached(w) = {} /\ kept = DOMAIN w.dist /\ ~cut
  <2> HIDE DEF w, kept, cut
  <2> QED
    BY <1>4
<1> HIDE DEF w, kept
<1>6. FollowedUp(w, c)
  BY <1>3, <1>5 DEF WalkOk
<1>7. ClosedFor(c, n, DOMAIN w.dist)
  BY <1>3, <1>6 DEF WalkOk, FollowedUp, ClosedFor
<1>8. kept = Connected(c, n)
  <2>1. \A S : ClosedFor(c, n, S) => DOMAIN w.dist \subseteq S
    BY <1>3 DEF WalkOk
  <2>2. DOMAIN w.dist \subseteq SeenEntities(c)
    BY <1>7 DEF ClosedFor
  <2>3. Connected(c, n) = {e \in SeenEntities(c) : \A S \in {S \in SUBSET SeenEntities(c) : ClosedFor(c, n, S)} : e \in S}
    BY DEF Connected, ClosedFor
  <2> QED
    BY <1>5, <1>7, <2>1, <2>2, <2>3
<1>9. rels = {x \in SeenRels(c) : EntitiesOf(x) \subseteq kept}
  <2>1. w.edges \subseteq SeenRels(c)
    BY <1>3 DEF WalkOk
  <2>2. ASSUME NEW x \in SeenRels(c), EntitiesOf(x) \subseteq kept  PROVE x \in w.edges
    <3>1. EndOk(graph, x.s) /\ x.s[1] = "entity"
      BY DEF SeenRels, AssocInv, GraphOk, RelationsOk
    <3>2. x.s[2] \in DOMAIN graph.ents /\ x.s = Entity(x.s[2])
      BY <3>1 DEF EndOk, Entity
    <3>3. x.s[2] \in EntitiesOf(x)
      BY <3>2 DEF EntitiesOf
    <3> QED
      BY <1>3, <1>5, <1>6, <2>2, <3>3 DEF FollowedUp
  <2> QED
    BY <2>1, <2>2
<1>10. ASSUME NEW e \in kept  PROVE mentions[e] = MentionedIn(c, e)
  <2> PICK S : S = MentionedIn(c, e)
    OBVIOUS
  <2>1. S \in SUBSET GraphRecords /\ S \subseteq Nat
    BY AssocAssumption DEF MentionedIn, AssocInv
  <2>2. IsFiniteSet(S)
    BY <2>1, FS_Subset, AssocAssumption
  <2>3. ~(Cardinality(S) > b.limit)
    BY <1>5
  <2> QED
    BY <1>2, <2>1, <2>2, <2>3, FewAreAll
<1> HIDE DEF omitted, mentions, rels
<1>11. t.kept = kept /\ t.rels = rels /\ t.mentions = mentions
  OBVIOUS
<1> HIDE DEF t
<1> QED
  BY <1>1, <1>8, <1>9, <1>10, <1>11 DEF Whole

\* Tables in order are read as the property says.
LEMMA AssocOwnsUp == AssocInv => TraverseOwnsUp
<1> SUFFICES ASSUME AssocInv, NEW c \in GraphChannels, NEW n \in NamesInUse
             PROVE  /\ Cardinality(Known(graph, c, n)) <= 1
                    /\ \A b \in TraverseBounds :
                          Traverse(c, n, b.hops, b.limit, b.entities).omitted = {} =>
                              Whole(Traverse(c, n, b.hops, b.limit, b.entities), c, n)
  BY Zenon DEF TraverseOwnsUp, Whole
<1>1. Cardinality(Known(graph, c, n)) <= 1
  <2>1. n \in EntityNames
    BY DEF NamesInUse, AssocInv, GraphOk, EntitiesOk
  <2>2. \A e, f \in Known(graph, c, n) : e = f
    BY <2>1 DEF AssocInv, GraphOk, OneEach
  <2>3. CASE Known(graph, c, n) = {}
    BY <2>3, FS_EmptySet
  <2>4. CASE Known(graph, c, n) # {}
    <3>1. PICK e : Known(graph, c, n) = {e}
      BY <2>2, <2>4
    <3>2. Cardinality({e}) = 1
      BY FS_Singleton
    <3> QED
      BY <3>1, <3>2
  <2> QED
    BY <2>3, <2>4
<1> QED
  BY <1>1, AnswerOwnsUp

\* A traversal that reports no omission holds everything connected to its start, in every
\* graph that calls, deletions and migrations lead to (traverse, _neighbourhood).
THEOREM TraversesOwnUp == AssocSpec => []TraverseOwnsUp
<1>1. AssocSpec => []AssocInv
  BY AssocStarts, AssocSteps, PTL DEF AssocSpec
<1> QED
  BY <1>1, AssocOwnsUp, PTL

----------------------------------------------------------------------------
(* The declarations that follow a migration.                               *)

\* A relation names entities that a reader of its channel sees.
Seen(g, x) == /\ x.chan \in GraphChannels
              /\ \A z \in {x.s, x.o} : z[1] = "entity" => Sees(x.chan, g.ents[z[2]].chan)
SightOk(g) == \A x \in g.rels : Seen(g, x)

\* An entity is named by its number.
LEMMA EndNames ==
    ASSUME NEW g, NEW z, EndOk(g, z)
    PROVE  /\ z[1] = "entity" => z[2] \in DOMAIN g.ents /\ z = Entity(z[2])
           /\ z[1] # "entity" => z[1] = "mem" /\ z = Memory(z[2])
BY DEF EndOk, Entity, Memory

\* The entities stay in their channels, and relations that are new are seen.
LEMMA SightStays ==
    ASSUME NEW g, SightOk(g), GraphOk(g), NEW h, GraphOk(h),
           \A e \in (DOMAIN g.ents) \cap (DOMAIN h.ents) : h.ents[e] = g.ents[e],
           \A x \in h.rels : x \in g.rels \/ Seen(h, x)
    PROVE  SightOk(h)
<1> SUFFICES ASSUME NEW x \in h.rels, x \in g.rels  PROVE Seen(h, x)
  BY DEF SightOk
<1>1. Seen(g, x)
  BY DEF SightOk
<1>2. /\ EndOk(g, x.s) /\ EndOk(g, x.o) /\ EndOk(h, x.s) /\ EndOk(h, x.o)
  BY DEF GraphOk, RelationsOk
<1>3. \A z \in {x.s, x.o} : z[1] = "entity" => z[2] \in DOMAIN g.ents /\ z[2] \in DOMAIN h.ents
  BY <1>2, EndNames
<1> QED
  BY <1>1, <1>3 DEF Seen

\* A name is resolved to an entity the channel sees.
LEMMA ResolvedSeen ==
    ASSUME NEW g, EntitiesOk(g), NEW c, NEW n, NEW e \in ResolveEntity(g, c, n, FALSE)
    PROVE  e \in DOMAIN g.ents /\ Sees(c, g.ents[e].chan)
<1>1. \A d : Known(g, d, n) # {} => Least(Known(g, d, n)) \in Known(g, d, n)
  BY LeastKnown
<1>2. e \in Known(g, c, n) \/ e \in Known(g, Global, n)
  BY <1>1 DEF ResolveEntity
<1> QED
  BY <1>2 DEF Known, Sees

\* Registering a name leaves the relations alone.
LEMMA RegisteredSight ==
    ASSUME NEW g, GraphOk(g), SightOk(g), NEW c \in GraphChannels, NEW n \in EntityNames, NEW exact \in BOOLEAN
    PROVE  SightOk(Registered(g, c, n, exact)) /\ Registered(g, c, n, exact).rels = g.rels
<1> PICK h : h = Registered(g, c, n, exact)
  OBVIOUS
<1>1. GraphOk(h) /\ Extends(h, g)
  BY RegisteredKeeps
<1>2. h.rels = g.rels
  BY DEF Registered, GraphOk, ShapeOk
<1>3. SightOk(h)
  BY <1>1, <1>2, SightStays DEF Extends
<1> QED
  BY <1>2, <1>3

\* What a relation is declared between, its channel sees.
LEMMA DeclareRelationSight ==
    ASSUME AssocInv, SightOk(graph), NEW c \in GraphChannels, NEW s \in EndPoints, NEW o \in EndPoints, NEW r,
           DeclareRelation(c, s, o, r), NEW h, h = graph', GraphOk(h)
    PROVE  SightOk(h)
<1> DEFINE g1 == IF s[1] = "name" THEN Registered(graph, c, s[2], FALSE) ELSE graph
           g2 == IF o[1] = "name" THEN Registered(g1, c, o[2], FALSE) ELSE g1
           end(x) == IF x[1] = "mem" THEN x
                     ELSE Entity(CHOOSE e \in ResolveEntity(g2, c, x[2], FALSE) : TRUE)
           anchor == AnchorOf(r)
<1>1. graph' = WithRelation(g2, c, end(s), end(o), anchor)
  BY Zenon DEF DeclareRelation
<1>2. \A x \in {s, o} : \/ x[1] = "name" /\ x[2] \in EntityNames
                        \/ x[1] = "mem" /\ x = <<"mem", x[2]>>
  BY DEF EndPoints, Memory
<1>3. GraphOk(g1) /\ SightOk(g1) /\ (s[1] = "name" => ResolveEntity(g1, c, s[2], FALSE) # {})
  BY <1>2, RegisteredKeeps, RegisteredSight DEF AssocInv
<1>4. /\ GraphOk(g2) /\ SightOk(g2) /\ (o[1] = "name" => ResolveEntity(g2, c, o[2], FALSE) # {})
      /\ (s[1] = "name" => ResolveEntity(g2, c, s[2], FALSE) # {})
  <2> HIDE DEF g1
  <2>1. CASE o[1] = "name"
    <3>1. GraphOk(g2) /\ SightOk(g2) /\ Extends(g2, g1) /\ ResolveEntity(g2, c, o[2], FALSE) # {}
      BY <1>2, <1>3, <2>1, RegisteredKeeps, RegisteredSight
    <3> HIDE DEF g2
    <3>2. s[1] = "name" => ResolveEntity(g2, c, s[2], FALSE) # {}
      BY <1>3, <3>1, ResolvedStays DEF GraphOk
    <3> QED
      BY <3>1, <3>2
  <2>2. CASE o[1] # "name"
    BY <1>3, <2>2
  <2> QED
    BY <2>1, <2>2
<1> HIDE DEF g1, g2
<1>5. ASSUME NEW x \in {s, o}, end(x)[1] = "entity"
      PROVE  Sees(c, g2.ents[end(x)[2]].chan)
  <2>1. x[1] = "name"
    BY <1>2, <1>5
  <2>2. ResolveEntity(g2, c, x[2], FALSE) # {}
    BY <1>4, <2>1
  <2> DEFINE e == CHOOSE f \in ResolveEntity(g2, c, x[2], FALSE) : TRUE
  <2>3. e \in ResolveEntity(g2, c, x[2], FALSE)
    BY <2>2
  <2>4. end(x)[2] = e
    BY <2>1 DEF Entity
  <2> HIDE DEF e, end
  <2>5. Sees(c, g2.ents[e].chan)
    BY <1>4, <2>3, ResolvedSeen DEF GraphOk
  <2> QED
    BY <2>4, <2>5
<1> HIDE DEF end, anchor
<1> PICK a, b : a = end(s) /\ b = end(o)
  BY Zenon
<1>6. \A z \in {a, b} : z[1] = "entity" => Sees(c, g2.ents[z[2]].chan)
  BY <1>5
<1>7. h = WithRelation(g2, c, a, b, anchor)
  BY <1>1
<1> DEFINE x == [id |-> g2.relId + 1, chan |-> c, s |-> a, o |-> b, anchor |-> anchor]
<1>8. h.ents = g2.ents /\ h.rels \subseteq g2.rels \cup {x}
  <2>1. CASE h = g2
    BY <2>1
  <2>2. CASE h # g2
    <3>1. h = [g2 EXCEPT !.relId = @ + 1, !.rels = @ \cup {x}]
      BY <1>7, <2>2, Zenon DEF WithRelation
    <3> HIDE DEF x
    <3> QED
      BY <1>4, <3>1 DEF GraphOk, ShapeOk
  <2> QED
    BY <2>1, <2>2
<1>9. Seen(h, x)
  <2>1. x.chan = c /\ x.s = a /\ x.o = b
    OBVIOUS
  <2> HIDE DEF x
  <2> QED
    BY <1>6, <1>8, <2>1 DEF Seen
<1> HIDE DEF x
<1> QED
  BY <1>4, <1>8, <1>9, SightStays

\* The triggers leave no relation that lost an end.
LEMMA WithoutEntitiesIs ==
    ASSUME NEW g, GraphOk(g), NEW gone
    PROVE  /\ WithoutEntities(g, gone).ents = [e \in (DOMAIN g.ents) \ gone |-> g.ents[e]]
           /\ WithoutEntities(g, gone).aliases = {a \in g.aliases : a[1] \notin gone}
           /\ WithoutEntities(g, gone).mentions = {m \in g.mentions : m[1] \notin gone}
           /\ WithoutEntities(g, gone).rels = {x \in g.rels : \A e \in gone : x.s # Entity(e) /\ x.o # Entity(e)}
<1> PICK h : h = WithoutEntities(g, gone)
  OBVIOUS
<1> DEFINE ents == [e \in (DOMAIN g.ents) \ gone |-> g.ents[e]]
           aliases == {a \in g.aliases : a[1] \notin gone}
           mentions == {m \in g.mentions : m[1] \notin gone}
           rels == g.rels \ UNION {Touching(g, Entity(e)) : e \in gone}
<1>1. h = [ents |-> ents, aliases |-> aliases, mentions |-> mentions, rels |-> rels,
           entId |-> g.entId, relId |-> g.relId]
  BY DEF WithoutEntities, GraphOk, ShapeOk
<1>2. rels = {x \in g.rels : \A e \in gone : x.s # Entity(e) /\ x.o # Entity(e)}
  BY DEF Touching
<1> QED
  BY <1>1, <1>2

\* What carry() makes of an end, and of a relation.
ImageEnd(z, to) == IF z[1] = "entity" THEN Entity(to[z[2]]) ELSE z
ImageIs(y, x, c, to) == /\ y.chan = c /\ y.anchor = x.anchor
                        /\ y.s = ImageEnd(x.s, to) /\ y.o = ImageEnd(x.o, to)

LEMMA ImageShape ==
    ASSUME AssocInv, NEW x \in graph.rels, NEW c, NEW to
    PROVE  ImageOf(x, c, to) = [id |-> 0, chan |-> c, s |-> ImageEnd(x.s, to), o |-> ImageEnd(x.o, to),
                                anchor |-> x.anchor]
<1>1. x = [id |-> x.id, chan |-> x.chan, s |-> x.s, o |-> x.o, anchor |-> x.anchor]
  BY DEF AssocInv, GraphOk, RelationsOk
<1> PICK a, b : a = ImageEnd(x.s, to) /\ b = ImageEnd(x.o, to)
  OBVIOUS
<1>2. ImageOf(x, c, to) = [x EXCEPT !.id = 0, !.chan = c, !.s = a, !.o = b]
  BY Zenon DEF ImageOf, ImageEnd
<1> QED
  BY <1>1, <1>2

\* The relations made are the images of the fresh ones.
LEMMA NumberedImages ==
    ASSUME AssocInv, NEW g, NEW c, NEW to, NEW fresh \in SUBSET graph.rels
    PROVE  /\ \A y \in NumberedRels(g, c, to, fresh) : \E x \in fresh : ImageIs(y, x, c, to)
           /\ \A x \in fresh : \E y \in NumberedRels(g, c, to, fresh) : ImageIs(y, x, c, to)
<1> DEFINE number(x) == g.relId + Cardinality({y \in fresh : y.id <= x.id})
           made(x) == [ImageOf(x, c, to) EXCEPT !.id = number(x)]
<1>1. NumberedRels(g, c, to, fresh) = {made(x) : x \in fresh}
  BY Zenon DEF NumberedRels
<1>2. ASSUME NEW x \in fresh  PROVE ImageIs(made(x), x, c, to)
  <2> PICK k : k = number(x)
    OBVIOUS
  <2>1. made(x) = [ImageOf(x, c, to) EXCEPT !.id = k]
    BY Zenon
  <2>2. ImageOf(x, c, to) = [id |-> 0, chan |-> c, s |-> ImageEnd(x.s, to), o |-> ImageEnd(x.o, to),
                             anchor |-> x.anchor]
    BY ImageShape
  <2> HIDE DEF made, number
  <2> QED
    BY <2>1, <2>2 DEF ImageIs
<1> HIDE DEF made, number
<1> QED
  BY <1>1, <1>2

\* Each relation told of has its image in the channel: there already, or made of the first
\* of those that become alike.
LEMMA EveryImageMade ==
    ASSUME AssocInv, NEW g, GraphOk(g), NEW c, NEW to, NEW told \in SUBSET graph.rels, NEW x \in told
    PROVE  \E y \in g.rels \cup NumberedRels(g, c, to, FreshRels(g, c, to, told)) : ImageIs(y, x, c, to)
<1> DEFINE alike == {z \in told : ImageOf(z, c, to) = ImageOf(x, c, to)}
           T == {z.id : z \in alike}
           fresh == FreshRels(g, c, to, told)
<1>1. T \subseteq Nat /\ T # {}
  BY DEF AssocInv, GraphOk, RelationsOk
<1> HIDE DEF T
<1>2. PICK i \in T : \A j \in T : i <= j
  BY <1>1, LeastNumber
<1>3. PICK z \in told : /\ ImageOf(z, c, to) = ImageOf(x, c, to)
                        /\ \A y \in told : y.id < z.id => ImageOf(y, c, to) # ImageOf(z, c, to)
  <2>1. PICK z \in alike : z.id = i
    BY <1>2 DEF T
  <2>2. ASSUME NEW y \in told, y.id < z.id  PROVE ImageOf(y, c, to) # ImageOf(z, c, to)
    <3>1. y \in alike => y.id \in T
      BY DEF T
    <3>2. i \in Nat /\ y.id \in Nat
      BY <1>1 DEF AssocInv, GraphOk, RelationsOk
    <3>3. y \notin alike
      BY <1>2, <2>1, <2>2, <3>1, <3>2
    <3> QED
      BY <3>3
  <2> QED
    BY <2>1, <2>2
<1>4. ASSUME NEW y, ImageIs(y, z, c, to)  PROVE ImageIs(y, x, c, to)
  <2> PICK u, v : u = ImageOf(z, c, to) /\ v = ImageOf(x, c, to)
    OBVIOUS
  <2>1. /\ u.s = ImageEnd(z.s, to) /\ u.o = ImageEnd(z.o, to) /\ u.anchor = z.anchor
        /\ v.s = ImageEnd(x.s, to) /\ v.o = ImageEnd(x.o, to) /\ v.anchor = x.anchor
    BY ImageShape
  <2>2. ImageEnd(z.s, to) = ImageEnd(x.s, to) /\ ImageEnd(z.o, to) = ImageEnd(x.o, to) /\ z.anchor = x.anchor
    BY <1>3, <2>1
  <2> QED
    BY <1>4, <2>2 DEF ImageIs
<1>5. CASE \E y \in g.rels : [y EXCEPT !.id = 0] = ImageOf(z, c, to)
  <2>1. PICK y \in g.rels : [y EXCEPT !.id = 0] = ImageOf(z, c, to)
    BY <1>5
  <2>2. y = [id |-> y.id, chan |-> y.chan, s |-> y.s, o |-> y.o, anchor |-> y.anchor]
    BY DEF GraphOk, RelationsOk
  <2>3. ImageOf(z, c, to) = [id |-> 0, chan |-> c, s |-> ImageEnd(z.s, to), o |-> ImageEnd(z.o, to),
                             anchor |-> z.anchor]
    BY ImageShape
  <2>4. [y EXCEPT !.id = 0] = [id |-> 0, chan |-> y.chan, s |-> y.s, o |-> y.o, anchor |-> y.anchor]
    BY <2>2
  <2>5. ImageIs(y, z, c, to)
    BY <2>1, <2>3, <2>4 DEF ImageIs
  <2> QED
    BY <1>4, <2>5
<1>6. CASE ~\E y \in g.rels : [y EXCEPT !.id = 0] = ImageOf(z, c, to)
  <2>1. z \in fresh
    BY <1>3, <1>6 DEF FreshRels
  <2>2. fresh \in SUBSET graph.rels
    BY DEF FreshRels
  <2> HIDE DEF fresh
  <2>3. PICK y \in NumberedRels(g, c, to, fresh) : ImageIs(y, z, c, to)
    BY <2>1, <2>2, NumberedImages
  <2>4. ImageIs(y, x, c, to)
    BY <1>4, <2>3
  <2> QED
    BY <2>3, <2>4 DEF fresh
<1> QED
  BY <1>5, <1>6

\* t is in channel c what z was: the same record, or an entity that stays and answers to
\* the name of z's in a channel that the readers of c see.
Answers(h, c, n, e) == e \notin Filed /\ \E d \in GraphChannels : Sees(c, d) /\ e \in Known(h, d, n)
StandsFor(h, c, z, t) == IF z[1] = "mem" THEN t = z
                         ELSE t = Entity(t[2]) /\ Answers(h, c, graph.ents[z[2]].name, t[2])
Retold(h, c, x, y) == /\ y.chan = c /\ y.anchor = x.anchor
                      /\ StandsFor(h, c, x.s, y.s) /\ StandsFor(h, c, x.o, y.o)

\* An entity a relation names that goes to c is carried there, or is in Global.
LEMMA EndsOfTold ==
    ASSUME AssocInv, SightOk(graph), NEW c, NEW lands, NEW x \in RelsTo(c, lands) \cup CopiedTo(c, lands),
           NEW z \in {x.s, x.o}, z[1] = "entity"
    PROVE  /\ z[2] \in DOMAIN graph.ents /\ z = Entity(z[2])
           /\ z[2] \notin EntitiesTo(c, lands) => z[2] \notin Filed /\ graph.ents[z[2]].chan = Global
<1>1. x \in graph.rels /\ x.chan = Bridge
  BY DEF RelsTo, CopiedTo, FiledRels
<1>2. z[2] \in DOMAIN graph.ents /\ z = Entity(z[2])
  BY <1>1, EndNames DEF AssocInv, GraphOk, RelationsOk
<1>3. z[2] \in EntitiesOf(x)
  BY <1>2 DEF EntitiesOf
<1>4. z[2] \in Filed => z[2] \in EntitiesTo(c, lands)
  BY <1>3 DEF EntitiesTo, CopiedTo
<1>5. graph.ents[z[2]].chan = Bridge \/ graph.ents[z[2]].chan = Global
  BY <1>1 DEF SightOk, Seen, Sees
<1> QED
  BY <1>2, <1>4, <1>5 DEF Filed

\* What carry() to a channel brings there.
LEMMA CarriedTakes ==
    ASSUME AssocInv, SightOk(graph), NEW g, GraphOk(g), Extends(g, graph), SightOk(g),
           NEW c \in {Global, Concrete}, NEW lands, NEW h, h = Carried(g, c, lands).g
    PROVE  /\ GraphOk(h) /\ Extends(h, g) /\ SightOk(h)
           /\ g.mentions \subseteq h.mentions /\ g.rels \subseteq h.rels
           /\ \A m \in MentionsTo(c, lands) :
                 \E f \in Known(h, c, graph.ents[m[1]].name) : f \notin Filed /\ <<f, m[2]>> \in h.mentions
           /\ \A x \in RelsTo(c, lands) \cup CopiedTo(c, lands) : \E y \in h.rels : Retold(h, c, x, y)
<1> DEFINE E == EntitiesTo(c, lands)
           to == StandIns(g, c, E)
           g1 == WithStandIns(g, c, E)
           told == RelsTo(c, lands) \cup CopiedTo(c, lands)
           fresh == FreshRels(g, c, to, told)
           refused == {a \in g.aliases : a[1] \in E /\ AliasRefused(g1, c, to[a[1]], a[2])}
           A == {<<to[a[1]], a[2]>> : a \in {b \in g.aliases \ refused : b[1] \in E}}
           M == {<<to[m[1]], m[2]>> : m \in MentionsTo(c, lands)}
           R == NumberedRels(g, c, to, fresh)
           out == [g1 EXCEPT !.aliases = @ \cup A, !.mentions = @ \cup M,
                             !.relId = @ + Cardinality(fresh), !.rels = @ \cup R]
           lost == {a[1] : a \in refused}
<1>1. h = out
  <2>1. Carried(g, c, lands) = [g |-> out, incomplete |-> lost]
    BY Zenon DEF Carried
  <2> HIDE DEF out, lost
  <2> QED
    BY <2>1
<1>2. c \in GraphChannels /\ c # Bridge
  BY AssocAssumption DEF GraphChannels
<1>3. GraphOk(h) /\ Extends(h, g) /\ Extends(h, graph)
  <2>1. GraphOk(h) /\ Extends(h, g)
    BY <1>2, CarriedKeeps
  <2> QED
    BY <2>1 DEF Extends
<1>4. /\ E \in SUBSET Filed /\ told \in SUBSET graph.rels
      /\ \A m \in MentionsTo(c, lands) : m \in graph.mentions /\ m[1] \in E
  BY TakenFacts
<1>5. /\ GraphOk(g1) /\ NewIn(g1, g, c)
      /\ \A e \in E : to[e] \in Known(g1, c, g.ents[e].name)
      /\ \A e \in DOMAIN graph.ents : e \notin E => to[e] = e
  <2> HIDE DEF E
  <2> QED
    BY <1>2, <1>4, StandInsKeep
<1>6. fresh \in SUBSET graph.rels
  BY <1>4 DEF FreshRels
<1>7. /\ h.ents = g1.ents /\ h.aliases = g.aliases \cup A
      /\ h.mentions = g.mentions \cup M /\ h.rels = g.rels \cup R
  <2> HIDE DEF A, M, R, g1, fresh
  <2>1. h = [g1 EXCEPT !.aliases = @ \cup A, !.mentions = @ \cup M,
                       !.relId = @ + Cardinality(fresh), !.rels = @ \cup R]
    BY <1>1, Zenon
  <2> HIDE DEF out
  <2>2. /\ h.ents = g1.ents /\ h.aliases = g1.aliases \cup A
        /\ h.mentions = g1.mentions \cup M /\ h.rels = g1.rels \cup R
    BY <1>5, <2>1 DEF GraphOk, ShapeOk
  <2> QED
    BY <1>5, <2>2 DEF NewIn
<1>8. ASSUME NEW e \in E
      PROVE  /\ to[e] \in Known(h, c, graph.ents[e].name) /\ to[e] \notin Filed
             /\ to[e] \in DOMAIN h.ents /\ h.ents[to[e]].chan = c
  <2>1. g.ents[e] = graph.ents[e]
    BY <1>4 DEF Extends, Filed
  <2>2. g1.aliases \subseteq h.aliases /\ h.ents = g1.ents
    BY <1>5, <1>7 DEF NewIn
  <2>3. to[e] \in Known(h, c, graph.ents[e].name)
    BY <1>5, <2>1, <2>2 DEF Known
  <2>4. to[e] \in DOMAIN h.ents /\ h.ents[to[e]].chan = c
    BY <2>3 DEF Known
  <2> QED
    BY <1>2, <1>3, <2>3, <2>4 DEF Filed, Extends
<1>9. ASSUME NEW x \in told, NEW z \in {x.s, x.o}, z[1] = "entity"
      PROVE  /\ Answers(h, c, graph.ents[z[2]].name, to[z[2]])
             /\ Sees(c, h.ents[to[z[2]]].chan)
  <2>1. /\ z[2] \in DOMAIN graph.ents
        /\ z[2] \notin E => z[2] \notin Filed /\ graph.ents[z[2]].chan = Global
    BY <1>9, EndsOfTold
  <2>2. CASE z[2] \in E
    BY <1>2, <1>8, <2>2 DEF Answers, Sees
  <2>3. CASE z[2] \notin E
    <3>1. to[z[2]] = z[2] /\ h.ents[z[2]] = graph.ents[z[2]] /\ z[2] \in DOMAIN h.ents
      BY <1>3, <1>5, <2>1, <2>3 DEF Extends
    <3>2. z[2] \in Known(h, Global, graph.ents[z[2]].name)
      BY <2>1, <2>3, <3>1 DEF Known
    <3>3. Global \in GraphChannels /\ Sees(c, Global)
      BY DEF GraphChannels, Sees
    <3> QED
      BY <2>1, <2>3, <3>1, <3>2, <3>3 DEF Answers
  <2> QED
    BY <2>2, <2>3
<1>10. ASSUME NEW x \in told, NEW z \in {x.s, x.o}
       PROVE  /\ StandsFor(h, c, z, ImageEnd(z, to))
              /\ ImageEnd(z, to)[1] = "entity" => Sees(c, h.ents[ImageEnd(z, to)[2]].chan)
  <2>1. CASE z[1] = "entity"
    <3>1. /\ ImageEnd(z, to) = Entity(to[z[2]]) /\ ImageEnd(z, to)[2] = to[z[2]]
      BY <2>1 DEF ImageEnd, Entity
    <3>2. Answers(h, c, graph.ents[z[2]].name, to[z[2]]) /\ Sees(c, h.ents[to[z[2]]].chan)
      BY <1>9, <2>1
    <3> HIDE DEF to
    <3> QED
      BY <2>1, <3>1, <3>2 DEF StandsFor
  <2>2. CASE z[1] # "entity"
    <3>1. x \in graph.rels
      BY <1>4
    <3>2. z[1] = "mem"
      BY <2>2, <3>1, EndNames DEF AssocInv, GraphOk, RelationsOk
    <3> QED
      BY <2>2, <3>2 DEF ImageEnd, StandsFor
  <2> QED
    BY <2>1, <2>2
<1>11. ASSUME NEW m \in MentionsTo(c, lands)
       PROVE  \E f \in Known(h, c, graph.ents[m[1]].name) : f \notin Filed /\ <<f, m[2]>> \in h.mentions
  <2>1. m[1] \in E /\ <<to[m[1]], m[2]>> \in h.mentions
    BY <1>4, <1>7
  <2> QED
    BY <1>8, <2>1
<1> HIDE DEF E, to, g1, told, A, M, out, lost, refused
<1>12. ASSUME NEW x \in told  PROVE \E y \in h.rels : Retold(h, c, x, y)
  <2>1. PICK y \in g.rels \cup R : ImageIs(y, x, c, to)
    BY <1>4, EveryImageMade
  <2> QED
    BY <1>7, <1>10, <2>1 DEF ImageIs, Retold
<1>13. SightOk(h)
  <2>1. ASSUME NEW y \in R  PROVE Seen(h, y)
    <3>1. PICK x \in fresh : ImageIs(y, x, c, to)
      BY <1>6, NumberedImages
    <3>2. x \in told
      BY DEF FreshRels
    <3> QED
      BY <1>2, <1>10, <3>1, <3>2 DEF ImageIs, Seen
  <2> HIDE DEF R
  <2>2. \A e \in (DOMAIN g.ents) \cap (DOMAIN h.ents) : h.ents[e] = g.ents[e]
    BY <1>3 DEF Extends
  <2>3. \A x \in h.rels : x \in g.rels \/ Seen(h, x)
    BY <1>7, <2>1
  <2> QED
    BY <1>3, <2>2, <2>3, SightStays
<1>14. g.mentions \subseteq h.mentions /\ g.rels \subseteq h.rels
  BY <1>7
<1> QED
  BY <1>3, <1>11, <1>12, <1>13, <1>14 DEF told

\* h is g without what moved and without the entities of D, named by nothing that stays but
\* the relations that were copied.
TakenOff(h, g, gone, copied, D) ==
    /\ \A e \in D : /\ \A m \in g.mentions \ gone.mentions : m[1] # e
                    /\ \A x \in g.rels \ gone.rels : x.s = Entity(e) \/ x.o = Entity(e) => x \in copied
    /\ h.ents = [e \in (DOMAIN g.ents) \ D |-> g.ents[e]]
    /\ h.aliases = {a \in g.aliases : a[1] \notin D}
    /\ h.mentions = {m \in g.mentions \ gone.mentions : m[1] \notin D}
    /\ h.rels = {x \in g.rels \ gone.rels : \A e \in D : x.s # Entity(e) /\ x.o # Entity(e)}

\* What is removed of the originals: entities nothing names any more but what moved.
LEMMA SettledIs ==
    ASSUME NEW g, GraphOk(g), NEW carried, NEW gone, NEW copied, NEW incomplete, NEW h,
           h = Settled(g, carried, gone, copied, incomplete)
    PROVE  \E D \in SUBSET carried : TakenOff(h, g, gone, copied, D)
<1> DEFINE left == [g EXCEPT !.mentions = @ \ gone.mentions, !.rels = @ \ gone.rels]
<1>1. left = [ents |-> g.ents, aliases |-> g.aliases, mentions |-> g.mentions \ gone.mentions,
              rels |-> g.rels \ gone.rels, entId |-> g.entId, relId |-> g.relId]
  <2> PICK M, R : M = gone.mentions /\ R = gone.rels
    OBVIOUS
  <2>1. left = [g EXCEPT !.mentions = @ \ M, !.rels = @ \ R]
    BY Zenon
  <2> HIDE DEF left
  <2> QED
    BY <2>1 DEF GraphOk, ShapeOk
<1>2. g.mentions \ gone.mentions \subseteq g.mentions /\ g.rels \ gone.rels \subseteq g.rels
  OBVIOUS
<1> DEFINE D == {e \in carried \ incomplete :
                   /\ \A m \in left.mentions : m[1] # e
                   /\ Touching(left, Entity(e)) \subseteq copied \cup gone.rels}
<1>3. h = WithoutEntities(left, D)
  BY Zenon DEF Settled
<1> HIDE DEF left
<1>4. GraphOk(left)
  BY <1>1, <1>2, FewerDeclarationsKeep
<1>5. /\ left.ents = g.ents /\ left.aliases = g.aliases /\ left.mentions = g.mentions \ gone.mentions
      /\ left.rels = g.rels \ gone.rels
  BY <1>1
<1>6. D \in SUBSET carried
  OBVIOUS
<1>7. ASSUME NEW e \in D
      PROVE  /\ \A m \in g.mentions \ gone.mentions : m[1] # e
             /\ \A x \in g.rels \ gone.rels : x.s = Entity(e) \/ x.o = Entity(e) => x \in copied
  BY <1>5 DEF Touching
<1> HIDE DEF D
<1>8. /\ h.ents = [e \in (DOMAIN left.ents) \ D |-> left.ents[e]]
      /\ h.aliases = {a \in left.aliases : a[1] \notin D}
      /\ h.mentions = {m \in left.mentions : m[1] \notin D}
      /\ h.rels = {x \in left.rels : \A e \in D : x.s # Entity(e) /\ x.o # Entity(e)}
  BY <1>3, <1>4, WithoutEntitiesIs
<1>9. TakenOff(h, g, gone, copied, D)
  BY <1>5, <1>7, <1>8 DEF TakenOff
<1> QED
  BY <1>6, <1>9

\* What a channel has of a relation it keeps while entities are added.
LEMMA RetoldStays ==
    ASSUME NEW g, NEW h, Extends(h, g), NEW c, NEW x, NEW y, Retold(g, c, x, y)
    PROVE  Retold(h, c, x, y)
<1>1. \A d, n : Known(g, d, n) \subseteq Known(h, d, n)
  BY KnownStays
<1> QED
  BY <1>1 DEF Retold, StandsFor, Answers

\* Where the declarations are after a migration: a mention of a moved memory, and a relation
\* that follows one or names entities that left, in the channel they went to, the others
\* where they were.
LEMMA FollowedTakes ==
    ASSUME AssocInv, SightOk(graph), NEW lands, \A r \in DOMAIN lands : lands[r] \in {Global, Concrete},
           NEW h, h = Followed(lands)
    PROVE  /\ SightOk(h)
           /\ \A e \in (DOMAIN graph.ents) \cap (DOMAIN h.ents) : h.ents[e] = graph.ents[e]
           /\ \A m \in graph.mentions :
                 IF m[1] \in Filed /\ m[2] \in DOMAIN lands
                 THEN \E f \in Known(h, lands[m[2]], graph.ents[m[1]].name) : <<f, m[2]>> \in h.mentions
                 ELSE m \in h.mentions /\ m[1] \in DOMAIN h.ents /\ h.ents[m[1]] = graph.ents[m[1]]
           /\ \A x \in graph.rels :
                 \/ x \in h.rels /\ \A c \in GraphChannels : x \notin RelsTo(c, lands)
                 \/ \E c \in GraphChannels :
                       /\ \/ x \in RelsTo(c, lands)
                          \/ x \in CopiedTo(c, lands) /\ \A d \in GraphChannels : x \notin RelsTo(d, lands)
                       /\ \E y \in h.rels : Retold(h, c, x, y)
<1> DEFINE first == Carried(graph, Global, lands)
           second == Carried(first.g, Concrete, lands)
           gone == [mentions |-> UNION {MentionsTo(c, lands) : c \in GraphChannels},
                    rels |-> UNION {RelsTo(c, lands) : c \in GraphChannels}]
           carried == UNION {EntitiesTo(c, lands) : c \in GraphChannels}
           copied == UNION {CopiedTo(c, lands) : c \in GraphChannels}
           incomplete == first.incomplete \cup second.incomplete
<1>1. h = Settled(second.g, carried, gone, copied, incomplete)
  BY Zenon DEF Followed
<1>2. /\ Global \in {Global, Concrete} /\ Concrete \in {Global, Concrete}
      /\ {Global, Concrete} \subseteq GraphChannels /\ Bridge \notin {Global, Concrete}
  BY AssocAssumption DEF GraphChannels
<1>3. GraphOk(graph) /\ Extends(graph, graph)
  BY DEF AssocInv, Extends
<1> PICK f : f = first.g
  OBVIOUS
<1>4. /\ GraphOk(f) /\ Extends(f, graph) /\ SightOk(f)
      /\ graph.mentions \subseteq f.mentions /\ graph.rels \subseteq f.rels
      /\ \A m \in MentionsTo(Global, lands) :
            \E e \in Known(f, Global, graph.ents[m[1]].name) : e \notin Filed /\ <<e, m[2]>> \in f.mentions
      /\ \A x \in RelsTo(Global, lands) \cup CopiedTo(Global, lands) : \E y \in f.rels : Retold(f, Global, x, y)
  BY <1>2, <1>3, CarriedTakes
<1> PICK s : s = second.g
  OBVIOUS
<1>5. s = Carried(f, Concrete, lands).g
  OBVIOUS
<1> HIDE DEF first, second, incomplete
<1>6. /\ GraphOk(s) /\ Extends(s, f) /\ SightOk(s)
      /\ f.mentions \subseteq s.mentions /\ f.rels \subseteq s.rels
      /\ \A m \in MentionsTo(Concrete, lands) :
            \E e \in Known(s, Concrete, graph.ents[m[1]].name) : e \notin Filed /\ <<e, m[2]>> \in s.mentions
      /\ \A x \in RelsTo(Concrete, lands) \cup CopiedTo(Concrete, lands) :
            \E y \in s.rels : Retold(s, Concrete, x, y)
  BY <1>2, <1>4, <1>5, CarriedTakes
<1>7. Extends(s, graph) /\ graph.mentions \subseteq s.mentions /\ graph.rels \subseteq s.rels
  BY <1>4, <1>6 DEF Extends
<1>8. ASSUME NEW c \in {Global, Concrete}, NEW m \in MentionsTo(c, lands)
      PROVE  \E e \in Known(s, c, graph.ents[m[1]].name) : e \notin Filed /\ <<e, m[2]>> \in s.mentions
  <2>1. CASE c = Concrete
    BY <1>6, <2>1
  <2>2. CASE c = Global
    <3>1. PICK e \in Known(f, Global, graph.ents[m[1]].name) : e \notin Filed /\ <<e, m[2]>> \in f.mentions
      BY <1>4, <2>2
    <3>2. e \in Known(s, Global, graph.ents[m[1]].name)
      BY <1>6, <3>1, KnownStays
    <3> QED
      BY <1>6, <2>2, <3>1, <3>2
  <2> QED
    BY <2>1, <2>2
<1>9. ASSUME NEW c \in {Global, Concrete}, NEW x \in RelsTo(c, lands) \cup CopiedTo(c, lands)
      PROVE  \E y \in s.rels : Retold(s, c, x, y)
  <2>1. CASE c = Concrete
    BY <1>6, <2>1
  <2>2. CASE c = Global
    <3>1. PICK y \in f.rels : Retold(f, Global, x, y)
      BY <1>4, <2>2
    <3>2. Retold(s, Global, x, y)
      BY <1>6, <3>1, RetoldStays
    <3> QED
      BY <1>6, <2>2, <3>1, <3>2
  <2> QED
    BY <2>1, <2>2
<1> PICK D : D \in SUBSET carried /\ TakenOff(h, s, gone, copied, D)
  <2>1. h = Settled(s, carried, gone, copied, incomplete)
    BY <1>1
  <2> HIDE DEF carried, gone, copied
  <2> QED
    BY <1>6, <2>1, SettledIs
<1>10. /\ \A e \in D : /\ \A m \in s.mentions \ gone.mentions : m[1] # e
                       /\ \A x \in s.rels \ gone.rels : x.s = Entity(e) \/ x.o = Entity(e) => x \in copied
       /\ h.ents = [e \in (DOMAIN s.ents) \ D |-> s.ents[e]]
       /\ h.aliases = {a \in s.aliases : a[1] \notin D}
       /\ h.mentions = {m \in s.mentions \ gone.mentions : m[1] \notin D}
       /\ h.rels = {x \in s.rels \ gone.rels : \A e \in D : x.s # Entity(e) /\ x.o # Entity(e)}
  <2> HIDE DEF carried, gone, copied
  <2> QED
    BY DEF TakenOff
<1>11. /\ D \subseteq Filed
       /\ \A m : m \in gone.mentions <=> \E c \in GraphChannels : m \in MentionsTo(c, lands)
       /\ \A x : x \in gone.rels <=> \E c \in GraphChannels : x \in RelsTo(c, lands)
       /\ \A x : x \in copied <=> \E c \in GraphChannels : x \in CopiedTo(c, lands)
  BY TakenFacts
<1> HIDE DEF carried, gone, copied
<1>12. \A c \in GraphChannels : \A n : \A e \in Known(s, c, n) : e \notin Filed => e \in Known(h, c, n)
  BY <1>10, <1>11 DEF Known
<1>13. ASSUME NEW c \in {Global, Concrete}, NEW x \in RelsTo(c, lands) \cup CopiedTo(c, lands)
       PROVE  \E y \in h.rels : Retold(h, c, x, y)
  <2>1. PICK y \in s.rels : Retold(s, c, x, y)
    BY <1>9
  <2>2. y \notin gone.rels
    BY <1>2, <1>11, <2>1 DEF Retold, RelsTo, FiledRels
  <2>3. ASSUME NEW z, NEW t, StandsFor(s, c, z, t)
        PROVE  StandsFor(h, c, z, t) /\ \A e \in D : t # Entity(e)
    <3>1. CASE z[1] = "mem"
      BY <2>3, <3>1 DEF StandsFor, Entity
    <3>2. CASE z[1] # "mem"
      <4>1. t = Entity(t[2]) /\ t[2] \notin Filed /\ Answers(h, c, graph.ents[z[2]].name, t[2])
        BY <1>12, <2>3, <3>2 DEF StandsFor, Answers
      <4>2. \A e \in D : t[2] # e /\ Entity(e)[2] = e
        BY <1>11, <4>1 DEF Entity
      <4> QED
        BY <3>2, <4>1, <4>2 DEF StandsFor
    <3> QED
      BY <3>1, <3>2
  <2>4. Retold(h, c, x, y) /\ \A e \in D : y.s # Entity(e) /\ y.o # Entity(e)
    BY <2>1, <2>3 DEF Retold
  <2> QED
    BY <1>10, <2>1, <2>2, <2>4
<1>14. ASSUME NEW c \in GraphChannels,
              RelsTo(c, lands) # {} \/ MentionsTo(c, lands) # {} \/ CopiedTo(c, lands) # {}
       PROVE  c \in {Global, Concrete}
  <2>1. CASE RelsTo(c, lands) # {}
    BY <2>1 DEF RelsTo, LandingOf
  <2>2. CASE MentionsTo(c, lands) # {}
    BY <2>2 DEF MentionsTo
  <2>3. CASE CopiedTo(c, lands) # {}
    <3>1. EntitiesTo(c, lands) # {}
      BY <2>3 DEF CopiedTo
    <3>2. RelsTo(c, lands) # {} \/ MentionsTo(c, lands) # {}
      BY <3>1 DEF EntitiesTo
    <3> QED
      BY <2>1, <2>2, <3>2
  <2> QED
    BY <1>14, <2>1, <2>2, <2>3
<1>15. ASSUME NEW m \in graph.mentions
       PROVE  IF m[1] \in Filed /\ m[2] \in DOMAIN lands
              THEN \E e \in Known(h, lands[m[2]], graph.ents[m[1]].name) : <<e, m[2]>> \in h.mentions
              ELSE m \in h.mentions /\ m[1] \in DOMAIN h.ents /\ h.ents[m[1]] = graph.ents[m[1]]
  <2>1. CASE m[1] \in Filed /\ m[2] \in DOMAIN lands
    <3> PICK c : c = lands[m[2]]
      OBVIOUS
    <3>1. c \in {Global, Concrete} /\ c \in GraphChannels /\ m \in MentionsTo(c, lands)
      BY <1>2, <2>1 DEF MentionsTo
    <3>2. PICK e \in Known(s, c, graph.ents[m[1]].name) : e \notin Filed /\ <<e, m[2]>> \in s.mentions
      BY <1>8, <3>1
    <3>3. <<e, m[2]>> \notin gone.mentions
      BY <1>11, <3>2 DEF MentionsTo
    <3>4. <<e, m[2]>> \in h.mentions
      BY <1>10, <1>11, <3>2, <3>3
    <3>5. e \in Known(h, c, graph.ents[m[1]].name)
      BY <1>12, <3>1, <3>2
    <3> QED
      BY <2>1, <3>4, <3>5
  <2>2. CASE ~(m[1] \in Filed /\ m[2] \in DOMAIN lands)
    <3>1. m \notin gone.mentions
      BY <1>11, <2>2 DEF MentionsTo
    <3>2. m \in s.mentions
      BY <1>7
    <3>3. m[1] \notin D
      BY <1>10, <3>1, <3>2
    <3>4. m[1] \in DOMAIN graph.ents
      BY <1>3 DEF GraphOk, EntitiesOk
    <3>5. m[1] \in DOMAIN s.ents /\ s.ents[m[1]] = graph.ents[m[1]]
      BY <1>7, <3>4 DEF Extends
    <3> QED
      BY <1>10, <2>2, <3>1, <3>2, <3>3, <3>5
  <2> QED
    BY <2>1, <2>2
<1>16. ASSUME NEW x \in graph.rels
       PROVE  \/ x \in h.rels /\ \A c \in GraphChannels : x \notin RelsTo(c, lands)
              \/ \E c \in GraphChannels :
                    /\ \/ x \in RelsTo(c, lands)
                       \/ x \in CopiedTo(c, lands) /\ \A d \in GraphChannels : x \notin RelsTo(d, lands)
                    /\ \E y \in h.rels : Retold(h, c, x, y)
  <2>1. CASE \E c \in GraphChannels : x \in RelsTo(c, lands)
    BY <1>13, <1>14, <2>1
  <2>2. CASE /\ \A c \in GraphChannels : x \notin RelsTo(c, lands)
             /\ \E c \in GraphChannels : x \in CopiedTo(c, lands)
    BY <1>13, <1>14, <2>2
  <2>3. CASE \A c \in GraphChannels : x \notin RelsTo(c, lands) /\ x \notin CopiedTo(c, lands)
    <3>1. x \in s.rels /\ x \notin gone.rels /\ x \notin copied
      BY <1>7, <1>11, <2>3
    <3> QED
      BY <1>10, <2>3, <3>1
  <2> QED
    BY <2>1, <2>2, <2>3
<1>17. SightOk(h)
  <2>1. GraphOk(h)
    BY FollowedKeeps
  <2> QED
    BY <1>6, <1>10, <2>1, SightStays
<1>18. \A e \in (DOMAIN graph.ents) \cap (DOMAIN h.ents) : h.ents[e] = graph.ents[e]
  BY <1>7, <1>10 DEF Extends
<1> QED
  BY <1>15, <1>16, <1>17, <1>18

\* A migration that commits: what moved, where to, and what the tables are then.
LEMMA MigrationIs ==
    ASSUME NEW globalize \in BOOLEAN, NEW stay \in SUBSET GraphRecords, Migrate(globalize, stay)
    PROVE  \/ graph' = graph /\ chanOf' = chanOf
           \/ \E lands : /\ \A r \in DOMAIN lands : lands[r] \in {Global, Concrete}
                         /\ graph' = Followed(lands)
                         /\ DOMAIN chanOf' = DOMAIN chanOf
                         /\ Lands = lands /\ \A r : Moved(r) <=> r \in DOMAIN lands
<1> DEFINE moving == {r \in DOMAIN chanOf : /\ chanOf[r] = Bridge
                                            /\ r \in Recoverable \/ globalize
                                            /\ r \notin stay}
           lands == [r \in moving |-> ConcreteOf(r)]
<1>1. \/ graph' = graph /\ chanOf' = chanOf
      \/ /\ graph' = Followed(lands)
         /\ chanOf' = [r \in DOMAIN chanOf |-> IF r \in moving THEN lands[r] ELSE chanOf[r]]
  BY Zenon DEF Migrate
<1>2. ASSUME chanOf' = [r \in DOMAIN chanOf |-> IF r \in moving THEN lands[r] ELSE chanOf[r]]
      PROVE  /\ \A r \in DOMAIN lands : lands[r] \in {Global, Concrete}
             /\ DOMAIN chanOf' = DOMAIN chanOf
             /\ Lands = lands /\ \A r : Moved(r) <=> r \in DOMAIN lands
  <2>1. /\ DOMAIN lands = moving /\ lands = [r \in moving |-> lands[r]]
        /\ \A r \in moving : lands[r] \in {Global, Concrete} /\ lands[r] # Bridge
    BY AssocAssumption DEF ConcreteOf
  <2>2. \A r \in moving : r \in DOMAIN chanOf /\ chanOf[r] = Bridge
    OBVIOUS
  <2> HIDE DEF lands, moving
  <2>3. \A r : Moved(r) <=> r \in moving
    BY <1>2, <2>1, <2>2 DEF Moved
  <2>4. {q \in DOMAIN chanOf : Moved(q)} = moving
    BY <2>2, <2>3
  <2>5. \A r \in moving : chanOf'[r] = lands[r]
    BY <1>2, <2>2
  <2>6. Lands = lands
    BY <2>1, <2>4, <2>5 DEF Lands
  <2> QED
    BY <1>2, <2>1, <2>3, <2>6
<1> HIDE DEF lands, moving
<1> QED
  BY <1>1, <1>2

\* Every statement leaves relations that their readers see whole.
LEMMA SightSteps == AssocInv /\ SightOk(graph) /\ [AssocNext]_assocVars => SightOk(graph)'
<1> SUFFICES ASSUME AssocInv, SightOk(graph), [AssocNext]_assocVars  PROVE SightOk(graph)'
  OBVIOUS
<1> PICK h : h = graph'
  OBVIOUS
<1>1. GraphOk(h)
  <2>1. AssocInv'
    BY AssocSteps
  <2> QED
    BY <2>1 DEF AssocInv, GraphOk, ShapeOk, EntitiesOk, RelationsOk, OneEach, EndOk, Known
<1>2. GraphOk(graph)
  BY DEF AssocInv
<1>3. CASE \E c \in GraphChannels, n \in EntityNames, a \in EntityNames \cup {NoName},
              r \in GraphRecords \cup {NoAnchor} : a # n /\ DeclareEntity(c, n, a, r)
  <2>1. PICK c \in GraphChannels, n \in EntityNames, a \in EntityNames \cup {NoName},
             r \in GraphRecords \cup {NoAnchor} : DeclareEntity(c, n, a, r)
    BY <1>3
  <2> PICK g : g = Registered(graph, c, n, a # NoName)
    OBVIOUS
  <2>2. GraphOk(g) /\ SightOk(g)
    BY <1>2, RegisteredKeeps, RegisteredSight
  <2>3. h.ents = g.ents /\ h.rels = g.rels
    <3>1. PICK A, M : h = [g EXCEPT !.aliases = A, !.mentions = M]
      BY <2>1, Zenon DEF DeclareEntity
    <3> QED
      BY <2>2, <3>1 DEF GraphOk, ShapeOk
  <2>4. SightOk(h)
    BY <1>1, <2>2, <2>3, SightStays
  <2> QED
    BY <2>4 DEF SightOk, Seen
<1>4. CASE \E c \in RelationChannels, s \in EndPoints, o \in EndPoints, r \in GraphRecords \cup {NoAnchor} :
              s # o /\ DeclareRelation(c, s, o, r)
  <2>1. PICK c \in RelationChannels, s \in EndPoints, o \in EndPoints,
             r \in GraphRecords \cup {NoAnchor} : DeclareRelation(c, s, o, r)
    BY <1>4
  <2>2. c \in GraphChannels
    BY AssocAssumption DEF GraphChannels
  <2>3. SightOk(h)
    BY <1>1, <2>1, <2>2, DeclareRelationSight
  <2> QED
    BY <2>3 DEF SightOk, Seen
<1>5. CASE \/ Retract \/ \E r \in GraphRecords, c \in GraphChannels : StoreMemory(r, c)
           \/ \E r \in GraphRecords : DeleteMemory(r)
           \/ UNCHANGED assocVars
  <2>1. h.ents = graph.ents /\ h.rels \subseteq graph.rels
    <3>1. CASE Retract
      BY <1>2, <3>1 DEF Retract, GraphOk, ShapeOk
    <3>2. CASE \E r \in GraphRecords : DeleteMemory(r)
      BY <1>2, <3>2 DEF DeleteMemory, GraphOk, ShapeOk
    <3>3. CASE \/ \E r \in GraphRecords, c \in GraphChannels : StoreMemory(r, c)
               \/ UNCHANGED assocVars
      BY <3>3 DEF StoreMemory, assocVars
    <3> QED
      BY <1>5, <3>1, <3>2, <3>3
  <2>2. SightOk(h)
    BY <1>1, <1>2, <2>1, SightStays
  <2> QED
    BY <2>2 DEF SightOk, Seen
<1>6. CASE \E globalize \in BOOLEAN, stay \in SUBSET GraphRecords : Migrate(globalize, stay)
  <2>1. \/ h = graph
        \/ \E lands : (\A r \in DOMAIN lands : lands[r] \in {Global, Concrete}) /\ h = Followed(lands)
    BY <1>6, MigrationIs
  <2>2. SightOk(h)
    BY <2>1, FollowedTakes
  <2> QED
    BY <2>2 DEF SightOk, Seen
<1> QED
  BY <1>3, <1>4, <1>5, <1>6 DEF AssocNext

\* Where a relation of the channel follows to is where it is taken.
LEMMA LandingsAreTaken ==
    ASSUME NEW lands, \A r \in DOMAIN lands : lands[r] \in {Global, Concrete}, NEW x \in graph.rels, x.chan = Bridge
    PROVE  \A c : c \in LandingOf(x, lands) <=> c \in GraphChannels /\ x \in RelsTo(c, lands)
<1>1. LandingOf(x, lands) \subseteq {lands[r] : r \in DOMAIN lands}
  BY DEF LandingOf
<1>2. LandingOf(x, lands) \subseteq GraphChannels
  BY <1>1 DEF GraphChannels
<1> QED
  BY <1>2 DEF RelsTo, FiledRels

\* A step that moves memories takes their declarations with them.
LEMMA MigrationFollows ==
    ASSUME AssocInv, SightOk(graph), [AssocNext]_assocVars, Migrated
    PROVE  MentionsFollow /\ RelationsFollow
<1>1. \E globalize \in BOOLEAN, stay \in SUBSET GraphRecords : Migrate(globalize, stay)
  <2>1. \A c, n, a, r : DeclareEntity(c, n, a, r) => UNCHANGED chanOf
    BY SMTT(30) DEF DeclareEntity
  <2>2. \A c, s, o, r : DeclareRelation(c, s, o, r) => UNCHANGED chanOf
    BY SMTT(30) DEF DeclareRelation
  <2>3. Retract => UNCHANGED chanOf
    BY Zenon DEF Retract
  <2>4. \A r, c : StoreMemory(r, c) => DOMAIN chanOf' # DOMAIN chanOf
    BY DEF StoreMemory
  <2>5. \A r : DeleteMemory(r) => DOMAIN chanOf' # DOMAIN chanOf
    BY DEF DeleteMemory
  <2>6. UNCHANGED assocVars => UNCHANGED chanOf
    BY Zenon DEF assocVars
  <2> QED
    BY <2>1, <2>2, <2>3, <2>4, <2>5, <2>6, Zenon DEF AssocNext, Migrated
<1>2. PICK lands : /\ \A r \in DOMAIN lands : lands[r] \in {Global, Concrete}
                   /\ graph' = Followed(lands)
                   /\ Lands = lands /\ \A r : Moved(r) <=> r \in DOMAIN lands
  BY <1>1, MigrationIs DEF Migrated
<1> PICK h : h = graph'
  OBVIOUS
<1>3. GraphOk(graph) /\ GraphOk(h)
  BY <1>2, FollowedKeeps DEF AssocInv
<1>4. /\ SightOk(h)
      /\ \A e \in (DOMAIN graph.ents) \cap (DOMAIN h.ents) : h.ents[e] = graph.ents[e]
  BY <1>2, FollowedTakes
<1>5. ASSUME NEW m \in graph.mentions
      PROVE  IF m[1] \in Filed /\ m[2] \in DOMAIN lands
             THEN \E f \in Known(h, lands[m[2]], graph.ents[m[1]].name) : <<f, m[2]>> \in h.mentions
             ELSE m \in h.mentions /\ m[1] \in DOMAIN h.ents /\ h.ents[m[1]] = graph.ents[m[1]]
  BY <1>2, FollowedTakes
<1>6. ASSUME NEW x \in graph.rels
      PROVE  \/ x \in h.rels /\ \A c \in GraphChannels : x \notin RelsTo(c, lands)
             \/ \E c \in GraphChannels :
                   /\ \/ x \in RelsTo(c, lands)
                      \/ x \in CopiedTo(c, lands) /\ \A d \in GraphChannels : x \notin RelsTo(d, lands)
                   /\ \E y \in h.rels : Retold(h, c, x, y)
  BY <1>2, FollowedTakes
<1>7. MentionsFollow
  <2> SUFFICES ASSUME NEW m \in graph.mentions
               PROVE  LET e == graph.ents[m[1]]
                          c == IF e.chan = Bridge /\ Moved(m[2]) THEN chanOf'[m[2]] ELSE e.chan
                      IN  \E f \in Known(h, c, e.name) : <<f, m[2]>> \in h.mentions
    BY Zenon DEF MentionsFollow
  <2>1. m[1] \in DOMAIN graph.ents /\ m = <<m[1], m[2]>>
    BY <1>3 DEF GraphOk, EntitiesOk
  <2>2. m[1] \in Filed <=> graph.ents[m[1]].chan = Bridge
    BY <2>1 DEF Filed
  <2>3. CASE graph.ents[m[1]].chan = Bridge /\ Moved(m[2])
    <3>1. m[2] \in DOMAIN lands /\ chanOf'[m[2]] = lands[m[2]]
      BY <1>2, <2>3 DEF Lands, Moved
    <3> QED
      BY <1>5, <2>2, <2>3, <3>1
  <2>4. CASE ~(graph.ents[m[1]].chan = Bridge /\ Moved(m[2]))
    <3>1. m \in h.mentions /\ m[1] \in DOMAIN h.ents /\ h.ents[m[1]] = graph.ents[m[1]]
      BY <1>2, <1>5, <2>2, <2>4
    <3>2. m[1] \in Known(h, graph.ents[m[1]].chan, graph.ents[m[1]].name)
      BY <3>1 DEF Known
    <3> QED
      BY <2>1, <2>4, <3>1, <3>2
  <2> QED
    BY <2>3, <2>4
<1>8. RelationsFollow
  <2> SUFFICES ASSUME NEW x \in graph.rels
               PROVE  LET to == IF x.chan = Bridge THEN LandingOf(x, lands) ELSE {}
                      IN  \E y \in h.rels : /\ Tells(x, y)
                                            /\ to # {} => y.chan \in to
                                            /\ to = {} => y.chan = x.chan \/ x \in CopiedTo(y.chan, lands)
    BY <1>2, Zenon DEF RelationsFollow
  <2> DEFINE to == IF x.chan = Bridge THEN LandingOf(x, lands) ELSE {}
  <2>1. \A c : c \in to <=> c \in GraphChannels /\ x \in RelsTo(c, lands)
    <3>1. CASE x.chan = Bridge
      BY <1>2, <3>1, LandingsAreTaken
    <3>2. CASE x.chan # Bridge
      BY <3>2 DEF RelsTo, FiledRels
    <3> QED
      BY <3>1, <3>2
  <2> HIDE DEF to
  <2>2. ASSUME x \in h.rels, \A c \in GraphChannels : x \notin RelsTo(c, lands)
        PROVE  \E y \in h.rels :
                  /\ Tells(x, y)
                  /\ to # {} => y.chan \in to
                  /\ to = {} => y.chan = x.chan \/ x \in CopiedTo(y.chan, lands)
    <3>1. EndOk(graph, x.s) /\ EndOk(graph, x.o) /\ EndOk(h, x.s) /\ EndOk(h, x.o)
      BY <1>3, <2>2 DEF GraphOk, RelationsOk
    <3>2. Seen(h, x)
      BY <1>4, <2>2 DEF SightOk
    <3>3. ASSUME NEW z \in {x.s, x.o}  PROVE SameEnd(z, z, x.chan)
      <4>1. CASE z[1] = "mem"
        BY <4>1 DEF SameEnd
      <4>2. CASE z[1] # "mem"
        <5>1. z[1] = "entity" /\ z[2] \in DOMAIN graph.ents /\ z[2] \in DOMAIN h.ents
          BY <3>1, <4>2, EndNames
        <5>2. h.ents[z[2]] = graph.ents[z[2]] /\ h.ents[z[2]].chan \in GraphChannels
          BY <1>3, <1>4, <5>1 DEF GraphOk, EntitiesOk
        <5>3. Sees(x.chan, h.ents[z[2]].chan)
          BY <3>2, <5>1 DEF Seen
        <5>4. z[2] \in Known(h, h.ents[z[2]].chan, graph.ents[z[2]].name)
          BY <5>1, <5>2 DEF Known
        <5> QED
          BY <4>2, <5>1, <5>2, <5>3, <5>4 DEF SameEnd
      <4> QED
        BY <4>1, <4>2
    <3>4. Tells(x, x)
      BY <3>3 DEF Tells
    <3>5. to = {}
      BY <2>1, <2>2
    <3> QED
      BY <2>2, <3>4, <3>5
  <2>3. ASSUME NEW c \in GraphChannels,
               \/ x \in RelsTo(c, lands)
               \/ x \in CopiedTo(c, lands) /\ \A d \in GraphChannels : x \notin RelsTo(d, lands),
               NEW y \in h.rels, Retold(h, c, x, y)
        PROVE  /\ Tells(x, y)
               /\ to # {} => y.chan \in to
               /\ to = {} => y.chan = x.chan \/ x \in CopiedTo(y.chan, lands)
    <3>1. y.chan = c /\ y.anchor = x.anchor /\ StandsFor(h, c, x.s, y.s) /\ StandsFor(h, c, x.o, y.o)
      BY <2>3 DEF Retold
    <3>2. ASSUME NEW z, NEW t, StandsFor(h, c, z, t)  PROVE SameEnd(z, t, c)
      <4>1. CASE z[1] = "mem"
        BY <3>2, <4>1 DEF StandsFor, SameEnd
      <4>2. CASE z[1] # "mem"
        <5>1. t[1] = "entity"
          BY <3>2, <4>2 DEF StandsFor, Entity
        <5>2. PICK d \in GraphChannels : Sees(c, d) /\ t[2] \in Known(h, d, graph.ents[z[2]].name)
          BY <3>2, <4>2 DEF StandsFor, Answers
        <5>3. t[2] \in DOMAIN h.ents
          BY <5>2 DEF Known
        <5> QED
          BY <4>2, <5>1, <5>2, <5>3 DEF SameEnd
      <4> QED
        BY <4>1, <4>2
    <3>3. Tells(x, y)
      BY <3>1, <3>2 DEF Tells
    <3> QED
      BY <2>1, <2>3, <3>1, <3>3
  <2>4. \E y \in h.rels : /\ Tells(x, y)
                          /\ to # {} => y.chan \in to
                          /\ to = {} => y.chan = x.chan \/ x \in CopiedTo(y.chan, lands)
    <3>1. CASE x \in h.rels /\ \A c \in GraphChannels : x \notin RelsTo(c, lands)
      BY <2>2, <3>1
    <3>2. CASE ~(x \in h.rels /\ \A c \in GraphChannels : x \notin RelsTo(c, lands))
      <4>1. PICK c \in GraphChannels :
               /\ \/ x \in RelsTo(c, lands)
                  \/ x \in CopiedTo(c, lands) /\ \A d \in GraphChannels : x \notin RelsTo(d, lands)
               /\ \E y \in h.rels : Retold(h, c, x, y)
        BY <1>6, <3>2
      <4> QED
        BY <2>3, <4>1
    <3> QED
      BY <3>1, <3>2
  <2> QED
    BY <2>4 DEF to
<1> QED
  BY <1>7, <1>8

\* In every graph, a migration that commits takes each mention and relation of a moved memory
\* to the memory's channel under entities of the same names, and loses no other declaration
\* (follow_rechannelled, carry).
THEOREM DeclarationsGoAlong == AssocSpec => DeclarationsFollow
<1>1. AssocInit => SightOk(graph)
  BY DEF AssocInit, SightOk
<1>2. AssocInv /\ SightOk(graph) /\ [AssocNext]_assocVars => [Migrated => MentionsFollow /\ RelationsFollow]_assocVars
  BY MigrationFollows
<1> QED
  BY <1>1, <1>2, AssocStarts, AssocSteps, SightSteps, PTL DEF AssocSpec, DeclarationsFollow

----------------------------------------------------------------------------
(* The block index: the inductive invariant                                *)

BlockRow == [p : BParents, b : 1..MaxBlocks, chan : BChans, v : BVersions]

\* Rows as the table has them: a record has one row in a place.
TableRows(S) ==
    /\ S \subseteq BlockRow /\ IsFiniteSet(S)
    /\ \A q, r \in S : q.p = r.p /\ q.b = r.b => q = r

\* The database, its log numbered no further than its head.
DbOK(db) ==
    /\ db \in [rows : SUBSET BlockRow, logging : BOOLEAN, generation : Nat, head : Nat, pruned : Nat,
               changes : SUBSET [seq : Nat, p : BParents], triggers : BOOLEAN, cookie : Nat]
    /\ TableRows(db.rows)
    /\ \A c \in db.changes : c.seq <= db.head

\* A file has some rows in key order.
BlockFile == [rows : Seq(BlockRow), generation : Nat, built : Nat, cookie : Nat]
FileOK(f) ==
    /\ f \in BlockFile
    /\ f.rows # <<>> /\ TableRows(ToSet(f.rows)) /\ f.rows = KeySorted(ToSet(f.rows))

\* The log tells what has changed since the file was built, and of every other record
\* the file has the rows.
Vouched(f, db) ==
    /\ db.logging /\ db.generation = f.generation /\ db.cookie = f.cookie
    /\ db.pruned <= f.built /\ f.built <= db.head
FileHas(f, p)    == {r \in ToSet(f.rows) : r.p = p}
ExactFile(f, db) == \A p \in BParents \ ChangedAfter(db, f.built) : HeldBy(db, p) = FileHas(f, p)

\* A built file, from the snapshot it was read in on. What it recorded lies behind the
\* database, which can only move away from it, and while the schema is its own the
\* triggers have never been missing.
HeldFor(f, db) ==
    /\ f.generation <= db.generation /\ f.built <= db.head /\ f.cookie <= db.cookie
    /\ f.cookie = db.cookie => db.triggers
    /\ Vouched(f, db) => ExactFile(f, db)

\* A snapshot lies behind the database, and where nothing the log could tell is between
\* them they have the same rows.
Behind(snap, db) ==
    /\ snap.generation <= db.generation /\ snap.head <= db.head /\ snap.cookie <= db.cookie
    /\ /\ snap.logging /\ db.logging /\ db.triggers
       /\ snap.generation = db.generation /\ snap.head = db.head /\ snap.cookie = db.cookie
       => snap.rows = db.rows

Building     == [pc : {"replace", "prune"}, purges : Nat, file : BlockFile]
BlockBuild   == {IdleBuild} \cup [pc : {"read"}, purges : Nat] \cup Building
InUse(f)     == \/ f \in {bfile, heldFile} \ {NoFile}
                \/ \E w \in Builders : builds[w] \in Building /\ f = builds[w].file

BlockInv ==
    /\ builds \in [Builders -> BlockBuild] /\ purges \in Nat
    /\ DbOK(bdb)
    /\ heldSnap # NoFile => DbOK(heldSnap) /\ Behind(heldSnap, bdb)
    /\ heldFile = NoFile \/ heldSnap = NoFile
    /\ \A f : InUse(f) =>
          /\ FileOK(f) /\ HeldFor(f, bdb)
          /\ heldSnap # NoFile /\ Vouched(f, heldSnap) => ExactFile(f, heldSnap)

----------------------------------------------------------------------------
(* The block index: what a step of the database leaves true                *)

\* A later state of the database: the numbers only grow, and what the log does not name
\* while it stays on is as it was.
Follows(db, new) ==
    /\ DbOK(new)
    /\ db.generation <= new.generation /\ db.head <= new.head /\ db.cookie <= new.cookie
    /\ new.cookie = db.cookie => new.triggers = db.triggers
    /\ new.logging /\ new.generation = db.generation => db.logging
    /\ /\ new.logging /\ new.triggers
       /\ new.generation = db.generation /\ new.head = db.head /\ new.cookie = db.cookie
       => new.rows = db.rows
    /\ /\ new.logging /\ new.triggers /\ new.generation = db.generation /\ new.cookie = db.cookie
       => \A s \in Nat : s <= db.head /\ new.pruned <= s =>
              /\ db.pruned <= s
              /\ \A p \in BParents \ ChangedAfter(new, s) :
                    p \notin ChangedAfter(db, s) /\ HeldBy(new, p) = HeldBy(db, p)

\* The fields of a database.
LEMMA DbFields ==
    ASSUME NEW db, DbOK(db)
    PROVE  /\ db.generation \in Nat /\ db.head \in Nat /\ db.pruned \in Nat /\ db.cookie \in Nat
           /\ db.logging \in BOOLEAN /\ db.triggers \in BOOLEAN
           /\ db.rows \subseteq BlockRow /\ TableRows(db.rows)
           /\ db.changes \subseteq [seq : Nat, p : BParents]
           /\ \A c \in db.changes : c.seq \in Nat /\ c.p \in BParents /\ c.seq <= db.head
<1>1. db \in [rows : SUBSET BlockRow, logging : BOOLEAN, generation : Nat, head : Nat, pruned : Nat,
              changes : SUBSET [seq : Nat, p : BParents], triggers : BOOLEAN, cookie : Nat]
  BY DEF DbOK
<1>2. /\ db.generation \in Nat /\ db.head \in Nat /\ db.pruned \in Nat /\ db.cookie \in Nat
      /\ db.logging \in BOOLEAN /\ db.triggers \in BOOLEAN
      /\ db.rows \subseteq BlockRow /\ db.changes \subseteq [seq : Nat, p : BParents]
  BY <1>1
<1>3. \A c \in db.changes : c.seq \in Nat /\ c.p \in BParents
  BY <1>2
<1> QED
  BY <1>2, <1>3 DEF DbOK

\* The numbers of a file.
LEMMA FileFields ==
    ASSUME NEW f, FileOK(f)
    PROVE  f.generation \in Nat /\ f.built \in Nat /\ f.cookie \in Nat /\ f.rows \in Seq(BlockRow)
<1>1. f \in BlockFile
  BY DEF FileOK
<1> QED
  BY <1>1 DEF BlockFile

\* A file built for a database is one for a later state of it.
LEMMA FileStaysHeld ==
    ASSUME NEW db, NEW new, DbOK(db), Follows(db, new), NEW f, FileOK(f), HeldFor(f, db)
    PROVE  HeldFor(f, new)
<1>1. /\ db.generation \in Nat /\ db.head \in Nat /\ db.pruned \in Nat /\ db.cookie \in Nat
      /\ new.generation \in Nat /\ new.head \in Nat /\ new.pruned \in Nat /\ new.cookie \in Nat
      /\ f.generation \in Nat /\ f.built \in Nat /\ f.cookie \in Nat
  BY DbFields, FileFields DEF Follows
<1>2. /\ db.generation <= new.generation /\ db.head <= new.head /\ db.cookie <= new.cookie
      /\ new.cookie = db.cookie => new.triggers = db.triggers
      /\ f.generation <= db.generation /\ f.built <= db.head /\ f.cookie <= db.cookie
      /\ f.cookie = db.cookie => db.triggers
  BY DEF Follows, HeldFor
<1>3. f.generation <= new.generation /\ f.built <= new.head /\ f.cookie <= new.cookie
  BY <1>1, <1>2
<1>4. f.cookie = new.cookie => new.cookie = db.cookie /\ new.triggers
  BY <1>1, <1>2
<1>5. f.generation = new.generation => new.generation = db.generation
  BY <1>1, <1>2
<1>6. ASSUME Vouched(f, new)  PROVE ExactFile(f, new)
  <2>1. /\ new.logging /\ f.generation = new.generation /\ f.cookie = new.cookie /\ new.pruned <= f.built
    BY <1>6 DEF Vouched
  <2>2. new.triggers /\ new.generation = db.generation /\ new.cookie = db.cookie
    BY <2>1, <1>4, <1>5
  <2>3. db.logging
    BY <2>1, <2>2 DEF Follows
  <2>4. /\ db.pruned <= f.built
        /\ \A p \in BParents \ ChangedAfter(new, f.built) :
              p \notin ChangedAfter(db, f.built) /\ HeldBy(new, p) = HeldBy(db, p)
    BY <2>1, <2>2, <1>1, <1>2 DEF Follows
  <2>5. Vouched(f, db)
    BY <2>1, <2>2, <2>3, <2>4, <1>2 DEF Vouched
  <2>6. ExactFile(f, db)
    BY <2>5 DEF HeldFor
  <2> QED
    BY <2>4, <2>6 DEF ExactFile
<1> QED
  BY <1>3, <1>4, <1>6 DEF HeldFor

\* A snapshot behind a database is behind a later state of it.
LEMMA SnapshotStaysBehind ==
    ASSUME NEW db, NEW new, DbOK(db), Follows(db, new), NEW snap, DbOK(snap), Behind(snap, db)
    PROVE  Behind(snap, new)
<1>1. /\ db.generation \in Nat /\ db.head \in Nat /\ db.cookie \in Nat
      /\ new.generation \in Nat /\ new.head \in Nat /\ new.cookie \in Nat
      /\ snap.generation \in Nat /\ snap.head \in Nat /\ snap.cookie \in Nat
  BY DbFields DEF Follows
<1>2. /\ db.generation <= new.generation /\ db.head <= new.head /\ db.cookie <= new.cookie
      /\ snap.generation <= db.generation /\ snap.head <= db.head /\ snap.cookie <= db.cookie
  BY DEF Follows, Behind
<1>3. snap.generation <= new.generation /\ snap.head <= new.head /\ snap.cookie <= new.cookie
  BY <1>1, <1>2
<1>4. ASSUME snap.logging, new.logging, new.triggers,
             snap.generation = new.generation, snap.head = new.head, snap.cookie = new.cookie
      PROVE  snap.rows = new.rows
  <2>1. /\ db.generation = new.generation /\ db.head = new.head /\ db.cookie = new.cookie
        /\ snap.generation = db.generation /\ snap.head = db.head /\ snap.cookie = db.cookie
    BY <1>1, <1>2, <1>4
  <2>2. db.logging /\ db.triggers /\ new.rows = db.rows
    BY <2>1, <1>4 DEF Follows
  <2>3. snap.rows = db.rows
    BY <2>1, <2>2, <1>4 DEF Behind
  <2> QED
    BY <2>2, <2>3
<1> QED
  BY <1>3, <1>4 DEF Behind

\* A database that keeps its rows and its log.
LEMMA SameLog ==
    ASSUME NEW db, NEW new, new.rows = db.rows, new.changes = db.changes
    PROVE  \A s, p : ChangedAfter(new, s) = ChangedAfter(db, s) /\ HeldBy(new, p) = HeldBy(db, p)
BY DEF ChangedAfter, HeldBy

LEMMA StartedFollows == ASSUME NEW db, DbOK(db) PROVE Follows(db, Started(db))
<1> DEFINE new == Started(db)
<1>1. /\ db \in [rows : SUBSET BlockRow, logging : BOOLEAN, generation : Nat, head : Nat, pruned : Nat,
                 changes : SUBSET [seq : Nat, p : BParents], triggers : BOOLEAN, cookie : Nat]
      /\ db.generation \in Nat /\ db.head \in Nat /\ db.cookie \in Nat /\ db.generation + 1 \in Nat
  BY DbFields DEF DbOK
<1>2. /\ new.rows = db.rows /\ new.changes = db.changes /\ new.head = db.head /\ new.pruned = db.pruned
      /\ new.triggers = db.triggers /\ new.cookie = db.cookie /\ new.logging
      /\ new.generation = IF db.logging THEN db.generation ELSE db.generation + 1
  BY <1>1 DEF Started
<1>3. new \in [rows : SUBSET BlockRow, logging : BOOLEAN, generation : Nat, head : Nat, pruned : Nat,
               changes : SUBSET [seq : Nat, p : BParents], triggers : BOOLEAN, cookie : Nat]
  BY <1>1 DEF Started
<1> HIDE DEF new
<1>4. DbOK(new)
  BY <1>2, <1>3 DEF DbOK
<1>5. \A s, p : ChangedAfter(new, s) = ChangedAfter(db, s) /\ HeldBy(new, p) = HeldBy(db, p)
  BY <1>2, SameLog
<1>6. db.generation <= new.generation /\ (new.generation = db.generation => db.logging)
  BY <1>1, <1>2
<1>7. db.head <= new.head /\ db.cookie <= new.cookie
  BY <1>1, <1>2
<1>8. \A s \in Nat : new.pruned <= s => db.pruned <= s
  BY <1>2
<1>9. \A s \in Nat : s <= db.head /\ new.pruned <= s =>
              /\ db.pruned <= s
              /\ \A p \in BParents \ ChangedAfter(new, s) :
                    p \notin ChangedAfter(db, s) /\ HeldBy(new, p) = HeldBy(db, p)
  BY <1>5, <1>8
<1>10. Follows(db, new)
  BY <1>2, <1>4, <1>6, <1>7, <1>9 DEF Follows
<1> QED
  BY <1>10 DEF new

LEMMA StoppedFollows == ASSUME NEW db, DbOK(db) PROVE Follows(db, Stopped(db)) /\ Follows(db, db)
<1>1. /\ db \in [rows : SUBSET BlockRow, logging : BOOLEAN, generation : Nat, head : Nat, pruned : Nat,
                 changes : SUBSET [seq : Nat, p : BParents], triggers : BOOLEAN, cookie : Nat]
      /\ db.generation \in Nat /\ db.head \in Nat /\ db.cookie \in Nat
  BY DbFields DEF DbOK
<1>2. Follows(db, db)
  <2>1. db.generation <= db.generation /\ db.head <= db.head /\ db.cookie <= db.cookie
    BY <1>1
  <2> QED
    BY <2>1 DEF Follows
<1> DEFINE new == [db EXCEPT !.logging = FALSE, !.pruned = db.head, !.changes = {}]
<1>3. /\ new.rows = db.rows /\ new.changes = {} /\ new.head = db.head /\ new.generation = db.generation
      /\ new.triggers = db.triggers /\ new.cookie = db.cookie /\ ~new.logging
  BY <1>1
<1>4. new \in [rows : SUBSET BlockRow, logging : BOOLEAN, generation : Nat, head : Nat, pruned : Nat,
               changes : SUBSET [seq : Nat, p : BParents], triggers : BOOLEAN, cookie : Nat]
  BY <1>1
<1> HIDE DEF new
<1>5. DbOK(new)
  BY <1>3, <1>4 DEF DbOK
<1>6. db.generation <= new.generation /\ db.head <= new.head /\ db.cookie <= new.cookie
  BY <1>1, <1>3
<1>7. Follows(db, new)
  BY <1>3, <1>5, <1>6 DEF Follows
<1> QED
  BY <1>2, <1>7 DEF Stopped, new

LEMMA PrunedFollows ==
    ASSUME NEW db, DbOK(db), NEW g \in Nat, NEW seq \in Nat
    PROVE  Follows(db, Pruned(db, g, seq))
<1>1. /\ db \in [rows : SUBSET BlockRow, logging : BOOLEAN, generation : Nat, head : Nat, pruned : Nat,
                 changes : SUBSET [seq : Nat, p : BParents], triggers : BOOLEAN, cookie : Nat]
      /\ db.generation \in Nat /\ db.head \in Nat /\ db.cookie \in Nat /\ db.pruned \in Nat
      /\ db.changes \subseteq [seq : Nat, p : BParents]
      /\ \A c \in db.changes : c.seq \in Nat
  BY DbFields DEF DbOK
<1> DEFINE left == {c \in db.changes : c.seq > seq}
           mark == IF seq > db.pruned THEN seq ELSE db.pruned
           new == [db EXCEPT !.changes = left, !.pruned = mark]
<1>2. left \subseteq db.changes /\ left \in SUBSET [seq : Nat, p : BParents]
  BY <1>1
<1>3. mark \in Nat /\ db.pruned <= mark /\ seq <= mark
  BY <1>1
<1>4. \A c \in db.changes : c \notin left => c.seq <= seq
  BY <1>1
<1> HIDE DEF left, mark
<1>5. /\ new.rows = db.rows /\ new.changes = left /\ new.head = db.head /\ new.generation = db.generation
      /\ new.triggers = db.triggers /\ new.cookie = db.cookie /\ new.logging = db.logging /\ new.pruned = mark
  BY <1>1
<1>6. new \in [rows : SUBSET BlockRow, logging : BOOLEAN, generation : Nat, head : Nat, pruned : Nat,
               changes : SUBSET [seq : Nat, p : BParents], triggers : BOOLEAN, cookie : Nat]
  BY <1>1, <1>2, <1>3
<1>7. Pruned(db, g, seq) = db \/ Pruned(db, g, seq) = new
  BY DEF Pruned, left, mark
<1> HIDE DEF new
<1>8. DbOK(new)
  BY <1>2, <1>5, <1>6 DEF DbOK
<1>9. \A p : HeldBy(new, p) = HeldBy(db, p)
  BY <1>5 DEF HeldBy
<1>10. ASSUME NEW s \in Nat, new.pruned <= s
       PROVE  db.pruned <= s /\ ChangedAfter(new, s) = ChangedAfter(db, s)
  <2>1. db.pruned <= s /\ seq <= s
    BY <1>1, <1>3, <1>5, <1>10
  <2>2. \A c \in db.changes : c.seq > s => c \in left
    BY <2>1, <1>1, <1>4
  <2>3. {k \in new.changes : k.seq > s} = {k \in db.changes : k.seq > s}
    BY <2>2, <1>2, <1>5
  <2> QED
    BY <2>1, <2>3 DEF ChangedAfter
<1>11. db.generation <= new.generation /\ db.head <= new.head /\ db.cookie <= new.cookie
  BY <1>1, <1>5
<1>12. Follows(db, new)
  BY <1>5, <1>8, <1>9, <1>10, <1>11 DEF Follows
<1>13. Follows(db, db)
  BY StoppedFollows
<1> QED
  BY <1>7, <1>12, <1>13

\* The triggers dropped or put back: the schema's cookie moves.
LEMMA SchemaFollows ==
    ASSUME NEW db, DbOK(db), NEW on \in BOOLEAN
    PROVE  Follows(db, [db EXCEPT !.triggers = on, !.cookie = @ + 1])
<1>1. /\ db \in [rows : SUBSET BlockRow, logging : BOOLEAN, generation : Nat, head : Nat, pruned : Nat,
                 changes : SUBSET [seq : Nat, p : BParents], triggers : BOOLEAN, cookie : Nat]
      /\ db.generation \in Nat /\ db.head \in Nat /\ db.cookie \in Nat /\ db.cookie + 1 \in Nat
  BY DbFields DEF DbOK
<1> DEFINE new == [db EXCEPT !.triggers = on, !.cookie = @ + 1]
<1>2. /\ new.rows = db.rows /\ new.changes = db.changes /\ new.head = db.head
      /\ new.generation = db.generation /\ new.logging = db.logging /\ new.cookie = db.cookie + 1
  BY <1>1
<1>3. new \in [rows : SUBSET BlockRow, logging : BOOLEAN, generation : Nat, head : Nat, pruned : Nat,
               changes : SUBSET [seq : Nat, p : BParents], triggers : BOOLEAN, cookie : Nat]
  BY <1>1
<1> HIDE DEF new
<1>4. DbOK(new)
  BY <1>2, <1>3 DEF DbOK
<1>5. /\ db.generation <= new.generation /\ db.head <= new.head /\ db.cookie <= new.cookie
      /\ new.cookie # db.cookie
  BY <1>1, <1>2
<1>6. Follows(db, new)
  BY <1>2, <1>4, <1>5 DEF Follows
<1> QED
  BY <1>6 DEF new

----------------------------------------------------------------------------
(* The block index: a record's blocks are written                          *)

\* A function's values are finitely many when its arguments are.
LEMMA FiniteValues ==
    ASSUME NEW S, IsFiniteSet(S), NEW T, NEW f \in [S -> T], \A y \in T : \E x \in S : f[x] = y
    PROVE  IsFiniteSet(T)
<1>1. f \in Surjection(S, T)
  BY Fun_IsSurj
<1> QED
  BY <1>1, FS_Surjection

\* The rows of a record, from its first place to its last.
LEMMA RowsOfFacts ==
    ASSUME NEW p \in BParents, NEW n \in BlockCounts, NEW c \in BChans, NEW v \in BVersions
    PROVE  TableRows(RowsOf(p, n, c, v)) /\ n \in Nat /\ \A r \in RowsOf(p, n, c, v) : r.p = p
<1> DEFINE row(k) == [p |-> p, b |-> k, chan |-> c, v |-> v]
           S == RowsOf(p, n, c, v)
           f == [k \in 1..n |-> row(k)]
<1>1. n \in Nat /\ MaxBlocks \in Nat /\ n <= MaxBlocks
  BY BlockConstants
<1>2. S = {row(k) : k \in 1..n}
  BY DEF RowsOf
<1>3. IsFiniteSet(1..n)
  BY <1>1, FS_Interval
<1>4. f \in [1..n -> S] /\ \A y \in S : \E x \in 1..n : f[x] = y
  BY <1>2
<1>5. IsFiniteSet(S)
  <2> HIDE DEF f, S
  <2> QED
    BY <1>3, <1>4, FiniteValues
<1>6. \A k \in 1..n : row(k) \in BlockRow
  BY <1>1 DEF BlockRow
<1>7. \A r \in S : r \in BlockRow /\ r.p = p /\ r = row(r.b)
  BY <1>2, <1>6
<1>8. \A q, r \in S : q.b = r.b => q = r
  BY <1>7
<1> QED
  BY <1>1, <1>5, <1>7, <1>8 DEF TableRows

\* Some rows of a table, or a record's rows replaced.
LEMMA PartOfRows == ASSUME NEW S, TableRows(S), NEW T, T \subseteq S PROVE TableRows(T)
<1>1. IsFiniteSet(T)
  BY FS_Subset DEF TableRows
<1> QED
  BY <1>1 DEF TableRows

LEMMA ReplacedRows ==
    ASSUME NEW S, TableRows(S), NEW p, NEW N, TableRows(N), \A r \in N : r.p = p
    PROVE  TableRows((S \ {r \in S : r.p = p}) \cup N)
<1> DEFINE K == S \ {r \in S : r.p = p}
<1>1. TableRows(K) /\ \A r \in K : r.p # p
  <2>1. K \subseteq S /\ \A r \in K : r.p # p
    OBVIOUS
  <2> HIDE DEF K
  <2> QED
    BY <2>1, PartOfRows
<1> HIDE DEF K
<1>2. IsFiniteSet(K \cup N)
  BY <1>1, FS_Union DEF TableRows
<1>3. K \cup N \subseteq BlockRow
  BY <1>1 DEF TableRows
<1>4. \A q, r \in K \cup N : q.p = r.p /\ q.b = r.b => q = r
  BY <1>1 DEF TableRows
<1> QED
  BY <1>2, <1>3, <1>4 DEF TableRows, K

LEMMA WrittenFollows ==
    ASSUME NEW db, DbOK(db), NEW p \in BParents, NEW N, TableRows(N), \A r \in N : r.p = p, NEW m \in Nat,
           HeldBy(db, p) # N => m # 0
    PROVE  Follows(db, Logged([db EXCEPT !.rows = (@ \ HeldBy(db, p)) \cup N], p, m))
<1>1. /\ db \in [rows : SUBSET BlockRow, logging : BOOLEAN, generation : Nat, head : Nat, pruned : Nat,
                 changes : SUBSET [seq : Nat, p : BParents], triggers : BOOLEAN, cookie : Nat]
      /\ db.generation \in Nat /\ db.head \in Nat /\ db.cookie \in Nat /\ db.pruned \in Nat
      /\ db.changes \in SUBSET [seq : Nat, p : BParents] /\ TableRows(db.rows)
      /\ \A c \in db.changes : c.seq \in Nat /\ c.seq <= db.head
      /\ db.logging \in BOOLEAN /\ db.triggers \in BOOLEAN
  BY DbFields DEF DbOK
<1> DEFINE rows == (db.rows \ HeldBy(db, p)) \cup N
           mid == [db EXCEPT !.rows = rows]
           more == {[seq |-> db.head + k, p |-> p] : k \in 1..m}
           new == IF db.logging /\ db.triggers THEN [mid EXCEPT !.head = @ + m, !.changes = @ \cup more] ELSE mid
<1>2. TableRows(rows) /\ rows \in SUBSET BlockRow
  <2>1. HeldBy(db, p) = {r \in db.rows : r.p = p}
    BY DEF HeldBy
  <2>2. TableRows(rows)
    BY <1>1, <2>1, ReplacedRows
  <2> QED
    BY <2>2 DEF TableRows
<1>3. more \in SUBSET [seq : Nat, p : BParents] /\ \A c \in more : c.p = p /\ c.seq \in Nat /\ c.seq > db.head /\ c.seq <= db.head + m
  BY <1>1
<1>4. m # 0 => \E c \in more : c.p = p /\ c.seq > db.head
  <2> SUFFICES ASSUME m # 0  PROVE \E c \in more : c.p = p /\ c.seq > db.head
    OBVIOUS
  <2>1. 1 \in 1..m
    OBVIOUS
  <2>2. [seq |-> db.head + 1, p |-> p] \in more
    BY <2>1
  <2>3. db.head + 1 > db.head
    BY <1>1
  <2> QED
    BY <2>2, <2>3
<1>5. \A q : q # p => {r \in rows : r.p = q} = {r \in db.rows : r.p = q}
  BY DEF HeldBy
<1>6. HeldBy(db, p) = N => rows = db.rows
  BY DEF HeldBy
<1> HIDE DEF more, rows
<1>7. /\ mid.rows = rows /\ mid.changes = db.changes /\ mid.head = db.head /\ mid.generation = db.generation
      /\ mid.triggers = db.triggers /\ mid.cookie = db.cookie /\ mid.logging = db.logging /\ mid.pruned = db.pruned
      /\ mid \in [rows : SUBSET BlockRow, logging : BOOLEAN, generation : Nat, head : Nat, pruned : Nat,
                  changes : SUBSET [seq : Nat, p : BParents], triggers : BOOLEAN, cookie : Nat]
  BY <1>1, <1>2
<1>8. Logged(mid, p, m) = new
  BY <1>7 DEF Logged, more
<1> HIDE DEF mid
<1>9. db.head + m \in Nat /\ db.changes \cup more \in SUBSET [seq : Nat, p : BParents]
  BY <1>1, <1>3
<1>10. /\ new.rows = rows /\ new.generation = db.generation /\ new.triggers = db.triggers
       /\ new.cookie = db.cookie /\ new.logging = db.logging /\ new.pruned = db.pruned
       /\ new.head = IF db.logging /\ db.triggers THEN db.head + m ELSE db.head
       /\ new.changes = IF db.logging /\ db.triggers THEN db.changes \cup more ELSE db.changes
  BY <1>7
<1>11. new \in [rows : SUBSET BlockRow, logging : BOOLEAN, generation : Nat, head : Nat, pruned : Nat,
                changes : SUBSET [seq : Nat, p : BParents], triggers : BOOLEAN, cookie : Nat]
  <2>1. CASE db.logging /\ db.triggers
    <3>1. new = [mid EXCEPT !.head = db.head + m, !.changes = db.changes \cup more]
      BY <2>1, <1>7
    <3> HIDE DEF new
    <3> QED
      BY <3>1, <1>7, <1>9
  <2>2. CASE ~(db.logging /\ db.triggers)
    BY <2>2, <1>7
  <2> QED
    BY <2>1, <2>2
<1> HIDE DEF new
<1>12. DbOK(new)
  <2>1. \A c \in new.changes : c.seq <= new.head
    <3> TAKE c \in new.changes
    <3>1. CASE c \in db.changes
      <4>1. c.seq \in Nat /\ c.seq <= db.head
        BY <3>1, <1>1
      <4> QED
        BY <4>1, <1>1, <1>10
    <3>2. CASE c \notin db.changes
      BY <3>2, <1>3, <1>10
    <3> QED
      BY <3>1, <3>2
  <2> QED
    BY <2>1, <1>2, <1>10, <1>11 DEF DbOK
<1>13. db.generation <= new.generation /\ db.head <= new.head /\ db.cookie <= new.cookie
  BY <1>1, <1>10
<1>14. ASSUME new.logging, new.triggers, new.head = db.head  PROVE new.rows = db.rows
  <2>1. db.head + m = db.head
    BY <1>10, <1>14
  <2>2. m = 0
    BY <2>1, <1>1
  <2> QED
    BY <2>2, <1>6, <1>10
<1>15. ASSUME new.logging, new.triggers, NEW s \in Nat, s <= db.head, new.pruned <= s
       PROVE  /\ db.pruned <= s
              /\ \A q \in BParents \ ChangedAfter(new, s) :
                    q \notin ChangedAfter(db, s) /\ HeldBy(new, q) = HeldBy(db, q)
  <2>1. new.changes = db.changes \cup more /\ db.pruned <= s
    BY <1>10, <1>15
  <2>2. ASSUME NEW q \in BParents \ ChangedAfter(new, s)
        PROVE  q \notin ChangedAfter(db, s) /\ HeldBy(new, q) = HeldBy(db, q)
    <3>1. q \notin ChangedAfter(db, s)
      BY <2>1, <2>2 DEF ChangedAfter
    <3>2. CASE q # p
      BY <3>1, <3>2, <1>5, <1>10 DEF HeldBy
    <3>3. CASE q = p
      <4>1. \A c \in more : c.seq > s
        BY <1>1, <1>3, <1>15
      <4>2. more # {} => p \in ChangedAfter(new, s)
        BY <2>1, <4>1, <1>3 DEF ChangedAfter
      <4>3. m = 0
        BY <4>2, <3>3, <2>2, <1>4
      <4> QED
        BY <4>3, <3>1, <1>6, <1>10 DEF HeldBy
    <3> QED
      BY <3>2, <3>3
  <2> QED
    BY <2>1, <2>2
<1>16. Follows(db, new)
  BY <1>10, <1>12, <1>13, <1>14, <1>15 DEF Follows
<1> QED
  BY <1>8, <1>16 DEF mid, rows

----------------------------------------------------------------------------
(* The block index: rows in key order                                      *)

\* The key puts the record over the place.
LEMMA KeyOrder ==
    /\ \A r \in BlockRow : KeyOf(r) \in Nat /\ KeyOf(r) > 0 /\ r.p \in Nat /\ r.b \in Nat
    /\ \A q, r \in BlockRow : KeyOf(q) < KeyOf(r) <=> (q.p < r.p \/ (q.p = r.p /\ q.b < r.b))
<1> DEFINE m == MaxBlocks + 1
<1>1. m \in Nat /\ m = MaxBlocks + 1 /\ MaxBlocks \in Nat
  BY BlockConstants
<1> HIDE DEF m
<1>2. ASSUME NEW x \in Nat, NEW y \in Nat, x < y  PROVE x * m + m <= y * m
  <2>1. y - x - 1 \in Nat
    BY <1>2
  <2>2. \A k \in Nat : k * m >= 0
    BY <1>1
  <2>3. (y - x - 1) * m >= 0
    BY <2>1, <2>2
  <2>4. (y - x - 1) * m = y * m - x * m - m
    BY <1>1
  <2>5. x * m \in Int /\ y * m \in Int
    BY <1>1
  <2> QED
    BY <1>1, <2>3, <2>4, <2>5
<1>3. \A x \in Nat : x * m \in Nat
  BY <1>1
<1>4. ASSUME NEW r \in BlockRow
      PROVE  r.p \in Nat /\ r.b \in Nat /\ 1 <= r.b /\ r.b < m /\ KeyOf(r) = r.p * m + r.b
  <2>1. r.p \in Nat /\ r.b \in 1..MaxBlocks
    BY BlockConstants DEF BlockRow
  <2> QED
    BY <1>1, <2>1 DEF KeyOf
<1>5. ASSUME NEW r \in BlockRow  PROVE KeyOf(r) \in Nat /\ KeyOf(r) > 0
  <2>1. r.p * m \in Nat
    BY <1>3, <1>4
  <2> QED
    BY <1>4, <2>1
<1>6. ASSUME NEW q \in BlockRow, NEW r \in BlockRow
      PROVE  KeyOf(q) < KeyOf(r) <=> (q.p < r.p \/ (q.p = r.p /\ q.b < r.b))
  <2>1. /\ KeyOf(q) = q.p * m + q.b /\ KeyOf(r) = r.p * m + r.b
        /\ q.p \in Nat /\ r.p \in Nat /\ q.b \in Nat /\ r.b \in Nat
        /\ 1 <= q.b /\ q.b < m /\ 1 <= r.b /\ r.b < m
        /\ q.p * m \in Nat /\ r.p * m \in Nat
    BY <1>3, <1>4
  <2>2. CASE q.p < r.p
    <3>1. q.p * m + m <= r.p * m
      BY <1>2, <2>1, <2>2
    <3> QED
      BY <2>1, <2>2, <3>1, <1>1
  <2>3. CASE r.p < q.p
    <3>1. r.p * m + m <= q.p * m
      BY <1>2, <2>1, <2>3
    <3>2. ~(KeyOf(q) < KeyOf(r))
      BY <2>1, <3>1, <1>1
    <3>3. ~(q.p < r.p) /\ q.p # r.p
      BY <2>1, <2>3
    <3> QED
      BY <3>2, <3>3
  <2>4. CASE q.p = r.p
    <3>1. q.p * m = r.p * m
      BY <2>4
    <3> QED
      BY <2>1, <2>4, <3>1
  <2> QED
    BY <2>1, <2>2, <2>3, <2>4
<1> QED
  BY <1>4, <1>5, <1>6

\* One row before another.
KeysBefore == {x \in BlockRow \X BlockRow : KeyOf(x[1]) < KeyOf(x[2])}

LEMMA RowsOrdered == ASSUME NEW S, TableRows(S) PROVE IsStrictOrder(S, KeysBefore)
<1>1. \A x \in S : x \in BlockRow /\ KeyOf(x) \in Nat
  BY KeyOrder DEF TableRows
<1>2. \A x, y \in S : <<x, y>> \in KeysBefore <=> KeyOf(x) < KeyOf(y)
  BY <1>1 DEF KeysBefore
<1>3. \A x \in S : <<x, x>> \notin KeysBefore
  BY <1>1, <1>2
<1>4. ASSUME NEW x \in S, NEW y \in S, NEW z \in S, <<x, y>> \in KeysBefore, <<y, z>> \in KeysBefore
      PROVE  <<x, z>> \in KeysBefore
  <2>1. KeyOf(x) < KeyOf(y) /\ KeyOf(y) < KeyOf(z)
    BY <1>2, <1>4
  <2>2. KeyOf(x) < KeyOf(z)
    BY <1>1, <2>1
  <2> QED
    BY <1>2, <2>2
<1>5. ASSUME NEW x \in S, NEW y \in S  PROVE x = y \/ <<x, y>> \in KeysBefore \/ <<y, x>> \in KeysBefore
  <2>1. x.p \in Nat /\ y.p \in Nat /\ x.b \in Nat /\ y.b \in Nat
    BY <1>1, KeyOrder
  <2>2. (x.p = y.p /\ x.b = y.b) \/ x.p < y.p \/ (x.p = y.p /\ x.b < y.b) \/ y.p < x.p \/ (y.p = x.p /\ y.b < x.b)
    BY <2>1
  <2>3. x.p = y.p /\ x.b = y.b => x = y
    BY DEF TableRows
  <2>4. x = y \/ KeyOf(x) < KeyOf(y) \/ KeyOf(y) < KeyOf(x)
    BY <1>1, <2>2, <2>3, KeyOrder
  <2> QED
    BY <1>2, <2>4
<1> QED
  BY <1>3, <1>4, <1>5 DEF IsStrictOrder

\* Sorting lists the rows, each once, by their keys.
LEMMA SortedFacts ==
    ASSUME NEW S, TableRows(S)
    PROVE  /\ Cardinality(S) \in Nat /\ KeySorted(S) = InOrder(S, KeysBefore)
           /\ KeySorted(S) \in Seq(BlockRow) /\ Len(KeySorted(S)) = Cardinality(S)
           /\ DOMAIN KeySorted(S) = 1..Cardinality(S)
           /\ \A k \in 1..Cardinality(S) : /\ KeySorted(S)[k] \in S
                                           /\ PlaceOf(S, KeysBefore, KeySorted(S)[k]) = k - 1
           /\ \A x \in S : \E k \in 1..Cardinality(S) : KeySorted(S)[k] = x
           /\ ToSet(KeySorted(S)) = S
           /\ \A j, k \in 1..Cardinality(S) : KeyOf(KeySorted(S)[j]) < KeyOf(KeySorted(S)[k]) <=> j < k
<1> DEFINE R == KeysBefore
           list == KeySorted(S)
           N == Cardinality(S)
<1>1. IsFiniteSet(S) /\ S \subseteq BlockRow
  BY DEF TableRows
<1>2. IsStrictOrder(S, R)
  BY RowsOrdered
<1>3. \A x, y \in S : <<x, y>> \in R <=> KeyOf(x) < KeyOf(y)
  BY <1>1 DEF KeysBefore
<1> HIDE DEF R
<1>4. list = InOrder(S, R)
  <2> DEFINE early(x) == Cardinality({y \in S : KeyOf(y) < KeyOf(x)})
  <2>1. \A x \in S : early(x) = PlaceOf(S, R, x)
    <3> TAKE x \in S
    <3>1. {y \in S : KeyOf(y) < KeyOf(x)} = Ahead(S, R, x)
      BY <1>3 DEF Ahead
    <3> QED
      BY <3>1 DEF PlaceOf
  <2>2. list = [k \in 1..N |-> CHOOSE x \in S : early(x) = k - 1]
    BY DEF KeySorted
  <2>3. ASSUME NEW k
        PROVE  (CHOOSE x \in S : early(x) = k - 1) = CHOOSE x \in S : PlaceOf(S, R, x) = k - 1
    <3> HIDE DEF early
    <3> QED
      BY <2>1
  <2> QED
    BY <2>2, <2>3 DEF InOrder
<1> HIDE DEF list
<1>5. /\ N \in Nat /\ list \in [1..N -> S]
      /\ \A k \in 1..N : PlaceOf(S, R, list[k]) = k - 1
      /\ \A x \in S : \E k \in 1..N : list[k] = x
  BY <1>1, <1>2, <1>4, InOrderFacts
<1> HIDE DEF N
<1>6. list \in [1..N -> BlockRow]
  BY <1>1, <1>5
<1>7. list \in Seq(BlockRow) /\ Len(list) = N /\ DOMAIN list = 1..N
  BY <1>5, <1>6, AsList
<1>8. \A k \in 1..N : list[k] \in S
  BY <1>5
<1>9. ToSet(list) = S
  BY <1>5, <1>7, <1>8 DEF ToSet
<1>10. ASSUME NEW j \in 1..N, NEW k \in 1..N
       PROVE  KeyOf(list[j]) < KeyOf(list[k]) <=> j < k
  <2>1. <<list[j], list[k]>> \in R <=> PlaceOf(S, R, list[j]) < PlaceOf(S, R, list[k])
    BY <1>1, <1>2, <1>8, PlacesCountUp
  <2>2. PlaceOf(S, R, list[j]) = j - 1 /\ PlaceOf(S, R, list[k]) = k - 1
    BY <1>5
  <2>3. j \in Int /\ k \in Int
    BY <1>5
  <2>4. j - 1 < k - 1 <=> j < k
    BY <2>3
  <2> QED
    BY <1>3, <1>8, <2>1, <2>2, <2>4
<1> QED
  BY <1>4, <1>5, <1>7, <1>8, <1>9, <1>10 DEF list, N, R

\* Rows that come after all of the others are listed after them.
LEMMA SortedParts ==
    ASSUME NEW A, NEW B, TableRows(A \cup B), \A q \in A, r \in B : KeyOf(q) < KeyOf(r)
    PROVE  KeySorted(A \cup B) = KeySorted(A) \o KeySorted(B)
<1> DEFINE R == KeysBefore
           a == KeySorted(A)
           b == KeySorted(B)
           M == Cardinality(A)
           N == Cardinality(B)
           C == A \cup B
           whole == KeySorted(C)
<1>1. TableRows(A) /\ TableRows(B)
  BY PartOfRows
<1>2. IsFiniteSet(A) /\ IsFiniteSet(B) /\ IsFiniteSet(C) /\ A \subseteq BlockRow /\ B \subseteq BlockRow
  BY <1>1 DEF TableRows
<1>3. \A q \in A, r \in B : <<q, r>> \in R /\ <<r, q>> \notin R /\ q # r
  <2> TAKE q \in A, r \in B
  <2>1. KeyOf(q) < KeyOf(r) /\ KeyOf(q) \in Nat /\ KeyOf(r) \in Nat
    BY <1>2, KeyOrder
  <2>2. ~(KeyOf(r) < KeyOf(q)) /\ q # r
    BY <2>1
  <2> QED
    BY <1>2, <2>1, <2>2 DEF KeysBefore
<1>4. A \cap B = {}
  BY <1>3
<1>5. M \in Nat /\ N \in Nat /\ Cardinality(C) = M + N
  <2>1. M \in Nat /\ N \in Nat
    BY <1>2, FS_CardinalityType
  <2>2. Cardinality(C) = M + N - Cardinality(A \cap B)
    BY <1>2, FS_Union
  <2>3. Cardinality(A \cap B) = 0
    BY <1>4, FS_EmptySet
  <2> HIDE DEF M, N
  <2> QED
    BY <2>1, <2>2, <2>3
<1>6. /\ a \in Seq(BlockRow) /\ Len(a) = M
      /\ \A k \in 1..M : a[k] \in A /\ PlaceOf(A, R, a[k]) = k - 1
  BY <1>1, SortedFacts
<1>7. /\ b \in Seq(BlockRow) /\ Len(b) = N
      /\ \A k \in 1..N : b[k] \in B /\ PlaceOf(B, R, b[k]) = k - 1
  BY <1>1, SortedFacts
<1>8. /\ whole \in Seq(BlockRow) /\ Len(whole) = M + N
      /\ \A x \in C : \E k \in 1..M + N : whole[k] = x
      /\ \A k \in 1..M + N : PlaceOf(C, R, whole[k]) = k - 1
  BY <1>5, SortedFacts
<1>9. \A x : PlaceOf(C, R, x) = PlaceOf(A, R, x) + PlaceOf(B, R, x)
  BY <1>2, <1>4, PlaceInParts
<1> HIDE DEF a, b, M, N, whole, R
<1>10. ASSUME NEW k \in 1..M + N, NEW x \in C, PlaceOf(C, R, x) = k - 1  PROVE whole[k] = x
  <2>1. PICK j \in 1..M + N : whole[j] = x
    BY <1>8
  <2>2. PlaceOf(C, R, whole[j]) = j - 1
    BY <1>8
  <2>3. j = k
    <3>1. j - 1 = k - 1
      BY <1>10, <2>1, <2>2
    <3> QED
      BY <1>5, <3>1
  <2> QED
    BY <2>1, <2>3
<1>11. ASSUME NEW k \in 1..M  PROVE whole[k] = a[k]
  <2>1. a[k] \in A /\ a[k] \in C /\ PlaceOf(A, R, a[k]) = k - 1
    BY <1>6
  <2>2. Ahead(B, R, a[k]) = {}
    BY <1>3, <2>1 DEF Ahead
  <2>3. PlaceOf(B, R, a[k]) = 0
    BY <2>2, FS_EmptySet DEF PlaceOf
  <2>4. k \in 1..M + N /\ k \in Int
    BY <1>5
  <2>5. PlaceOf(C, R, a[k]) = k - 1
    BY <1>9, <2>1, <2>3, <2>4
  <2> QED
    BY <1>10, <2>1, <2>4, <2>5
<1>12. ASSUME NEW k \in M + 1..M + N  PROVE whole[k] = b[k - M]
  <2>1. k - M \in 1..N /\ k \in 1..M + N /\ k \in Int
    BY <1>5
  <2>2. b[k - M] \in B /\ b[k - M] \in C /\ PlaceOf(B, R, b[k - M]) = k - M - 1
    BY <1>7, <2>1
  <2>3. Ahead(A, R, b[k - M]) = A
    BY <1>3, <2>2 DEF Ahead
  <2>4. PlaceOf(A, R, b[k - M]) = M
    BY <2>3 DEF PlaceOf, M
  <2>5. PlaceOf(C, R, b[k - M]) = M + (k - M - 1)
    BY <1>9, <2>2, <2>4
  <2>6. M + (k - M - 1) = k - 1
    BY <1>5, <2>1
  <2> QED
    BY <1>10, <2>1, <2>2, <2>5, <2>6
<1>13. /\ a \o b \in Seq(BlockRow) /\ Len(a \o b) = M + N
       /\ \A i \in 1..M + N : (a \o b)[i] = IF i <= M THEN a[i] ELSE b[i - M]
  BY <1>6, <1>7, ConcatProperties
<1>14. ASSUME NEW i \in 1..M + N  PROVE whole[i] = (a \o b)[i]
  <2>1. CASE i <= M
    <3>1. i \in 1..M
      BY <1>5, <2>1
    <3> QED
      BY <1>11, <1>13, <2>1, <3>1
  <2>2. CASE ~(i <= M)
    <3>1. i \in M + 1..M + N
      BY <1>5, <2>2
    <3> QED
      BY <1>12, <1>13, <2>2, <3>1
  <2> QED
    BY <2>1, <2>2
<1>15. whole = a \o b
  BY <1>8, <1>13, <1>14, SeqEqual
<1> QED
  BY <1>15 DEF whole, a, b

----------------------------------------------------------------------------
(* The block index: the invariant is kept                                  *)

\* What a build is doing tells what it holds.
LEMMA BuildShape ==
    ASSUME NEW u \in BlockBuild
    PROVE  /\ u.pc = "read" => u \in [pc : {"read"}, purges : Nat]
           /\ u.pc \in {"replace", "prune"} => u \in Building
           /\ u \in Building => u.file \in BlockFile /\ u.purges \in Nat /\ u.pc \in {"replace", "prune"}
<1>1. CASE u = IdleBuild
  <2>1. u.pc = "idle"
    BY <1>1 DEF IdleBuild
  <2>2. u \notin Building
    <3>1. u \in Building => u.pc \in {"replace", "prune"}
      BY DEF Building
    <3> QED
      BY <2>1, <3>1
  <2> QED
    BY <2>1, <2>2
<1>2. CASE u \in [pc : {"read"}, purges : Nat]
  <2>1. u.pc = "read"
    BY <1>2
  <2>2. u \notin Building
    <3>1. u \in Building => u.pc \in {"replace", "prune"}
      BY DEF Building
    <3> QED
      BY <2>1, <3>1
  <2> QED
    BY <1>2, <2>1, <2>2
<1>3. CASE u \in Building
  BY <1>3 DEF Building
<1> QED
  BY <1>1, <1>2, <1>3 DEF BlockBuild

\* Nothing a reader or a build gets hold of is new to the invariant, and the database
\* goes on.
LEMMA BlocksGoOn ==
    ASSUME BlockInv, Follows(bdb, bdb'), builds' \in [Builders -> BlockBuild], purges' \in Nat,
           heldSnap' = heldSnap \/ heldSnap' = NoFile, heldFile' = NoFile \/ heldSnap' = NoFile,
           \A f : InUse(f)' => InUse(f)
    PROVE  BlockInv'
<1>1. DbOK(bdb) /\ DbOK(bdb')
  BY DEF BlockInv, Follows
<1>2. heldSnap' # NoFile => DbOK(heldSnap') /\ Behind(heldSnap', bdb')
  BY <1>1, SnapshotStaysBehind DEF BlockInv
<1>3. ASSUME NEW f, InUse(f)'
      PROVE  /\ FileOK(f) /\ HeldFor(f, bdb')
             /\ heldSnap' # NoFile /\ Vouched(f, heldSnap') => ExactFile(f, heldSnap')
  <2>1. InUse(f)
    BY <1>3
  <2>2. /\ FileOK(f) /\ HeldFor(f, bdb)
        /\ heldSnap # NoFile /\ Vouched(f, heldSnap) => ExactFile(f, heldSnap)
    BY <2>1 DEF BlockInv
  <2>3. HeldFor(f, bdb')
    BY <1>1, <2>2, FileStaysHeld
  <2> QED
    BY <2>2, <2>3
<1> QED
  BY <1>1, <1>2, <1>3 DEF BlockInv

\* A build that ends or moves on without a new file brings none into use.
LEMMA BuildMoves ==
    ASSUME BlockInv, NEW w \in Builders, NEW u \in BlockBuild, builds' = [builds EXCEPT ![w] = u],
           u \in Building => builds[w] \in Building /\ u.file = builds[w].file,
           bfile' = bfile \/ InUse(bfile'), heldFile' = heldFile
    PROVE  /\ builds' \in [Builders -> BlockBuild]
           /\ \A f : InUse(f)' => InUse(f)
<1>1. builds \in [Builders -> BlockBuild]
  BY DEF BlockInv
<1>2. builds' \in [Builders -> BlockBuild] /\ \A v \in Builders : builds'[v] = IF v = w THEN u ELSE builds[v]
  BY <1>1
<1>3. ASSUME NEW f, NEW v \in Builders, builds'[v] \in Building, f = builds'[v].file
      PROVE  InUse(f)
  <2>1. CASE v = w
    <3>1. builds[w] \in Building /\ f = builds[w].file
      BY <1>2, <1>3, <2>1
    <3> QED
      BY <3>1 DEF InUse
  <2>2. CASE v # w
    <3>1. builds[v] \in Building /\ f = builds[v].file
      BY <1>2, <1>3, <2>2
    <3> QED
      BY <3>1 DEF InUse
  <2> QED
    BY <2>1, <2>2
<1>4. ASSUME NEW f, InUse(f)'  PROVE InUse(f)
  <2>1. CASE f \in {bfile', heldFile'} \ {NoFile}
    <3>1. InUse(f) \/ f \in {bfile, heldFile} \ {NoFile}
      BY <2>1
    <3> QED
      BY <3>1 DEF InUse
  <2>2. CASE \E v \in Builders : builds'[v] \in Building /\ f = builds'[v].file
    BY <1>3, <2>2
  <2> QED
    BY <1>4, <2>1, <2>2 DEF InUse
<1> QED
  BY <1>2, <1>4

LEMMA IdleIsABuild == IdleBuild \in BlockBuild /\ IdleBuild \notin Building
<1>1. IdleBuild.pc = "idle"
  BY DEF IdleBuild
<1>2. \A u \in Building : u.pc # "idle"
  BY DEF Building
<1> QED
  BY <1>1, <1>2 DEF BlockBuild

\* The first file of a build: all the rows, at the head of the log.
LEMMA FreshFile ==
    ASSUME NEW db, DbOK(db), db.logging, db.triggers, db.rows # {}, NEW f,
           f = [rows |-> KeySorted(db.rows), generation |-> db.generation, built |-> db.head, cookie |-> db.cookie]
    PROVE  /\ f \in BlockFile /\ FileOK(f) /\ HeldFor(f, db)
           /\ \A snap : DbOK(snap) /\ Behind(snap, db) /\ Vouched(f, snap) => ExactFile(f, snap)
<1>1. /\ db.generation \in Nat /\ db.head \in Nat /\ db.cookie \in Nat /\ TableRows(db.rows)
      /\ f.rows = KeySorted(db.rows) /\ f.generation = db.generation /\ f.built = db.head /\ f.cookie = db.cookie
  BY DbFields
<1>2. /\ f.rows \in Seq(BlockRow) /\ ToSet(f.rows) = db.rows
      /\ Len(f.rows) = Cardinality(db.rows) /\ DOMAIN f.rows = 1..Cardinality(db.rows)
      /\ \A x \in db.rows : \E k \in 1..Cardinality(db.rows) : f.rows[k] = x
  BY <1>1, SortedFacts
<1>3. f.rows # <<>>
  <2>1. DOMAIN f.rows # {}
    BY <1>2
  <2>2. <<>> \in Seq(BlockRow) /\ Len(<<>>) = 0
    BY EmptySeq
  <2>3. DOMAIN <<>> = 1..0
    BY <2>2, LenProperties
  <2> QED
    BY <2>1, <2>3
<1>4. f \in BlockFile
  <2>1. KeySorted(db.rows) \in Seq(BlockRow)
    BY <1>1, <1>2
  <2> QED
    BY <1>1, <2>1 DEF BlockFile
<1>5. FileOK(f)
  BY <1>1, <1>2, <1>3, <1>4 DEF FileOK
<1>6. \A p : FileHas(f, p) = HeldBy(db, p)
  BY <1>2 DEF FileHas, HeldBy
<1>7. HeldFor(f, db)
  <2>1. db.generation <= db.generation /\ db.head <= db.head /\ db.cookie <= db.cookie
    BY <1>1
  <2> QED
    BY <1>1, <1>6, <2>1 DEF HeldFor, ExactFile
<1>8. ASSUME NEW snap, DbOK(snap), Behind(snap, db), Vouched(f, snap)  PROVE ExactFile(f, snap)
  <2>1. /\ snap.logging /\ snap.generation = db.generation /\ snap.cookie = db.cookie /\ db.head <= snap.head
        /\ snap.head <= db.head
    BY <1>1, <1>8 DEF Vouched, Behind
  <2>2. snap.head = db.head
    <3>1. snap.head \in Nat
      BY <1>8, DbFields
    <3> QED
      BY <1>1, <2>1, <3>1
  <2>3. snap.rows = db.rows
    BY <1>8, <2>1, <2>2 DEF Behind
  <2>4. \A p : FileHas(f, p) = HeldBy(snap, p)
    BY <1>6, <2>3 DEF HeldBy
  <2> QED
    BY <2>4 DEF ExactFile
<1> QED
  BY <1>4, <1>5, <1>7, <1>8

LEMMA BlocksStart == BlockInit => BlockInv
<1> SUFFICES ASSUME BlockInit  PROVE BlockInv
  OBVIOUS
<1>1. /\ bdb = [rows |-> {}, logging |-> FALSE, generation |-> 0, head |-> 0, pruned |-> 0,
                changes |-> {}, triggers |-> TRUE, cookie |-> 0]
      /\ bfile = NoFile /\ heldFile = NoFile /\ heldSnap = NoFile
      /\ builds = [w \in Builders |-> IdleBuild] /\ purges = 0
  BY DEF BlockInit
<1>2. builds \in [Builders -> BlockBuild]
  BY <1>1, IdleIsABuild
<1>3. DbOK(bdb)
  <2>1. /\ {} \in SUBSET BlockRow /\ {} \in SUBSET [seq : Nat, p : BParents] /\ FALSE \in BOOLEAN
        /\ TRUE \in BOOLEAN /\ 0 \in Nat
    OBVIOUS
  <2>2. bdb \in [rows : SUBSET BlockRow, logging : BOOLEAN, generation : Nat, head : Nat, pruned : Nat,
                 changes : SUBSET [seq : Nat, p : BParents], triggers : BOOLEAN, cookie : Nat]
    BY <1>1, <2>1
  <2>3. TableRows({})
    BY FS_EmptySet DEF TableRows
  <2> QED
    BY <1>1, <2>2, <2>3 DEF DbOK
<1>4. \A f : ~InUse(f)
  BY <1>1, IdleIsABuild DEF InUse
<1> QED
  BY <1>1, <1>2, <1>3, <1>4 DEF BlockInv

LEMMA WriteKeeps ==
    ASSUME BlockInv, NEW p \in BParents, NEW n \in BlockCounts, NEW c \in BChans, NEW v \in BVersions,
           WriteBlocks(p, n, c, v)
    PROVE  BlockInv'
<1> DEFINE old == HeldBy(bdb, p)
           new == RowsOf(p, n, c, v)
<1>1. /\ old # new /\ UNCHANGED <<bfile, builds, queued, purges, heldFile, heldSnap>>
      /\ bdb' = Logged([bdb EXCEPT !.rows = (@ \ old) \cup new], p, Cardinality(old) + n)
  BY DEF WriteBlocks
<1>2. DbOK(bdb) /\ TableRows(bdb.rows)
  BY DbFields DEF BlockInv
<1>3. TableRows(new) /\ n \in Nat /\ \A r \in new : r.p = p
  BY RowsOfFacts
<1>4. IsFiniteSet(old) /\ Cardinality(old) \in Nat /\ (Cardinality(old) = 0 => old = {})
  <2>1. old \subseteq bdb.rows
    BY DEF HeldBy
  <2>2. IsFiniteSet(old)
    BY <1>2, <2>1, FS_Subset DEF TableRows
  <2> QED
    BY <2>2, FS_CardinalityType, FS_EmptySet
<1>5. n = 0 => new = {}
  BY DEF RowsOf
<1>6. Cardinality(old) + n \in Nat /\ (old # new => Cardinality(old) + n # 0)
  BY <1>3, <1>4, <1>5
<1>7. Follows(bdb, bdb')
  <2> HIDE DEF new
  <2> QED
    BY <1>1, <1>2, <1>3, <1>6, WrittenFollows
<1>8. \A f : InUse(f)' => InUse(f)
  BY <1>1 DEF InUse
<1> QED
  BY <1>1, <1>7, <1>8, BlocksGoOn DEF BlockInv

\* Steps of the database alone.
LEMMA SchemaKeeps == ASSUME BlockInv, DropTriggers \/ RestoreTriggers \/ QueueBlockBuild PROVE BlockInv'
<1>1. UNCHANGED <<bfile, builds, purges, heldFile, heldSnap>>
  BY DEF DropTriggers, RestoreTriggers, QueueBlockBuild
<1>2. DbOK(bdb)
  BY DEF BlockInv
<1>3. Follows(bdb, bdb')
  <2>1. CASE DropTriggers
    <3>1. bdb' = [bdb EXCEPT !.triggers = FALSE, !.cookie = @ + 1] /\ FALSE \in BOOLEAN
      BY <2>1 DEF DropTriggers
    <3> QED
      BY <1>2, <3>1, SchemaFollows
  <2>2. CASE RestoreTriggers
    <3>1. bdb' = [bdb EXCEPT !.triggers = TRUE, !.cookie = @ + 1] /\ TRUE \in BOOLEAN
      BY <2>2 DEF RestoreTriggers
    <3> QED
      BY <1>2, <3>1, SchemaFollows
  <2>3. CASE QueueBlockBuild
    BY <1>2, <2>3, StoppedFollows DEF QueueBlockBuild
  <2> QED
    BY <2>1, <2>2, <2>3
<1>4. \A f : InUse(f)' => InUse(f)
  BY <1>1 DEF InUse
<1> QED
  BY <1>1, <1>3, <1>4, BlocksGoOn DEF BlockInv

LEMMA StartKeepsBlocks == ASSUME BlockInv, NEW w \in Builders, StartBuild(w) PROVE BlockInv'
<1> DEFINE u == [pc |-> "read", purges |-> purges]
<1>1. /\ bdb' = Started(bdb) /\ builds' = [builds EXCEPT ![w] = u]
      /\ UNCHANGED <<bfile, queued, purges, heldFile, heldSnap>>
  BY DEF StartBuild
<1>2. u \in BlockBuild /\ u.pc = "read" /\ DbOK(bdb)
  BY DEF BlockInv, BlockBuild
<1>3. u \notin Building
  BY <1>2, BuildShape
<1> HIDE DEF u
<1>4. Follows(bdb, bdb')
  BY <1>1, <1>2, StartedFollows
<1>5. /\ builds' \in [Builders -> BlockBuild]
      /\ \A f : InUse(f)' => InUse(f)
  BY <1>1, <1>2, <1>3, BuildMoves
<1> QED
  BY <1>1, <1>4, <1>5, BlocksGoOn DEF BlockInv

LEMMA ReadKeepsBlocks == ASSUME BlockInv, NEW w \in Builders, ReadRows(w) PROVE BlockInv'
<1>1. builds[w].pc = "read" /\ UNCHANGED <<bdb, bfile, purges, heldFile, heldSnap, spent>>
  BY DEF ReadRows
<1>2. builds[w] \in [pc : {"read"}, purges : Nat] /\ DbOK(bdb) /\ builds \in [Builders -> BlockBuild]
  BY <1>1, BuildShape DEF BlockInv
<1>3. Follows(bdb, bdb)
  BY <1>2, StoppedFollows
<1>4. CASE Finished(w)
  <2>1. /\ builds' \in [Builders -> BlockBuild]
        /\ \A f : InUse(f)' => InUse(f)
    BY <1>1, <1>4, IdleIsABuild, BuildMoves DEF Finished
  <2> QED
    BY <1>1, <1>3, <2>1, BlocksGoOn DEF BlockInv
<1>5. CASE ~(~bdb.logging \/ ~bdb.triggers \/ bdb.rows = {})
  <2> DEFINE f == [rows |-> KeySorted(bdb.rows), generation |-> bdb.generation,
                   built |-> bdb.head, cookie |-> bdb.cookie]
             u == [pc |-> "replace", purges |-> builds[w].purges, file |-> f]
  <2>1. builds' = [builds EXCEPT ![w] = u]
    BY <1>5 DEF ReadRows
  <2>2. /\ f \in BlockFile /\ FileOK(f) /\ HeldFor(f, bdb)
        /\ \A snap : DbOK(snap) /\ Behind(snap, bdb) /\ Vouched(f, snap) => ExactFile(f, snap)
    <3> DEFINE g == f
    <3>1. g = f
      OBVIOUS
    <3> HIDE DEF g
    <3>2. /\ g \in BlockFile /\ FileOK(g) /\ HeldFor(g, bdb)
          /\ \A snap : DbOK(snap) /\ Behind(snap, bdb) /\ Vouched(g, snap) => ExactFile(g, snap)
      BY <1>2, <1>5, <3>1, FreshFile
    <3> QED
      BY <3>1, <3>2
  <2> HIDE DEF f
  <2>3. u \in BlockBuild /\ u \in Building /\ u.file = f
    BY <1>2, <2>2 DEF BlockBuild, Building
  <2> HIDE DEF u
  <2>4. builds' \in [Builders -> BlockBuild] /\ \A v \in Builders : builds'[v] = IF v = w THEN u ELSE builds[v]
    BY <1>2, <2>1, <2>3
  <2>5. \A g : InUse(g)' => InUse(g) \/ g = f
    BY <1>1, <2>3, <2>4 DEF InUse
  <2>6. ASSUME NEW g, InUse(g)'
        PROVE  /\ FileOK(g) /\ HeldFor(g, bdb')
               /\ heldSnap' # NoFile /\ Vouched(g, heldSnap') => ExactFile(g, heldSnap')
    <3>1. CASE InUse(g)
      BY <1>1, <3>1 DEF BlockInv
    <3>2. CASE g = f
      BY <1>1, <2>2, <3>2 DEF BlockInv
    <3> QED
      BY <2>5, <2>6, <3>1, <3>2
  <2> QED
    BY <1>1, <2>4, <2>6 DEF BlockInv
<1> QED
  BY <1>4, <1>5 DEF ReadRows

LEMMA ReplaceKeepsBlocks == ASSUME BlockInv, NEW w \in Builders, ReplaceFile(w) PROVE BlockInv'
<1>1. builds[w].pc = "replace" /\ UNCHANGED <<bdb, purges, heldFile, heldSnap, spent>>
  BY DEF ReplaceFile
<1>2. builds[w] \in Building /\ DbOK(bdb) /\ builds \in [Builders -> BlockBuild]
  BY <1>1, BuildShape DEF BlockInv
<1>3. Follows(bdb, bdb)
  BY <1>2, StoppedFollows
<1>4. CASE Finished(w) /\ bfile' = bfile
  <2>1. /\ builds' \in [Builders -> BlockBuild]
        /\ \A f : InUse(f)' => InUse(f)
    BY <1>1, <1>4, IdleIsABuild, BuildMoves DEF Finished
  <2> QED
    BY <1>1, <1>3, <2>1, BlocksGoOn DEF BlockInv
<1>5. CASE bfile' = builds[w].file /\ builds' = [builds EXCEPT ![w].pc = "prune"]
  <2> DEFINE u == [builds[w] EXCEPT !.pc = "prune"]
  <2>1. u \in Building /\ u.file = builds[w].file
    BY <1>2 DEF Building
  <2>2. builds' = [builds EXCEPT ![w] = u]
    BY <1>5
  <2> HIDE DEF u
  <2>3. u \in BlockBuild
    BY <2>1 DEF BlockBuild
  <2>4. /\ builds' \in [Builders -> BlockBuild]
        /\ \A f : InUse(f)' => InUse(f)
    <3>1. InUse(bfile')
      BY <1>2, <1>5 DEF InUse
    <3> QED
      BY <1>1, <1>2, <2>1, <2>2, <2>3, <3>1, BuildMoves
  <2> QED
    BY <1>1, <1>3, <2>4, BlocksGoOn DEF BlockInv
<1> QED
  BY <1>4, <1>5 DEF ReplaceFile

LEMMA PruneKeepsBlocks == ASSUME BlockInv, NEW w \in Builders, PruneBlocks(w) PROVE BlockInv'
<1>1. /\ builds[w].pc = "prune" /\ UNCHANGED <<bfile, purges, heldFile, heldSnap, spent>>
      /\ bdb' = Pruned(bdb, builds[w].file.generation, builds[w].file.built) /\ Finished(w)
  BY DEF PruneBlocks
<1>2. builds[w] \in Building /\ DbOK(bdb)
  BY <1>1, BuildShape DEF BlockInv
<1>3. builds[w].file.generation \in Nat /\ builds[w].file.built \in Nat
  <2>1. InUse(builds[w].file)
    BY <1>2 DEF InUse
  <2> QED
    BY <2>1, FileFields DEF BlockInv
<1>4. Follows(bdb, bdb')
  BY <1>1, <1>2, <1>3, PrunedFollows
<1>5. /\ builds' \in [Builders -> BlockBuild]
      /\ \A f : InUse(f)' => InUse(f)
  BY <1>1, IdleIsABuild, BuildMoves DEF Finished
<1> QED
  BY <1>1, <1>4, <1>5, BlocksGoOn DEF BlockInv

LEMMA PurgeKeepsBlocks == ASSUME BlockInv, PurgeFiles PROVE BlockInv'
<1>1. purges' = purges + 1 /\ bfile' = NoFile /\ UNCHANGED <<bdb, builds, queued, heldFile, heldSnap>>
  BY DEF PurgeFiles
<1>2. DbOK(bdb) /\ purges' \in Nat
  BY <1>1 DEF BlockInv
<1>3. Follows(bdb, bdb)
  BY <1>2, StoppedFollows
<1>4. \A f : InUse(f)' => InUse(f)
  BY <1>1 DEF InUse
<1> QED
  BY <1>1, <1>2, <1>3, <1>4, BlocksGoOn DEF BlockInv

LEMMA RestartKeepsBlocks == ASSUME BlockInv, NEW on \in BOOLEAN, RestartBlocks(on) PROVE BlockInv'
<1>1. /\ bdb' = IF on THEN bdb ELSE Stopped(bdb)
      /\ builds' = [builds EXCEPT !["task"] = IdleBuild]
      /\ heldFile' = NoFile /\ heldSnap' = NoFile /\ UNCHANGED <<bfile, queued, purges>>
  BY DEF RestartBlocks
<1>2. DbOK(bdb) /\ builds \in [Builders -> BlockBuild]
  BY DEF BlockInv
<1>3. Follows(bdb, bdb')
  BY <1>1, <1>2, StoppedFollows
<1>4. builds' \in [Builders -> BlockBuild] /\ \A v \in Builders : builds'[v] = builds[v] \/ builds'[v] = IdleBuild
  BY <1>1, <1>2, IdleIsABuild
<1>5. \A f : InUse(f)' => InUse(f)
  BY <1>1, <1>4, IdleIsABuild DEF InUse
<1> QED
  BY <1>1, <1>3, <1>4, <1>5, BlocksGoOn DEF BlockInv

LEMMA ReaderKeepsBlocks == ASSUME BlockInv, TakeSnapshot \/ LoadFile PROVE BlockInv'
<1>1. /\ heldSnap = NoFile /\ heldFile = NoFile
      /\ UNCHANGED <<bdb, bfile, builds, queued, purges, spent>>
  BY DEF TakeSnapshot, LoadFile
<1>2. DbOK(bdb) /\ builds \in [Builders -> BlockBuild] /\ purges \in Nat
  BY DEF BlockInv
<1>3. CASE LoadFile
  <2>1. heldFile' = bfile /\ heldSnap' = heldSnap
    BY <1>3 DEF LoadFile
  <2>2. \A f : InUse(f)' => InUse(f)
    BY <1>1, <2>1 DEF InUse
  <2>3. Follows(bdb, bdb)
    BY <1>2, StoppedFollows
  <2> QED
    BY <1>1, <1>2, <2>1, <2>2, <2>3, BlocksGoOn
<1>4. CASE TakeSnapshot
  <2>1. heldSnap' = bdb /\ heldFile' = heldFile
    BY <1>4 DEF TakeSnapshot
  <2>2. Behind(bdb, bdb)
    BY <1>2, DbFields DEF Behind
  <2>3. ASSUME NEW f, InUse(f)'
        PROVE  FileOK(f) /\ HeldFor(f, bdb) /\ (Vouched(f, bdb) => ExactFile(f, bdb))
    <3>1. InUse(f)
      BY <1>1, <2>1, <2>3 DEF InUse
    <3>2. FileOK(f) /\ HeldFor(f, bdb)
      BY <3>1 DEF BlockInv
    <3> QED
      BY <3>2 DEF HeldFor
  <2> QED
    BY <1>1, <1>2, <2>1, <2>2, <2>3 DEF BlockInv
<1> QED
  BY <1>3, <1>4

LEMMA BlockStepHolds == BlockInv /\ [BlockNext]_blockVars => BlockInv'
<1> SUFFICES ASSUME BlockInv, [BlockNext]_blockVars  PROVE BlockInv'
  OBVIOUS
<1>1. CASE UNCHANGED blockVars
  <2>1. UNCHANGED <<bdb, bfile, builds, purges, heldFile, heldSnap>>
    BY <1>1 DEF blockVars
  <2>2. \A f : InUse(f)' => InUse(f)
    BY <2>1 DEF InUse
  <2>3. DbOK(bdb)
    BY DEF BlockInv
  <2>4. Follows(bdb, bdb)
    BY <2>3, StoppedFollows
  <2> QED
    BY <2>1, <2>2, <2>4, BlocksGoOn DEF BlockInv
<1>2. CASE BlockNext
  BY <1>2, WriteKeeps, SchemaKeeps, StartKeepsBlocks, ReadKeepsBlocks, ReplaceKeepsBlocks, PruneKeepsBlocks,
     PurgeKeepsBlocks, RestartKeepsBlocks, ReaderKeepsBlocks DEF BlockNext
<1> QED
  BY <1>1, <1>2

----------------------------------------------------------------------------
(* The block index: a chunk after the ones before                          *)

LEMMA CapsAreNumbers ==
    /\ Chunk \in Nat /\ Chunk > 0 /\ ExaminedCap \in Nat /\ ExaminedCap > 0
    /\ PerParentCap \in Nat /\ LiveRowBound \in Nat
BY BlockConstants

LEMMA BeginningFacts ==
    ASSUME NEW list \in Seq(BlockRow), NEW n \in Nat
    PROVE  /\ Beginning(list, n) \in Seq(BlockRow) /\ Len(Beginning(list, n)) \in Nat
           /\ Len(Beginning(list, n)) = IF Len(list) < n THEN Len(list) ELSE n
           /\ Len(Beginning(list, n)) <= n /\ Len(list) \in Nat
           /\ \A k \in 1..Len(Beginning(list, n)) : Beginning(list, n)[k] = list[k]
<1> DEFINE m == IF Len(list) < n THEN Len(list) ELSE n
           cut == Beginning(list, n)
<1>1. Len(list) \in Nat
  BY LenProperties
<1>2. m \in Nat /\ m <= n /\ m <= Len(list)
  BY <1>1
<1>3. cut = [k \in 1..m |-> list[k]]
  BY DEF Beginning
<1> HIDE DEF m, cut
<1>4. \A k \in 1..m : list[k] \in BlockRow
  <2> TAKE k \in 1..m
  <2>1. k \in 1..Len(list)
    BY <1>1, <1>2
  <2> QED
    BY <2>1, ElementOfSeq
<1>5. cut \in [1..m -> BlockRow]
  BY <1>3, <1>4
<1>6. cut \in Seq(BlockRow) /\ Len(cut) = m
  BY <1>2, <1>5, AsList
<1>7. \A k \in 1..m : cut[k] = list[k]
  BY <1>3
<1> QED
  BY <1>1, <1>2, <1>6, <1>7 DEF cut, m

\* The beginning of two lists: of the first, and of the second what there is room for.
LEMMA BeginningOfParts ==
    ASSUME NEW a \in Seq(BlockRow), NEW b \in Seq(BlockRow), NEW n \in Nat
    PROVE  Beginning(a \o b, n) = Beginning(a, n) \o Beginning(b, n - Len(Beginning(a, n)))
<1> DEFINE first == Beginning(a, n)
           left == n - Len(first)
           rest == Beginning(b, left)
           both == a \o b
           whole == Beginning(both, n)
<1>1. /\ first \in Seq(BlockRow) /\ Len(first) \in Nat /\ Len(first) = IF Len(a) < n THEN Len(a) ELSE n
      /\ Len(first) <= n /\ Len(a) \in Nat /\ \A k \in 1..Len(first) : first[k] = a[k]
  BY BeginningFacts
<1> HIDE DEF first
<1>2. left \in Nat
  BY <1>1
<1> HIDE DEF left
<1>3. /\ rest \in Seq(BlockRow) /\ Len(rest) \in Nat /\ Len(rest) = IF Len(b) < left THEN Len(b) ELSE left
      /\ Len(b) \in Nat /\ \A k \in 1..Len(rest) : rest[k] = b[k]
  BY <1>2, BeginningFacts
<1>4. /\ both \in Seq(BlockRow) /\ Len(both) = Len(a) + Len(b)
      /\ \A i \in 1..Len(a) + Len(b) : both[i] = IF i <= Len(a) THEN a[i] ELSE b[i - Len(a)]
  BY ConcatProperties
<1> HIDE DEF both
<1>5. /\ whole \in Seq(BlockRow) /\ Len(whole) \in Nat
      /\ Len(whole) = IF Len(a) + Len(b) < n THEN Len(a) + Len(b) ELSE n
      /\ \A k \in 1..Len(whole) : whole[k] = both[k]
  BY <1>4, BeginningFacts
<1> HIDE DEF rest, whole
<1>6. /\ first \o rest \in Seq(BlockRow) /\ Len(first \o rest) = Len(first) + Len(rest)
      /\ \A i \in 1..Len(first) + Len(rest) :
            (first \o rest)[i] = IF i <= Len(first) THEN first[i] ELSE rest[i - Len(first)]
  BY <1>1, <1>3, ConcatProperties
<1>7. Len(whole) = Len(first) + Len(rest)
  <2>1. left = n - Len(first)
    BY DEF left
  <2>2. CASE Len(a) < n
    <3>1. Len(first) = Len(a) /\ left = n - Len(a)
      BY <1>1, <2>1, <2>2
    <3>2. Len(a) + Len(b) < n <=> Len(b) < left
      BY <1>1, <1>3, <3>1
    <3>3. CASE Len(b) < left
      BY <1>3, <1>5, <3>1, <3>2, <3>3
    <3>4. CASE ~(Len(b) < left)
      <4>1. Len(whole) = n /\ Len(rest) = n - Len(a)
        BY <1>3, <1>5, <3>1, <3>2, <3>4
      <4> QED
        BY <1>1, <3>1, <4>1
    <3> QED
      BY <3>3, <3>4
  <2>3. CASE ~(Len(a) < n)
    <3>1. Len(first) = n /\ left = 0
      BY <1>1, <2>1, <2>3
    <3>2. Len(rest) = 0 /\ ~(Len(a) + Len(b) < n)
      BY <1>1, <1>3, <2>3, <3>1
    <3> QED
      BY <1>1, <1>5, <3>1, <3>2
  <2> QED
    BY <2>2, <2>3
<1>8. Len(whole) <= Len(a) + Len(b) /\ Len(first) <= Len(a) /\ (Len(first) # Len(a) => Len(rest) = 0)
  BY <1>1, <1>2, <1>3, <1>5 DEF left
<1>9. ASSUME NEW i \in 1..Len(whole)  PROVE whole[i] = (first \o rest)[i]
  <2>1. i \in 1..Len(a) + Len(b) /\ i \in 1..Len(first) + Len(rest) /\ i \in Int
    BY <1>1, <1>3, <1>5, <1>7, <1>8
  <2>2. CASE i <= Len(first)
    <3>1. i <= Len(a) /\ i \in 1..Len(first)
      BY <1>1, <1>8, <2>1, <2>2
    <3> QED
      BY <1>1, <1>4, <1>5, <1>6, <2>1, <2>2, <3>1
  <2>3. CASE ~(i <= Len(first))
    <3>1. Len(first) = Len(a) /\ ~(i <= Len(a)) /\ i - Len(first) \in 1..Len(rest)
      BY <1>1, <1>3, <1>8, <2>1, <2>3
    <3>2. (first \o rest)[i] = rest[i - Len(first)] /\ rest[i - Len(first)] = b[i - Len(first)]
      BY <1>3, <1>6, <2>1, <2>3, <3>1
    <3>3. whole[i] = b[i - Len(a)]
      BY <1>4, <1>5, <2>1, <3>1
    <3> QED
      BY <3>1, <3>2, <3>3
  <2> QED
    BY <2>2, <2>3
<1>10. whole = first \o rest
  BY <1>5, <1>6, <1>7, <1>9, SeqEqual
<1> QED
  BY <1>10 DEF whole, both, first, rest, left

\* The rows of a record among some.
SameRecord(D, r) == {q \in D : q.p = r.p}

\* What has been taken when the rows D of all rows M have been looked at, L of them live.
Matches(acc, D, M, L) ==
    /\ acc.taken = Beginning(KeySorted(FirstPlaces(D)), ExaminedCap)
    /\ Len(acc.taken) < ExaminedCap =>
          /\ \A r \in L : KeyOf(r) > acc.passed <=> r \notin D
          /\ \A r \in M \ D : Cardinality(SameRecord(D, r)) = IF r.p = acc.parent THEN acc.count ELSE 0

\* A row's place, when what came before it is behind.
LEMMA PlaceAfter ==
    ASSUME NEW D, NEW N, TableRows(D \cup N), \A q \in D, r \in N : KeyOf(q) < KeyOf(r)
    PROVE  /\ \A r \in D : Earlier(D \cup N, r) = Earlier(D, r)
           /\ \A r \in N : /\ Cardinality(Earlier(D \cup N, r))
                                = Cardinality(SameRecord(D, r)) + Cardinality(Earlier(N, r))
                           /\ Cardinality(SameRecord(D, r)) \in Nat /\ Cardinality(Earlier(N, r)) \in Nat
<1>1. \A q \in D, r \in N : q \in BlockRow /\ r \in BlockRow
  BY DEF TableRows
<1>2. \A q \in D, r \in N : /\ q.p = r.p => q.b < r.b
                            /\ ~(r.p = q.p /\ r.b < q.b)
                            /\ q # r
  <2> TAKE q \in D, r \in N
  <2>1. KeyOf(q) < KeyOf(r) /\ KeyOf(q) \in Nat /\ KeyOf(r) \in Nat /\ q.p \in Nat /\ r.p \in Nat
    BY <1>1, KeyOrder
  <2>2. q.p < r.p \/ (q.p = r.p /\ q.b < r.b)
    BY <1>1, <2>1, KeyOrder
  <2>3. ~(KeyOf(r) < KeyOf(q)) /\ q # r
    BY <2>1
  <2>4. ~(r.p = q.p /\ r.b < q.b)
    BY <1>1, <2>3, KeyOrder
  <2>5. q.p = r.p => ~(q.p < r.p)
    BY <2>1
  <2> QED
    BY <2>2, <2>3, <2>4, <2>5
<1>3. \A r \in D : Earlier(D \cup N, r) = Earlier(D, r)
  BY <1>2 DEF Earlier
<1>4. ASSUME NEW r \in N
      PROVE  /\ Cardinality(Earlier(D \cup N, r)) = Cardinality(SameRecord(D, r)) + Cardinality(Earlier(N, r))
             /\ Cardinality(SameRecord(D, r)) \in Nat /\ Cardinality(Earlier(N, r)) \in Nat
  <2>1. Earlier(D \cup N, r) = SameRecord(D, r) \cup Earlier(N, r)
    BY <1>2 DEF Earlier, SameRecord
  <2>2. SameRecord(D, r) \subseteq D \cup N /\ Earlier(N, r) \subseteq D \cup N
    BY DEF Earlier, SameRecord
  <2>3. IsFiniteSet(SameRecord(D, r)) /\ IsFiniteSet(Earlier(N, r))
    BY <2>2, FS_Subset DEF TableRows
  <2>4. SameRecord(D, r) \cap Earlier(N, r) = {}
    BY <1>2 DEF Earlier, SameRecord
  <2>5. /\ Cardinality(SameRecord(D, r)) \in Nat /\ Cardinality(Earlier(N, r)) \in Nat
    BY <2>3, FS_CardinalityType
  <2>6. Cardinality(SameRecord(D, r) \cup Earlier(N, r))
          = Cardinality(SameRecord(D, r)) + Cardinality(Earlier(N, r))
            - Cardinality(SameRecord(D, r) \cap Earlier(N, r))
    BY <2>3, FS_Union
  <2>7. Cardinality(SameRecord(D, r) \cap Earlier(N, r)) = 0
    BY <2>4, FS_EmptySet
  <2>8. Cardinality(Earlier(D \cup N, r)) = Cardinality(SameRecord(D, r)) + Cardinality(Earlier(N, r)) - 0
    BY <2>1, <2>6, <2>7
  <2> QED
    BY <2>5, <2>8
<1> QED
  BY <1>3, <1>4

\* The last of some rows.
LEMMA LastFacts ==
    ASSUME NEW N, TableRows(N), N # {}
    PROVE  LastOf(N) \in N /\ \A q \in N : KeyOf(q) <= KeyOf(LastOf(N))
<1> DEFINE k == Cardinality(N)
           list == KeySorted(N)
<1>1. /\ k \in Nat
      /\ \A j \in 1..k : list[j] \in N
      /\ \A x \in N : \E j \in 1..k : list[j] = x
      /\ \A i, j \in 1..k : KeyOf(list[i]) < KeyOf(list[j]) <=> i < j
  BY SortedFacts
<1>2. \A x \in N : KeyOf(x) \in Nat
  BY KeyOrder DEF TableRows
<1> HIDE DEF k, list
<1>3. k \in 1..k
  BY <1>1
<1>4. \A q \in N : KeyOf(q) <= KeyOf(list[k])
  <2> TAKE q \in N
  <2>1. PICK j \in 1..k : list[j] = q
    BY <1>1
  <2>2. ~(k < j)
    BY <1>1
  <2>3. ~(KeyOf(list[k]) < KeyOf(q))
    BY <1>1, <1>3, <2>1, <2>2
  <2>4. KeyOf(list[k]) \in Nat /\ KeyOf(q) \in Nat
    BY <1>1, <1>2, <1>3
  <2> QED
    BY <2>3, <2>4
<1>5. \E r \in N : \A q \in N : KeyOf(q) <= KeyOf(r)
  BY <1>1, <1>3, <1>4
<1> QED
  BY <1>5 DEF LastOf

\* The rows of the next chunk are taken as the scan takes them.
LEMMA TakenTogether ==
    ASSUME NEW D, NEW N, TableRows(D \cup N), \A q \in D, r \in N : KeyOf(q) < KeyOf(r)
    PROVE  LET first == Beginning(KeySorted(FirstPlaces(D)), ExaminedCap)
               more  == {r \in N : Cardinality(SameRecord(D, r)) + Cardinality(Earlier(N, r)) < PerParentCap}
           IN  /\ Beginning(KeySorted(FirstPlaces(D \cup N)), ExaminedCap)
                    = first \o Beginning(KeySorted(more), ExaminedCap - Len(first))
               /\ first \in Seq(BlockRow) /\ Len(first) \in Nat /\ Len(first) <= ExaminedCap
               /\ KeySorted(more) \in Seq(BlockRow)
<1> DEFINE A == FirstPlaces(D)
           B == {r \in N : Cardinality(SameRecord(D, r)) + Cardinality(Earlier(N, r)) < PerParentCap}
<1>1. FirstPlaces(D \cup N) = A \cup B
  <2>1. \A r \in D : r \in FirstPlaces(D \cup N) <=> r \in A
    BY PlaceAfter DEF FirstPlaces
  <2>2. \A r \in N : r \in FirstPlaces(D \cup N) <=> r \in B
    BY PlaceAfter DEF FirstPlaces
  <2>3. \A r \in N : r \notin D
    <3> TAKE r \in N
    <3>1. KeyOf(r) \in Nat
      BY KeyOrder DEF TableRows
    <3> QED
      BY <3>1
  <2>4. A \subseteq D /\ B \subseteq N /\ FirstPlaces(D \cup N) \subseteq D \cup N
    BY DEF FirstPlaces
  <2> HIDE DEF A, B
  <2> QED
    BY <2>1, <2>2, <2>4
<1>2. A \subseteq D /\ B \subseteq N
  BY DEF FirstPlaces
<1> HIDE DEF A, B
<1>3. TableRows(A \cup B) /\ TableRows(A) /\ TableRows(B)
  BY <1>2, PartOfRows
<1>4. KeySorted(A \cup B) = KeySorted(A) \o KeySorted(B)
  BY <1>2, <1>3, SortedParts
<1>5. KeySorted(A) \in Seq(BlockRow) /\ KeySorted(B) \in Seq(BlockRow) /\ ExaminedCap \in Nat
  BY <1>3, SortedFacts, CapsAreNumbers
<1>6. Beginning(KeySorted(A) \o KeySorted(B), ExaminedCap)
        = Beginning(KeySorted(A), ExaminedCap) \o Beginning(KeySorted(B), ExaminedCap - Len(Beginning(KeySorted(A), ExaminedCap)))
  BY <1>5, BeginningOfParts
<1>7. /\ Beginning(KeySorted(A), ExaminedCap) \in Seq(BlockRow) /\ Len(Beginning(KeySorted(A), ExaminedCap)) \in Nat
      /\ Len(Beginning(KeySorted(A), ExaminedCap)) <= ExaminedCap
  BY <1>5, BeginningFacts
<1> QED
  BY <1>1, <1>4, <1>5, <1>6, <1>7 DEF A, B

LEMMA BeginningOfNone == ASSUME NEW list \in Seq(BlockRow) PROVE Beginning(list, 0) = <<>>
<1>1. Beginning(list, 0) \in Seq(BlockRow) /\ Len(Beginning(list, 0)) = 0
  <2>1. Len(Beginning(list, 0)) \in Nat /\ Len(Beginning(list, 0)) <= 0 /\ Beginning(list, 0) \in Seq(BlockRow)
    BY BeginningFacts
  <2> QED
    BY <2>1
<1> QED
  BY <1>1, EmptySeq

\* A chunk that is joined: N are its rows, those of L live, and every other row is after
\* them or was before.
LEMMA JoinedMatches ==
    ASSUME NEW M, TableRows(M), NEW L, L \subseteq M, NEW D, D \subseteq M, NEW N, N \subseteq M,
           \A q \in D, r \in N : KeyOf(q) < KeyOf(r),
           \A q \in D \cup N, r \in M \ (D \cup N) : KeyOf(q) < KeyOf(r),
           NEW acc, Matches(acc, D, M, L), NEW rows, NEW batch,
           Len(acc.taken) < ExaminedCap => rows = N /\ batch = N \cap L
    PROVE  Matches(Joined(acc, rows, batch), D \cup N, M, L)
<1> DEFINE first == Beginning(KeySorted(FirstPlaces(D)), ExaminedCap)
           more  == {r \in N : Cardinality(SameRecord(D, r)) + Cardinality(Earlier(N, r)) < PerParentCap}
           whole == Beginning(KeySorted(FirstPlaces(D \cup N)), ExaminedCap)
           room  == ExaminedCap - Len(first)
<1>1. TableRows(D \cup N) /\ TableRows(N) /\ M \subseteq BlockRow /\ \A r \in M : KeyOf(r) \in Nat
  <2>1. D \cup N \subseteq M
    OBVIOUS
  <2> QED
    BY <2>1, PartOfRows, KeyOrder DEF TableRows
<1>2. /\ whole = first \o Beginning(KeySorted(more), room)
      /\ first \in Seq(BlockRow) /\ Len(first) \in Nat /\ Len(first) <= ExaminedCap
      /\ KeySorted(more) \in Seq(BlockRow)
  BY <1>1, TakenTogether
<1>3. ExaminedCap \in Nat /\ acc.taken = first
  BY CapsAreNumbers DEF Matches
<1> HIDE DEF first, more, whole
<1>4. CASE Len(first) = ExaminedCap
  <2>1. room = 0
    BY <1>2, <1>3, <1>4
  <2>2. Joined(acc, rows, batch) = acc
    BY <1>3, <2>1 DEF Joined
  <2>3. whole = first
    BY <1>2, <2>1, BeginningOfNone, ConcatEmptySeq
  <2>4. ~(Len(acc.taken) < ExaminedCap)
    BY <1>3, <1>4
  <2> QED
    BY <1>3, <2>2, <2>3, <2>4 DEF Matches, whole
<1>5. CASE Len(first) # ExaminedCap
  <2>1. Len(acc.taken) < ExaminedCap /\ room # 0 /\ rows = N /\ batch = N \cap L
    <3>1. Len(first) < ExaminedCap /\ room # 0
      BY <1>2, <1>3, <1>5
    <3> QED
      BY <1>3, <3>1
  <2>2. /\ \A r \in L : KeyOf(r) > acc.passed <=> r \notin D
        /\ \A r \in M \ D : Cardinality(SameRecord(D, r)) = IF r.p = acc.parent THEN acc.count ELSE 0
    BY <2>1 DEF Matches
  <2>3. CASE N = {}
    <3>1. Joined(acc, rows, batch) = acc /\ D \cup N = D
      BY <2>1, <2>3 DEF Joined
    <3> QED
      BY <3>1
  <2>4. CASE N # {}
    <3> DEFINE place(r) == Cardinality(Earlier(N, r)) + (IF r.p = acc.parent THEN acc.count ELSE 0)
               l == LastOf(N)
               then == Joined(acc, rows, batch)
    <3>1. l \in N /\ \A q \in N : KeyOf(q) <= KeyOf(l)
      BY <1>1, <2>4, LastFacts
    <3>2. \A r \in N : r \in M \ D
      BY <1>1
    <3>3. ASSUME NEW r \in N
          PROVE  /\ place(r) = Cardinality(SameRecord(D, r)) + Cardinality(Earlier(N, r))
                 /\ place(r) = Cardinality(Earlier(D \cup N, r)) /\ place(r) \in Nat
      <4>1. /\ Cardinality(Earlier(D \cup N, r)) = Cardinality(SameRecord(D, r)) + Cardinality(Earlier(N, r))
            /\ Cardinality(SameRecord(D, r)) \in Nat /\ Cardinality(Earlier(N, r)) \in Nat
        BY <1>1, PlaceAfter
      <4>2. Cardinality(SameRecord(D, r)) = IF r.p = acc.parent THEN acc.count ELSE 0
        BY <2>2, <3>2
      <4>3. place(r) = Cardinality(Earlier(N, r)) + Cardinality(SameRecord(D, r))
        BY <4>2
      <4> QED
        BY <4>1, <4>3
    <3>4. more = {r \in N : place(r) < PerParentCap}
      BY <3>3 DEF more
    <3>5. then = [taken |-> acc.taken \o Beginning(KeySorted({r \in N : place(r) < PerParentCap}), room),
                  passed |-> IF batch = {} THEN acc.passed ELSE KeyOf(LastOf(batch)),
                  parent |-> l.p, count |-> place(l) + 1]
      BY <1>3, <2>1, <2>4 DEF Joined
    <3>6. /\ then.taken = whole /\ then.parent = l.p /\ then.count = place(l) + 1
          /\ then.passed = IF batch = {} THEN acc.passed ELSE KeyOf(LastOf(batch))
      BY <1>2, <1>3, <3>4, <3>5
    <3>7. l \in M /\ l \in D \cup N
      BY <3>1
    <3> HIDE DEF then, place, l
    <3>8. ASSUME NEW r \in L  PROVE KeyOf(r) > then.passed <=> r \notin D \cup N
      <4>1. r \in M /\ KeyOf(r) \in Nat
        BY <1>1
      <4>2. CASE batch = {}
        BY <2>1, <2>2, <3>6, <4>2
      <4>3. CASE batch # {}
        <5> DEFINE e == LastOf(batch)
        <5>1. TableRows(batch)
          BY <1>1, <2>1, PartOfRows
        <5>2. e \in N /\ e \in M /\ KeyOf(e) \in Nat /\ \A q \in batch : KeyOf(q) <= KeyOf(e)
          BY <1>1, <2>1, <4>3, <5>1, LastFacts
        <5>3. then.passed = KeyOf(e)
          BY <3>6, <4>3
        <5> HIDE DEF e
        <5>4. CASE r \in D
          <6>1. KeyOf(r) < KeyOf(e)
            BY <5>2, <5>4
          <6>2. ~(KeyOf(r) > KeyOf(e))
            BY <4>1, <5>2, <6>1
          <6> QED
            BY <5>3, <5>4, <6>2
        <5>5. CASE r \in N
          <6>1. KeyOf(r) <= KeyOf(e)
            BY <2>1, <5>2, <5>5
          <6>2. ~(KeyOf(r) > KeyOf(e))
            BY <4>1, <5>2, <6>1
          <6> QED
            BY <5>3, <5>5, <6>2
        <5>6. CASE r \notin D \cup N
          <6>1. KeyOf(e) < KeyOf(r)
            BY <4>1, <5>2, <5>6
          <6>2. KeyOf(r) > KeyOf(e)
            BY <4>1, <5>2, <6>1
          <6> QED
            BY <5>3, <5>6, <6>2
        <5> QED
          BY <5>4, <5>5, <5>6
      <4> QED
        BY <4>2, <4>3
    <3>9. ASSUME NEW r \in M \ (D \cup N)
          PROVE  Cardinality(SameRecord(D \cup N, r)) = IF r.p = then.parent THEN then.count ELSE 0
      <4>1. \A q \in D \cup N : q \in BlockRow /\ r \in BlockRow /\ KeyOf(q) < KeyOf(r)
                                /\ q.p \in Nat /\ r.p \in Nat /\ q.b \in Nat
        BY <1>1, KeyOrder
      <4>2. \A q \in D \cup N : KeyOf(q) <= KeyOf(l) /\ KeyOf(q) \in Nat /\ KeyOf(l) \in Nat
        <5> TAKE q \in D \cup N
        <5>1. q \in M /\ KeyOf(q) \in Nat /\ KeyOf(l) \in Nat
          BY <1>1, <3>7
        <5>2. CASE q \in D
          <6>1. KeyOf(q) < KeyOf(l)
            BY <3>1, <5>2
          <6> QED
            BY <5>1, <6>1
        <5>3. CASE q \in N
          BY <3>1, <5>1, <5>3
        <5> QED
          BY <5>2, <5>3
      <4>3. \A q \in D \cup N : ~(l.p < q.p) /\ ~(l.p = q.p /\ l.b < q.b) /\ l \in BlockRow
        <5> TAKE q \in D \cup N
        <5>1. l \in BlockRow /\ q \in BlockRow /\ ~(KeyOf(l) < KeyOf(q))
          BY <3>7, <4>1, <4>2
        <5> QED
          BY <5>1, KeyOrder
      <4>4. CASE r.p = l.p
        <5>1. SameRecord(D \cup N, r) = Earlier(D \cup N, l) \cup {l} /\ l \notin Earlier(D \cup N, l)
          <6>1. ASSUME NEW q \in D \cup N, q.p = l.p, q # l  PROVE q.b < l.b
            <7>1. q.b # l.b
              BY <1>1, <3>7, <6>1 DEF TableRows
            <7>2. q.b \in Nat /\ l.b \in Nat /\ ~(l.b < q.b)
              BY <3>7, <4>1, <4>3, <6>1
            <7> QED
              BY <7>1, <7>2
          <6>2. ~(l.b < l.b)
            BY <3>7, <4>3
          <6> QED
            BY <3>7, <4>4, <6>1, <6>2 DEF SameRecord, Earlier
        <5>2. IsFiniteSet(Earlier(D \cup N, l))
          <6>1. Earlier(D \cup N, l) \subseteq D \cup N
            BY DEF Earlier
          <6> QED
            BY <1>1, <6>1, FS_Subset DEF TableRows
        <5>3. Cardinality(SameRecord(D \cup N, r)) = Cardinality(Earlier(D \cup N, l)) + 1
          BY <5>1, <5>2, FS_AddElement
        <5>4. Cardinality(Earlier(D \cup N, l)) = place(l)
          BY <3>1, <3>3
        <5> QED
          BY <3>6, <4>4, <5>3, <5>4
      <4>5. CASE r.p # l.p
        <5>1. ASSUME NEW q \in D \cup N, q.p = r.p  PROVE FALSE
          <6>1. KeyOf(l) < KeyOf(r) /\ l \in BlockRow /\ r \in BlockRow /\ l.p \in Nat /\ r.p \in Nat
            BY <3>7, <4>1
          <6>2. l.p < r.p \/ l.p = r.p
            BY <6>1, KeyOrder
          <6>3. ~(l.p < r.p)
            BY <4>3, <5>1
          <6> QED
            BY <4>5, <6>2, <6>3
        <5>2. SameRecord(D \cup N, r) = {}
          BY <5>1 DEF SameRecord
        <5> QED
          BY <3>6, <4>5, <5>2, FS_EmptySet
      <4> QED
        BY <4>4, <4>5
    <3> QED
      BY <3>6, <3>8, <3>9 DEF Matches, whole, then
  <2> QED
    BY <2>3, <2>4
<1> QED
  BY <1>4, <1>5

----------------------------------------------------------------------------
(* The block index: the merge is the scan                                  *)

\* The chunks cover the file, and each begins within it.
LEMMA ChunksFacts ==
    ASSUME NEW f, FileOK(f)
    PROVE  /\ Chunks(f) \in Nat /\ Len(f.rows) \in Nat /\ Len(f.rows) > 0
           /\ Chunks(f) * Chunk >= Len(f.rows) /\ Chunks(f) > 0
           /\ \A n \in 1..Chunks(f) : /\ (n - 1) * Chunk \in Nat /\ n * Chunk \in Nat
                                      /\ n * Chunk = (n - 1) * Chunk + Chunk
                                      /\ (n - 1) * Chunk < Len(f.rows)
<1> DEFINE len == Len(f.rows)
           q == Chunks(f)
<1>1. len \in Nat /\ len > 0 /\ Chunk \in Nat /\ Chunk > 0
  <2>1. f.rows \in Seq(BlockRow) /\ f.rows # <<>>
    BY FileFields DEF FileOK
  <2>2. len \in Nat \ {0}
    BY <2>1, EmptySeq
  <2> QED
    BY <2>2, CapsAreNumbers
<1>2. q = (len + Chunk - 1) \div Chunk
  BY DEF Chunks, FileOK
<1> HIDE DEF len, q
<1>3. q \in Nat /\ q * Chunk <= len + Chunk - 1 /\ len + Chunk - 1 < q * Chunk + Chunk
  <2>1. len + Chunk - 1 \in Nat
    BY <1>1
  <2>2. \A a \in Nat, c \in Nat : c > 0 => /\ a \div c \in Nat
                                           /\ (a \div c) * c <= a /\ a < (a \div c) * c + c
    OBVIOUS
  <2> QED
    BY <1>1, <1>2, <2>1, <2>2
<1>4. q * Chunk \in Nat
  BY <1>1, <1>3
<1>5. q * Chunk >= len
  BY <1>1, <1>3, <1>4
<1>6. q > 0
  BY <1>1, <1>3, <1>5
<1>7. ASSUME NEW n \in 1..q
      PROVE  /\ (n - 1) * Chunk \in Nat /\ n * Chunk \in Nat /\ n * Chunk = (n - 1) * Chunk + Chunk
             /\ (n - 1) * Chunk < len
  <2>1. n \in Nat /\ n - 1 \in Nat /\ q - n \in Nat
    BY <1>3
  <2>2. (n - 1) * Chunk \in Nat /\ n * Chunk \in Nat /\ (q - n) * Chunk \in Nat
    BY <1>1, <2>1
  <2>3. n * Chunk = (n - 1) * Chunk + Chunk
    BY <1>1, <2>1
  <2>4. (q - n) * Chunk = q * Chunk - n * Chunk
    BY <1>1, <1>3, <2>1
  <2>5. n * Chunk <= q * Chunk
    BY <1>4, <2>2, <2>4
  <2> QED
    BY <1>1, <1>3, <1>4, <2>2, <2>3, <2>5
<1> QED
  BY <1>1, <1>3, <1>5, <1>6, <1>7 DEF len, q

\* The rows of a file that the log does not name, of the channels asked for.
FileRows(f, changed, scope) == {r \in ToSet(f.rows) : r.chan \in scope /\ r.p \notin changed}

\* The rows a number of chunks covers: those before the row the next one begins with.
CoveredRows(f, M, n) ==
    {r \in M : n # 0 /\ (n * Chunk < Len(f.rows) => KeyOf(r) < KeyOf(f.rows[n * Chunk + 1]))}

LEMMA ChunkJoins ==
    ASSUME NEW f, FileOK(f), NEW changed, NEW scope, NEW L, NEW M, M = FileRows(f, changed, scope) \cup L,
           TableRows(M), NEW n \in 1..Chunks(f), NEW acc, Matches(acc, CoveredRows(f, M, n - 1), M, L)
    PROVE  Matches(MergeChunk(f, L, changed, scope, acc, (n - 1) * Chunk), CoveredRows(f, M, n), M, L)
<1> DEFINE len == Len(f.rows)
           start == (n - 1) * Chunk
           stop == Stop(f, start)
           D == CoveredRows(f, M, n - 1)
           E == CoveredRows(f, M, n)
           N == E \ D
           key(j) == KeyOf(f.rows[j])
           batch == Batch(f, L, acc.passed, start)
           kept == KeptRows(f, changed, scope, start)
<1>1. /\ len \in Nat /\ len > 0 /\ start \in Nat /\ n * Chunk \in Nat /\ n * Chunk = start + Chunk
      /\ start < len /\ Chunk \in Nat /\ Chunk > 0 /\ n \in Nat /\ n # 0
  BY ChunksFacts, CapsAreNumbers
<1>2. /\ stop = IF n * Chunk < len THEN n * Chunk ELSE len
      /\ stop \in Nat /\ start < stop /\ stop <= len
      /\ n * Chunk < len <=> stop < len
  <2>1. stop = IF start + Chunk < len THEN start + Chunk ELSE len
    BY DEF Stop
  <2> HIDE DEF start, stop, len
  <2> QED
    BY <1>1, <2>1
<1>3. /\ ToSet(f.rows) \subseteq BlockRow
      /\ \A j \in 1..len : f.rows[j] \in ToSet(f.rows) /\ key(j) \in Nat
      /\ \A r \in ToSet(f.rows) : \E j \in 1..len : f.rows[j] = r
      /\ \A i, j \in 1..len : key(i) < key(j) <=> i < j
  <2> DEFINE S == ToSet(f.rows)
  <2>1. TableRows(S) /\ f.rows = KeySorted(S)
    BY DEF FileOK
  <2> HIDE DEF S
  <2>2. /\ Len(KeySorted(S)) = Cardinality(S)
        /\ \A k \in 1..Cardinality(S) : KeySorted(S)[k] \in S
        /\ \A x \in S : \E k \in 1..Cardinality(S) : KeySorted(S)[k] = x
        /\ \A j, k \in 1..Cardinality(S) : KeyOf(KeySorted(S)[j]) < KeyOf(KeySorted(S)[k]) <=> j < k
    BY <2>1, SortedFacts
  <2>3. len = Cardinality(S)
    BY <2>1, <2>2
  <2>4. S \subseteq BlockRow
    BY <2>1 DEF TableRows
  <2>5. \A j \in 1..len : f.rows[j] \in S /\ key(j) \in Nat
    BY <2>1, <2>2, <2>3, <2>4, KeyOrder
  <2> QED
    BY <2>1, <2>2, <2>3, <2>4, <2>5 DEF S
<1>4. /\ M \subseteq BlockRow /\ \A r \in M : KeyOf(r) \in Nat
  BY KeyOrder DEF TableRows
<1>5. D = {r \in M : n # 1 /\ KeyOf(r) < key(start + 1)}
  <2>1. n - 1 # 0 <=> n # 1
    BY <1>1
  <2> QED
    BY <1>1, <2>1 DEF CoveredRows
<1>6. E = {r \in M : stop < len => KeyOf(r) < key(stop + 1)}
  <2>1. \A r \in M : (n * Chunk < len => KeyOf(r) < key(n * Chunk + 1)) <=> (stop < len => KeyOf(r) < key(stop + 1))
    BY <1>1, <1>2
  <2> QED
    BY <1>1, <2>1 DEF CoveredRows
<1> HIDE DEF D, E, start, stop, len, batch, kept
<1>7. start + 1 \in 1..len /\ (stop < len => stop + 1 \in 1..len /\ start + 1 < stop + 1 /\ key(start + 1) < key(stop + 1))
  <2>1. start + 1 \in 1..len /\ (stop < len => stop + 1 \in 1..len /\ start + 1 < stop + 1)
    BY <1>1, <1>2
  <2> QED
    BY <1>3, <2>1
<1>8. D \subseteq E /\ E \subseteq M
  <2> SUFFICES ASSUME NEW r \in D, stop < len  PROVE KeyOf(r) < key(stop + 1)
    BY <1>5, <1>6
  <2>1. KeyOf(r) < key(start + 1) /\ key(start + 1) < key(stop + 1)
    BY <1>5, <1>7
  <2>2. KeyOf(r) \in Nat /\ key(start + 1) \in Nat /\ key(stop + 1) \in Nat
    BY <1>3, <1>4, <1>5, <1>7
  <2> HIDE DEF key
  <2> QED
    BY <2>1, <2>2
<1>9. ASSUME NEW q \in D, NEW r \in N  PROVE KeyOf(q) < KeyOf(r)
  <2>1. KeyOf(q) < key(start + 1) /\ ~(KeyOf(r) < key(start + 1))
    BY <1>5, <1>8
  <2>2. KeyOf(q) \in Nat /\ KeyOf(r) \in Nat /\ key(start + 1) \in Nat
    BY <1>3, <1>4, <1>7, <1>8
  <2> HIDE DEF key
  <2> QED
    BY <2>1, <2>2
<1>10. D \cup N = E
  BY <1>8
<1>11. ASSUME NEW q \in E, NEW r \in M \ E  PROVE KeyOf(q) < KeyOf(r)
  <2>1. stop < len /\ KeyOf(q) < key(stop + 1) /\ ~(KeyOf(r) < key(stop + 1))
    BY <1>6
  <2>2. KeyOf(q) \in Nat /\ KeyOf(r) \in Nat /\ key(stop + 1) \in Nat
    BY <1>3, <1>4, <1>7, <1>8, <2>1
  <2> HIDE DEF key
  <2> QED
    BY <2>1, <2>2
<1>12. kept = FileRows(f, changed, scope) \cap N
  <2>1. kept = {r \in {f.rows[j] : j \in (start + 1)..stop} : r.chan \in scope /\ r.p \notin changed}
    BY DEF kept, KeptRows, stop
  <2>2. ASSUME NEW j \in 1..len, f.rows[j] \in M
        PROVE  f.rows[j] \in N <=> j \in (start + 1)..stop
    <3>1. f.rows[j] \notin D <=> start + 1 <= j
      <4>1. CASE n = 1
        <5>1. start = 0
          BY <1>1, <4>1 DEF start
        <5> QED
          BY <1>5, <4>1, <5>1
      <4>2. CASE n # 1
        <5>1. f.rows[j] \notin D <=> ~(key(j) < key(start + 1))
          BY <1>5, <2>2, <4>2
        <5>2. key(j) < key(start + 1) <=> j < start + 1
          BY <1>3, <1>7
        <5> HIDE DEF key
        <5> QED
          BY <1>1, <5>1, <5>2
      <4> QED
        BY <4>1, <4>2
    <3>2. f.rows[j] \in E <=> j <= stop
      <4>1. CASE stop < len
        <5>1. f.rows[j] \in E <=> key(j) < key(stop + 1)
          BY <1>6, <2>2, <4>1
        <5>2. key(j) < key(stop + 1) <=> j < stop + 1
          BY <1>3, <1>7, <4>1
        <5> HIDE DEF key
        <5> QED
          BY <1>2, <5>1, <5>2
      <4>2. CASE ~(stop < len)
        <5>1. f.rows[j] \in E /\ stop = len
          BY <1>1, <1>2, <1>6, <2>2, <4>2
        <5> QED
          BY <5>1
      <4> QED
        BY <4>1, <4>2
    <3> QED
      BY <1>1, <1>2, <3>1, <3>2
  <2>3. \A j \in (start + 1)..stop : j \in 1..len
    BY <1>1, <1>2
  <2>4. ASSUME NEW r \in kept  PROVE r \in FileRows(f, changed, scope) \cap N
    <3>1. PICK j \in (start + 1)..stop : r = f.rows[j] /\ r.chan \in scope /\ r.p \notin changed
      BY <2>1
    <3>2. r \in FileRows(f, changed, scope) /\ r \in M
      BY <1>3, <2>3, <3>1 DEF FileRows
    <3> QED
      BY <2>2, <2>3, <3>1, <3>2
  <2>5. ASSUME NEW r \in FileRows(f, changed, scope) \cap N  PROVE r \in kept
    <3>1. r \in ToSet(f.rows) /\ r.chan \in scope /\ r.p \notin changed /\ r \in M
      BY <1>8 DEF FileRows
    <3>2. PICK j \in 1..len : f.rows[j] = r
      BY <1>3, <3>1
    <3>3. j \in (start + 1)..stop
      BY <2>2, <3>1, <3>2
    <3> QED
      BY <2>1, <3>1, <3>2, <3>3
  <2> QED
    BY <2>4, <2>5
<1>13. Len(acc.taken) < ExaminedCap => kept \cup batch = N /\ batch = N \cap L
  <2> SUFFICES ASSUME Len(acc.taken) < ExaminedCap  PROVE kept \cup batch = N /\ batch = N \cap L
    OBVIOUS
  <2>1. \A r \in L : KeyOf(r) > acc.passed <=> r \notin D
    BY DEF Matches, D
  <2>2. batch = {r \in L : KeyOf(r) > acc.passed /\ (stop < len => KeyOf(r) < key(stop + 1))}
    BY DEF batch, Batch, stop, len
  <2>3. batch = N \cap L
    BY <1>6, <2>1, <2>2
  <2> QED
    BY <1>8, <1>12, <2>3
<1>14. Matches(acc, D, M, L)
  BY DEF D
<1>15. Matches(Joined(acc, kept \cup batch, batch), D \cup N, M, L)
  <2> DEFINE rows == kept \cup batch
  <2>1. L \subseteq M /\ D \subseteq M /\ N \subseteq M /\ \A q \in D, r \in N : KeyOf(q) < KeyOf(r)
    BY <1>8, <1>9
  <2>2. \A q \in D \cup N, r \in M \ (D \cup N) : KeyOf(q) < KeyOf(r)
    BY <1>10, <1>11
  <2>3. Len(acc.taken) < ExaminedCap => rows = N /\ batch = N \cap L
    BY <1>13
  <2> HIDE DEF rows, N
  <2>4. Matches(Joined(acc, rows, batch), D \cup N, M, L)
    BY <1>14, <2>1, <2>2, <2>3, JoinedMatches
  <2> QED
    BY <2>4 DEF rows
<1>16. MergeChunk(f, L, changed, scope, acc, start) = Joined(acc, kept \cup batch, batch)
  BY DEF MergeChunk, kept, batch
<1> QED
  BY <1>10, <1>15, <1>16 DEF E, start

\* The merge is a walk over the chunks.
LEMMA MergeIsWalk ==
    ASSUME NEW f, FileOK(f), NEW db, NEW scope
    PROVE  LET changed == ChangedAfter(db, f.built)
           IN  \E w : /\ w[0] = NothingTaken
                      /\ \A n \in 1..Chunks(f) :
                            w[n] = MergeChunk(f, Live(db, changed, scope), changed, scope, w[n - 1], (n - 1) * Chunk)
                      /\ Merged(f, db, scope) = w[Chunks(f)].taken
<1> DEFINE changed == ChangedAfter(db, f.built)
           live == Live(db, changed, scope)
           N == Chunks(f)
           IsWalk(w, m) == w = [n \in 0..m |-> IF n = 0 THEN NothingTaken
                                               ELSE MergeChunk(f, live, changed, scope, w[n - 1], (n - 1) * Chunk)]
           walked == {m \in 0..N : \E w : IsWalk(w, m)}
           theWalk == CHOOSE w : IsWalk(w, N)
<1>1. N \in Nat
  BY ChunksFacts
<1>2. Merged(f, db, scope) = theWalk[N].taken
  BY DEF Merged
<1> HIDE DEF changed, live, N
<1>3. 0 \in walked
  <2> DEFINE w == [n \in 0..0 |-> NothingTaken]
  <2>1. \A n \in 0..0 : n = 0
    OBVIOUS
  <2>2. IsWalk(w, 0)
    BY <2>1
  <2> HIDE DEF w, IsWalk
  <2>3. 0 \in 0..N
    BY <1>1
  <2> QED
    BY <2>2, <2>3
<1>4. ASSUME NEW m \in 1..N, m - 1 \in walked  PROVE m \in walked
  <2>1. PICK w : IsWalk(w, m - 1)
    BY <1>4
  <2> DEFINE step(a, n) == MergeChunk(f, live, changed, scope, a, (n - 1) * Chunk)
             v == [n \in 0..m |-> IF n = m THEN step(w[m - 1], m) ELSE w[n]]
             u == [n \in 0..m |-> IF n = 0 THEN NothingTaken ELSE step(v[n - 1], n)]
  <2>2. m \in Nat /\ m # 0
    BY <1>1
  <2>3. \A n \in 0..(m - 1) : w[n] = IF n = 0 THEN NothingTaken ELSE step(w[n - 1], n)
    BY <2>1
  <2>4. ASSUME NEW n \in 0..m  PROVE v[n] = IF n = 0 THEN NothingTaken ELSE step(v[n - 1], n)
    <3>1. n # 0 => n - 1 \in 0..m /\ n - 1 # m /\ v[n - 1] = w[n - 1]
      BY <2>2
    <3>2. CASE n = m
      <4>1. v[n] = step(w[n - 1], n) /\ n # 0
        BY <2>2, <3>2
      <4> HIDE DEF step, v
      <4> QED
        BY <3>1, <4>1
    <3>3. CASE n # m
      <4>1. n \in 0..(m - 1) /\ v[n] = w[n]
        BY <2>2, <3>3
      <4> HIDE DEF step, v
      <4> QED
        BY <2>3, <3>1, <4>1
    <3> QED
      BY <3>2, <3>3
  <2>5. v = u
    <3> HIDE DEF step
    <3> QED
      BY <2>4
  <2>6. IsWalk(v, m)
    BY <2>5
  <2> HIDE DEF v, IsWalk
  <2>7. m \in 0..N
    BY <1>1
  <2> QED
    BY <2>6, <2>7
<1>5. N \in walked
  <2> HIDE DEF walked
  <2>1. \A m \in 0..N : m \in walked
    BY <1>1, <1>3, <1>4, StepByStep
  <2> QED
    BY <1>1, <2>1
<1>6. IsWalk(theWalk, N)
  BY <1>5
<1> HIDE DEF theWalk
<1>7. /\ theWalk[0] = NothingTaken
      /\ \A n \in 1..N : theWalk[n] = MergeChunk(f, live, changed, scope, theWalk[n - 1], (n - 1) * Chunk)
  <2>1. \A n \in 0..N : theWalk[n] = IF n = 0 THEN NothingTaken
                                     ELSE MergeChunk(f, live, changed, scope, theWalk[n - 1], (n - 1) * Chunk)
    BY <1>6
  <2>2. 0 \in 0..N /\ \A n \in 1..N : n \in 0..N /\ n # 0
    BY <1>1
  <2> QED
    BY <2>1, <2>2
<1> QED
  BY <1>2, <1>7 DEF N, live, changed

\* What is read through a file that has the rows the log does not name.
LEMMA MergeIsScan ==
    ASSUME NEW f, FileOK(f), NEW db, DbOK(db), ExactFile(f, db), NEW scope
    PROVE  Merged(f, db, scope) = Scan(db, scope)
<1> DEFINE changed == ChangedAfter(db, f.built)
           live == Live(db, changed, scope)
           M == {r \in db.rows : r.chan \in scope}
           N == Chunks(f)
<1>1. TableRows(db.rows) /\ TableRows(M) /\ N \in Nat /\ N > 0
  <2>1. TableRows(db.rows) /\ M \subseteq db.rows
    BY DbFields
  <2> QED
    BY <2>1, PartOfRows, ChunksFacts
<1>2. M = FileRows(f, changed, scope) \cup live
  <2>1. \A p \in BParents \ changed : HeldBy(db, p) = FileHas(f, p)
    BY DEF ExactFile
  <2>2. \A r \in ToSet(f.rows) \cup db.rows : r.p \in BParents
    BY <1>1 DEF FileOK, TableRows, BlockRow
  <2> HIDE DEF changed
  <2>3. \A r : r.p \in BParents /\ r.p \notin changed => (r \in db.rows <=> r \in ToSet(f.rows))
    BY <2>1 DEF HeldBy, FileHas
  <2> QED
    BY <2>2, <2>3 DEF FileRows, Live
<1>3. PICK w : /\ w[0] = NothingTaken
               /\ \A n \in 1..N : w[n] = MergeChunk(f, live, changed, scope, w[n - 1], (n - 1) * Chunk)
               /\ Merged(f, db, scope) = w[N].taken
  BY MergeIsWalk
<1> DEFINE right == {n \in 0..N : Matches(w[n], CoveredRows(f, M, n), M, live)}
<1> HIDE DEF changed, live, M, N
<1>4. 0 \in right
  <2>1. CoveredRows(f, M, 0) = {}
    BY DEF CoveredRows
  <2>2. NothingTaken.taken = <<>> /\ NothingTaken.passed = 0 /\ NothingTaken.count = 0
    BY DEF NothingTaken
  <2>3. Beginning(KeySorted(FirstPlaces({})), ExaminedCap) = <<>>
    <3>1. FirstPlaces({}) = {} /\ TableRows({}) /\ Cardinality({}) = 0
      BY FS_EmptySet DEF FirstPlaces, TableRows
    <3>2. KeySorted({}) \in Seq(BlockRow) /\ Len(KeySorted({})) = 0
      BY <3>1, SortedFacts
    <3>3. /\ Beginning(KeySorted({}), ExaminedCap) \in Seq(BlockRow)
          /\ Len(Beginning(KeySorted({}), ExaminedCap)) = IF 0 < ExaminedCap THEN 0 ELSE ExaminedCap
      BY <3>2, BeginningFacts, CapsAreNumbers
    <3>4. Len(Beginning(KeySorted({}), ExaminedCap)) = 0
      BY <3>3, CapsAreNumbers
    <3> QED
      BY <3>1, <3>3, <3>4, EmptySeq
  <2>4. \A r \in live : KeyOf(r) > 0 /\ r \notin {}
    <3>1. live \subseteq BlockRow
      BY <1>1, <1>2 DEF TableRows
    <3> QED
      BY <3>1, KeyOrder
  <2>5. \A r \in M : Cardinality(SameRecord({}, r)) = 0
    BY FS_EmptySet DEF SameRecord
  <2>6. Matches(NothingTaken, {}, M, live)
    BY <2>2, <2>3, <2>4, <2>5 DEF Matches
  <2> QED
    BY <1>1, <1>3, <2>1, <2>6
<1>5. ASSUME NEW n \in 1..N, n - 1 \in right  PROVE n \in right
  <2>1. Matches(w[n - 1], CoveredRows(f, M, n - 1), M, live) /\ n \in 1..Chunks(f) /\ n \in 0..N
    BY <1>1, <1>5 DEF N
  <2>2. Matches(MergeChunk(f, live, changed, scope, w[n - 1], (n - 1) * Chunk), CoveredRows(f, M, n), M, live)
    BY <1>1, <1>2, <2>1, ChunkJoins
  <2> QED
    BY <1>3, <2>1, <2>2
<1>6. N \in right
  <2> HIDE DEF right
  <2>1. \A n \in 0..N : n \in right
    BY <1>1, <1>4, <1>5, StepByStep
  <2> QED
    BY <1>1, <2>1
<1>7. CoveredRows(f, M, N) = M
  <2>1. ~(N * Chunk < Len(f.rows))
    <3>1. N * Chunk >= Len(f.rows) /\ Len(f.rows) \in Nat
      BY ChunksFacts DEF N
    <3>2. N * Chunk \in Nat
      BY <1>1, CapsAreNumbers
    <3> QED
      BY <3>1, <3>2
  <2> QED
    BY <1>1, <2>1 DEF CoveredRows
<1>8. w[N].taken = Beginning(KeySorted(FirstPlaces(M)), ExaminedCap)
  BY <1>6, <1>7 DEF Matches
<1> QED
  BY <1>3, <1>8 DEF Scan, M

\* Whatever the writes, builds of two processes, prunes, schema changes, purges and restarts,
\* a read through the file it loaded examines the rows the scan of its snapshot examines,
\* in its order and under its caps, or declines.
THEOREM BlockReadsAreExact == BlockSpec => []BlockReadEqualsScan
<1>1. BlockInv => BlockReadEqualsScan
  <2> SUFFICES ASSUME BlockInv, NEW f \in {bfile, heldFile} \ {NoFile},
                      NEW db \in {bdb, heldSnap} \ {NoFile}, NEW scope \in BScopes, Accepts(f, db, scope)
               PROVE  Merged(f, db, scope) = Scan(db, scope)
    BY DEF BlockReadEqualsScan
  <2>1. FileOK(f) /\ HeldFor(f, bdb) /\ (heldSnap # NoFile /\ Vouched(f, heldSnap) => ExactFile(f, heldSnap))
    BY DEF BlockInv, InUse
  <2>2. DbOK(db)
    BY DEF BlockInv
  <2>3. Vouched(f, db)
    BY DEF Accepts, Vouched
  <2>4. ExactFile(f, db)
    BY <2>1, <2>3 DEF HeldFor
  <2> QED
    BY <2>1, <2>2, <2>4, MergeIsScan
<1> QED
  BY <1>1, BlocksStart, BlockStepHolds, PTL DEF BlockSpec
=============================================================================
