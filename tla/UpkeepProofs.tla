---------------------------- MODULE UpkeepProofs ----------------------------
(* Proofs about the modules that keep the records in order: SchemaBoot, which *)
(* opens a store and brings it to the current schema, HealthRepairs, which    *)
(* repairs what it holds, and Transfer, which carries it between agents.      *)
EXTENDS SchemaBoot, HealthRepairs, Transfer, OrderTheorems, SequenceTheorems, FiniteSetTheorems,
        WellFoundedInduction, TLAPS

----------------------------------------------------------------------------
(* Opening a store.                                                        *)

BootRow   == [text : Texts, msg : MsgIds \cup {NoMsgId}, locked : BOOLEAN]
RowTables == UNION {[D -> BootRow] : D \in {S \in SUBSET Nat : IsFiniteSet(S)}}
BootStore == [version : Nat, rows : RowTables, table : BOOLEAN, ai : BOOLEAN,
              au : {"none", "wide", "scoped"}, words : SUBSET (Nat \X Texts), pending : BOOLEAN,
              uniqText : BOOLEAN, uniqMsg : BOOLEAN, columns : SUBSET ColumnSteps]
BootFlags == [fts : BOOLEAN, needed : BOOLEAN, failed : BOOLEAN, current : Nat]

\* What a store never is, committed or not: an index with its triggers in place that has
\* not the words of every row and is not marked as unfilled, a trigger without its table,
\* a version without the columns it promises.
WordsKept(s) == s.table /\ s.au = "scoped" /\ ~s.pending => s.words = Contents(s.rows)

StoreOK(s) ==
  /\ s \in BootStore
  /\ WordsKept(s)
  /\ s.ai => s.table
  /\ s.au # "none" => s.ai
  /\ \A v \in ColumnSteps : v <= s.version => v \in s.columns

\* No text of r is lost in q, and no locked row is touched.
RowsKept(r, q) ==
  /\ {r[i].text : i \in DOMAIN r} = {q[i].text : i \in DOMAIN q}
  /\ \A i \in DOMAIN r : r[i].locked => i \in DOMAIN q /\ q[i] = r[i]

FtsPlaces == {"arm", "table", "triggers"}
EndPlaces == {"rebuild", "dedup", "indexes", "stamp"}
Places    == {"none", "down", "probe", "up"} \cup FtsPlaces \cup LadderPlaces \cup EndPlaces

\* A start whose index was in order keeps it so; one that found it wanting has said so on
\* disk before it makes the table.
FtsReady ==
  /\ at \in {"probe", "narrow", "narrowed"} \cup FtsPlaces => boot.fts
  /\ boot.fts /\ at \in FtsPlaces \cup LadderPlaces \cup {"rebuild"} =>
       IF boot.needed THEN at # "arm" => work.pending
       ELSE work.ai /\ work.words = Contents(work.rows)

\* The triggers are made before the ladder, which replaces one of them.
TriggersMade ==
  /\ at \in FtsPlaces => work.au # "wide" /\ (at = "triggers" => work.table)
  /\ boot.fts /\ ~boot.failed /\ at \in LadderPlaces \cup EndPlaces \cup {"up"} =>
       work.ai /\ work.au = (IF at = "narrowed" THEN "none" ELSE "scoped")

\* The version read is the store's until the stamp, and the ladder starts from it.
ColumnsMade ==
  /\ at \in {"probe"} \cup FtsPlaces \cup LadderPlaces \cup EndPlaces => work.version = boot.current
  /\ ~boot.failed /\ at \in (LadderPlaces \ {"columns"}) \cup EndPlaces =>
       \A v \in ColumnSteps : v <= 10 => v \in work.columns
  /\ ~boot.failed /\ at \in EndPlaces => work.columns = ColumnSteps

BootInv ==
  /\ at \in Places /\ boot \in BootFlags
  /\ StoreOK(disk) /\ StoreOK(work) /\ RowsKept(disk.rows, work.rows)
  /\ FtsReady /\ TriggersMade /\ ColumnsMade

\* The least of a finite set of numbers, the one Min takes.
LEMMA LeastId ==
    ASSUME NEW S, S \subseteq Nat, IsFiniteSet(S), S # {}
    PROVE  Min(S) \in S /\ \A y \in S : Min(S) <= y
<1> DEFINE below(x) == {y \in S : y < x}
           family   == {below(x) : x \in S}
           R        == StrictSubsetOrdering(S)
<1>1. \A y \in S : y \in Nat
  OBVIOUS
<1>2. family \subseteq FiniteSubsetsOf(S) /\ family # {}
  <2>1. \A x \in S : below(x) \in SUBSET S
    OBVIOUS
  <2>2. \A x \in S : IsFiniteSet(below(x))
    BY <2>1, FS_Subset
  <2> QED
    BY <2>1, <2>2 DEF FiniteSubsetsOf
<1>3. PICK F \in family : \A G \in family : <<G, F>> \notin R
  <2>1. IsWellFoundedOn(R, FiniteSubsetsOf(S))
    BY FS_StrictSubsetOrderingWellFounded
  <2> HIDE DEF R, family
  <2> QED
    BY <1>2, <2>1, WFMin
<1>4. PICK x \in S : F = below(x)
  OBVIOUS
<1>5. ASSUME NEW y \in S, y < x
      PROVE  FALSE
  <2>1. y \in Nat /\ x \in Nat /\ ~(y < y) /\ \A z \in S : z < y => z < x
    BY <1>1, <1>5
  <2>2. below(y) \subseteq below(x) /\ y \in below(x) /\ y \notin below(y)
    BY <2>1, <1>5, Zenon
  <2>3. <<below(y), below(x)>> \in R
    BY <2>2 DEF StrictSubsetOrdering
  <2> QED
    BY <1>3, <1>4, <2>3
<1>6. \A y \in S : x <= y
  BY <1>1, <1>5, SMT
<1> QED
  BY <1>6 DEF Min

\* Tables of rows.
LEMMA TableOf ==
    ASSUME NEW D, D \subseteq Nat, IsFiniteSet(D), NEW r \in [D -> BootRow]
    PROVE  r \in RowTables /\ DOMAIN r = D
BY DEF RowTables

LEMMA OfTable ==
    ASSUME NEW r \in RowTables
    PROVE  DOMAIN r \subseteq Nat /\ IsFiniteSet(DOMAIN r) /\ r \in [DOMAIN r -> BootRow]
<1>1. PICK D \in {S \in SUBSET Nat : IsFiniteSet(S)} : r \in [D -> BootRow]
  BY DEF RowTables
<1>2. DOMAIN r = D
  BY <1>1
<1> QED
  BY <1>1, <1>2

LEMMA ContentsTyped ==
    ASSUME NEW r \in RowTables
    PROVE  Contents(r) \in SUBSET (Nat \X Texts)
<1> SUFFICES ASSUME NEW i \in DOMAIN r PROVE <<i, r[i].text>> \in Nat \X Texts
  BY DEF Contents
<1>1. i \in Nat /\ r[i] \in BootRow
  BY OfTable
<1> QED
  BY <1>1 DEF BootRow

\* The words of a table some rows have left.
LEMMA ContentsLeft ==
    ASSUME NEW r, NEW gone
    PROVE  Contents([i \in DOMAIN r \ gone |-> r[i]]) = {w \in Contents(r) : w[1] \notin gone}
<1> DEFINE left == [i \in DOMAIN r \ gone |-> r[i]]
<1>1. DOMAIN left = DOMAIN r \ gone /\ \A i \in DOMAIN left : left[i] = r[i]
  OBVIOUS
<1> HIDE DEF left
<1>2. ASSUME NEW w PROVE w \in Contents(left) <=> w \in Contents(r) /\ w[1] \notin gone
  <2>1. ASSUME NEW i \in DOMAIN left, w = <<i, left[i].text>> PROVE w \in Contents(r) /\ w[1] \notin gone
    BY <1>1, <2>1 DEF Contents
  <2>2. ASSUME NEW i \in DOMAIN r, w = <<i, r[i].text>>, w[1] \notin gone PROVE w \in Contents(left)
    BY <1>1, <2>2 DEF Contents
  <2> QED
    BY <2>1, <2>2 DEF Contents
<1>3. Contents(left) = {w \in Contents(r) : w[1] \notin gone}
  BY <1>2
<1> QED
  BY <1>3 DEF left

LEMMA KeptIsReflexive == \A r : RowsKept(r, r)
BY DEF RowsKept

LEMMA KeptIsTransitive ==
    ASSUME NEW p, NEW q, NEW r, RowsKept(p, q), RowsKept(q, r)
    PROVE  RowsKept(p, r)
<1>1. \A i \in DOMAIN p : p[i].locked => i \in DOMAIN r /\ r[i] = p[i]
  BY DEF RowsKept
<1> QED
  BY <1>1 DEF RowsKept

----------------------------------------------------------------------------
(* What the statements make of a store.                                    *)

Better(s, t) == StoreOK(t) /\ RowsKept(s.rows, t.rows) /\ t.version = s.version

LEMMA TriggerDropped ==
    ASSUME NEW s, StoreOK(s)
    PROVE  LET t == [s EXCEPT !.au = "none"]
           IN  Better(s, t) /\ t.ai = s.ai /\ t.words = s.words /\ t.rows = s.rows /\ t.table = s.table
               /\ t.pending = s.pending /\ t.columns = s.columns /\ t.au = "none"
BY KeptIsReflexive DEF StoreOK, BootStore, WordsKept, Better

LEMMA ArmedStore ==
    ASSUME NEW s, StoreOK(s)
    PROVE  Better(s, Armed(s)) /\ Armed(s).ai = s.ai /\ Armed(s).words = s.words /\ Armed(s).rows = s.rows
           /\ Armed(s).pending /\ Armed(s).columns = s.columns /\ Armed(s).au = s.au
BY KeptIsReflexive DEF StoreOK, BootStore, WordsKept, Better, Armed

LEMMA TableMade ==
    ASSUME NEW s, StoreOK(s)
    PROVE  /\ Better(s, WithTable(s)) /\ WithTable(s).ai = s.ai /\ WithTable(s).rows = s.rows
           /\ WithTable(s).table /\ WithTable(s).columns = s.columns /\ WithTable(s).au = s.au
           /\ WithTable(s).pending = s.pending
           /\ s.ai => WithTable(s).words = s.words
<1>1. CASE s.table
  BY <1>1, KeptIsReflexive DEF WithTable, Better, StoreOK, BootStore
<1>2. CASE ~s.table
  <2>1. ~s.ai /\ s.au = "none"
    BY <1>2 DEF StoreOK
  <2>2. WithTable(s) = [s EXCEPT !.table = TRUE, !.words = {}]
    BY <1>2 DEF WithTable
  <2> QED
    BY <2>1, <2>2, KeptIsReflexive DEF StoreOK, BootStore, WordsKept, Better
<1> QED
  BY <1>1, <1>2 DEF StoreOK, BootStore

LEMMA TriggersSet ==
    ASSUME NEW s, StoreOK(s), s.table, s.pending \/ s.words = Contents(s.rows)
    PROVE  /\ Better(s, WithTriggers(s)) /\ WithTriggers(s).ai /\ WithTriggers(s).rows = s.rows
           /\ WithTriggers(s).columns = s.columns /\ WithTriggers(s).pending = s.pending
           /\ WithTriggers(s).words = s.words
           /\ s.au # "wide" => WithTriggers(s).au = "scoped"
BY KeptIsReflexive DEF StoreOK, BootStore, WordsKept, Better, WithTriggers

LEMMA ColumnsAdded ==
    ASSUME NEW s, StoreOK(s), NEW n \in Nat
    PROVE  /\ Better(s, WithColumns(s, n)) /\ WithColumns(s, n).ai = s.ai /\ WithColumns(s, n).rows = s.rows
           /\ WithColumns(s, n).words = s.words /\ WithColumns(s, n).pending = s.pending
           /\ WithColumns(s, n).au = s.au
           /\ \A v \in ColumnSteps : v \in s.columns => v \in WithColumns(s, n).columns
           /\ \A v \in ColumnSteps : boot.current < v /\ v <= n => v \in WithColumns(s, n).columns
BY KeptIsReflexive DEF StoreOK, BootStore, WordsKept, Better, WithColumns

LEMMA IndexFilled ==
    ASSUME NEW s, StoreOK(s)
    PROVE  /\ Better(s, Rebuilt(s)) /\ Rebuilt(s).ai = s.ai /\ Rebuilt(s).rows = s.rows
           /\ Rebuilt(s).words = Contents(s.rows) /\ Rebuilt(s).pending = s.pending
           /\ Rebuilt(s).au = s.au /\ Rebuilt(s).columns = s.columns /\ Rebuilt(s).table = s.table
<1>1. Contents(s.rows) \in SUBSET (Nat \X Texts)
  BY ContentsTyped DEF StoreOK, BootStore
<1> QED
  BY <1>1, KeptIsReflexive DEF StoreOK, BootStore, WordsKept, Better, Rebuilt

LEMMA IndexesMade ==
    ASSUME NEW s, StoreOK(s)
    PROVE  /\ Better(s, Indexed(s)) /\ Indexed(s).ai = s.ai /\ Indexed(s).rows = s.rows
           /\ Indexed(s).words = s.words /\ Indexed(s).pending = s.pending
           /\ Indexed(s).au = s.au /\ Indexed(s).columns = s.columns
<1> DEFINE a == s.uniqText \/ ~TextCollision(s.rows)
           b == s.uniqMsg \/ ~MsgCollision(s.rows)
<1>1. a \in BOOLEAN /\ b \in BOOLEAN
  BY Zenon DEF StoreOK, BootStore
<1>2. Indexed(s) = [s EXCEPT !.uniqText = a, !.uniqMsg = b]
  BY DEF Indexed, StoreOK, BootStore
<1> HIDE DEF a, b
<1> QED
  BY <1>1, <1>2, KeptIsReflexive DEF StoreOK, BootStore, WordsKept, Better

\* Of each group of copies one row is left.
LEMMA CopiesCollapsed ==
    ASSUME NEW s, StoreOK(s)
    PROVE  /\ Better(s, Collapsed(s)) /\ Collapsed(s).ai = s.ai /\ Collapsed(s).pending = s.pending
           /\ Collapsed(s).au = s.au /\ Collapsed(s).columns = s.columns
           /\ s.ai /\ s.words = Contents(s.rows) => Collapsed(s).words = Contents(Collapsed(s).rows)
<1> DEFINE r    == s.rows
           gone == CollapsedIds(r)
           left == [i \in DOMAIN r \ gone |-> r[i]]
           kept == IF s.ai THEN {w \in s.words : w[1] \notin gone} ELSE s.words
<1>1. r \in RowTables /\ DOMAIN r \subseteq Nat /\ IsFiniteSet(DOMAIN r) /\ r \in [DOMAIN r -> BootRow]
  BY OfTable DEF StoreOK, BootStore
<1>2. ASSUME NEW i \in DOMAIN r
      PROVE  KeptRow(r, SharingText(r, i)) \in SharingText(r, i)
  <2> DEFINE all == SharingText(r, i)
             locked == {j \in all : r[j].locked}
  <2>1. all \subseteq Nat /\ IsFiniteSet(all) /\ i \in all
    <3>1. all \subseteq DOMAIN r /\ i \in all
      BY DEF SharingText
    <3> QED
      BY <1>1, <3>1, FS_Subset
  <2>2. locked \subseteq Nat /\ IsFiniteSet(locked) /\ locked \subseteq all
    BY <2>1, FS_Subset
  <2>3. locked # {} => Min(locked) \in all
    BY <2>2, LeastId
  <2>4. Min(all) \in all
    BY <2>1, LeastId
  <2>5. KeptRow(r, all) = IF locked = {} THEN Min(all) ELSE Min(locked)
    BY DEF KeptRow
  <2> QED
    BY <2>3, <2>4, <2>5
<1>3. ASSUME NEW i \in DOMAIN r
      PROVE  \E j \in DOMAIN r \ gone : r[j].text = r[i].text
  <2>1. PICK j : j = KeptRow(r, SharingText(r, i))
    OBVIOUS
  <2>2. j \in DOMAIN r /\ r[j].text = r[i].text
    BY <1>2, <2>1 DEF SharingText
  <2>3. SharingText(r, j) = SharingText(r, i)
    BY <2>2 DEF SharingText
  <2>4. j \notin gone
    BY <2>1, <2>3 DEF CollapsedIds
  <2> QED
    BY <2>2, <2>4
<1>4. \A i \in DOMAIN r : r[i].locked => i \notin gone
  BY DEF CollapsedIds
<1>5. DOMAIN left = DOMAIN r \ gone /\ \A i \in DOMAIN left : left[i] = r[i]
  OBVIOUS
<1>6. left \in RowTables
  <2>1. DOMAIN r \ gone \subseteq Nat /\ IsFiniteSet(DOMAIN r \ gone)
    BY <1>1, FS_Subset
  <2>2. left \in [DOMAIN r \ gone -> BootRow]
    BY <1>1
  <2> QED
    BY <2>1, <2>2, TableOf
<1>7. RowsKept(r, left)
  <2>1. ASSUME NEW x PROVE x \in {r[i].text : i \in DOMAIN r} <=> x \in {left[i].text : i \in DOMAIN left}
    <3>1. ASSUME NEW i \in DOMAIN r, x = r[i].text PROVE \E j \in DOMAIN left : x = left[j].text
      BY <1>3, <1>5, <3>1
    <3>2. ASSUME NEW j \in DOMAIN left, x = left[j].text PROVE \E i \in DOMAIN r : x = r[i].text
      BY <1>5, <3>2
    <3> QED
      BY <3>1, <3>2
  <2> QED
    BY <1>4, <1>5, <2>1 DEF RowsKept
<1>8. s.ai /\ s.words = Contents(r) => kept = Contents(left)
  <2> SUFFICES ASSUME s.ai, s.words = Contents(r) PROVE kept = Contents(left)
    OBVIOUS
  <2> QED
    BY ContentsLeft
<1>9. kept \in SUBSET (Nat \X Texts)
  BY DEF StoreOK, BootStore
<1>10. Collapsed(s) = [s EXCEPT !.rows = left, !.words = kept]
  BY DEF Collapsed, StoreOK, BootStore
<1> HIDE DEF gone, left, kept
<1> QED
  BY <1>6, <1>7, <1>8, <1>9, <1>10 DEF StoreOK, BootStore, WordsKept, Better

\* Message ids are blanked where no row is locked, and no text with them.
LEMMA MsgsBlanked ==
    ASSUME NEW s, StoreOK(s)
    PROVE  /\ Better(s, Blanked(s)) /\ Blanked(s).ai = s.ai /\ Blanked(s).pending = s.pending
           /\ Blanked(s).au = s.au /\ Blanked(s).columns = s.columns
           /\ Blanked(s).words = s.words /\ Contents(Blanked(s).rows) = Contents(s.rows)
<1> DEFINE r == s.rows
           hit(i) == ~r[i].locked /\ r[i].msg # NoMsgId /\ i # MsgKeptOf(r, SharingMsg(r, i))
           rest == [i \in DOMAIN r |-> IF hit(i) THEN [r[i] EXCEPT !.msg = NoMsgId] ELSE r[i]]
<1>1. r \in RowTables /\ DOMAIN r \subseteq Nat /\ IsFiniteSet(DOMAIN r) /\ r \in [DOMAIN r -> BootRow]
  BY OfTable DEF StoreOK, BootStore
<1>2. Blanked(s) = [s EXCEPT !.rows = rest]
  BY DEF Blanked
<1>3. \A i \in DOMAIN r : r[i].locked => ~hit(i)
  OBVIOUS
<1> HIDE DEF hit
<1>4. DOMAIN rest = DOMAIN r /\ \A i \in DOMAIN r : rest[i] \in BootRow /\ rest[i].text = r[i].text
                                                   /\ (r[i].locked => rest[i] = r[i])
  BY <1>1, <1>3 DEF BootRow
<1>5. rest \in RowTables
  <2>1. rest \in [DOMAIN r -> BootRow]
    BY <1>4
  <2> QED
    BY <1>1, <2>1, TableOf
<1> HIDE DEF rest
<1>6. RowsKept(r, rest)
  BY <1>4 DEF RowsKept
<1>7. Contents(rest) = Contents(r)
  BY <1>4 DEF Contents
<1> QED
  BY <1>2, <1>5, <1>6, <1>7 DEF StoreOK, BootStore, WordsKept, Better

----------------------------------------------------------------------------
(* The steps.                                                              *)

BothStores == StoreOK(disk) /\ StoreOK(work) /\ RowsKept(disk.rows, work.rows)

LEMMA StatementKeeps ==
    ASSUME BothStores, NEW t, StoreOK(t), RowsKept(work.rows, t.rows),
           Executed(t) \/ RowsWritten(t) \/ Scripted(t) \/ Committed(t)
    PROVE  BothStores' /\ RowsKept(disk.rows, disk'.rows) /\ work' = t
<1>1. work' = t /\ disk' \in {disk, t}
  BY DEF Executed, RowsWritten, Scripted, Committed
<1>2. RowsKept(disk.rows, t.rows)
  BY KeptIsTransitive DEF BothStores
<1>3. StoreOK(disk') /\ RowsKept(disk.rows, disk'.rows) /\ RowsKept(disk'.rows, t.rows)
  BY <1>1, <1>2, KeptIsReflexive DEF BothStores
<1> QED
  BY <1>1, <1>3 DEF BothStores

LEMMA UntouchedKeeps ==
    ASSUME BothStores, Untouched
    PROVE  BothStores' /\ RowsKept(disk.rows, disk'.rows) /\ work' = work
BY KeptIsReflexive DEF BothStores, Untouched

\* A conditional statement.
LEMMA PerhapsKeeps ==
    ASSUME BothStores, NEW t, Better(work, t), NEW c \in BOOLEAN,
           IF c THEN Executed(t) \/ RowsWritten(t) \/ Scripted(t) \/ Committed(t) ELSE Untouched
    PROVE  /\ BothStores' /\ RowsKept(disk.rows, disk'.rows)
           /\ work' = (IF c THEN t ELSE work) /\ work'.version = work.version
<1>1. CASE c
  BY <1>1, StatementKeeps DEF Better
<1>2. CASE ~c
  BY <1>2, UntouchedKeeps
<1> QED
  BY <1>1, <1>2

Kept == BootInv' /\ RowsKept(disk.rows, disk'.rows)

LEMMA StartKeeps ==
    ASSUME BootInv, NEW fts \in BOOLEAN, StartBoot(fts)
    PROVE  Kept
<1>1. disk' = disk /\ work' = disk /\ at' = IF fts THEN "probe" ELSE "columns"
  BY DEF StartBoot
<1>2. boot' = [fts |-> fts, needed |-> FALSE, failed |-> FALSE, current |-> disk.version]
  BY DEF StartBoot
<1>3. boot' \in BootFlags
  BY <1>2 DEF BootInv, StoreOK, BootStore, BootFlags
<1>4. StoreOK(disk') /\ StoreOK(work') /\ RowsKept(disk'.rows, work'.rows) /\ RowsKept(disk.rows, disk'.rows)
  BY <1>1, KeptIsReflexive DEF BootInv
<1>5. FtsReady' /\ TriggersMade' /\ ColumnsMade'
  BY <1>1, <1>2 DEF FtsReady, TriggersMade, ColumnsMade, FtsPlaces, LadderPlaces, EndPlaces
<1> QED
  BY <1>1, <1>3, <1>4, <1>5 DEF Kept, BootInv, Places, LadderPlaces

LEMMA ProbeKeeps ==
    ASSUME BootInv, ProbeFts
    PROVE  Kept
<1> DEFINE stale == StaleTriggers(work)
           needed == ~work.table \/ work.pending \/ stale
           t == [work EXCEPT !.au = IF stale THEN "none" ELSE @]
<1>1. at = "probe" /\ at' = "arm" /\ boot' = [boot EXCEPT !.needed = needed] /\ Executed(t)
  BY DEF ProbeFts
<1>2. stale \in BOOLEAN /\ needed \in BOOLEAN /\ work \in BootStore /\ boot \in BootFlags /\ boot.fts
  BY <1>1 DEF StaleTriggers, BootInv, StoreOK, BootStore, FtsReady
<1>3. boot' \in BootFlags /\ boot'.fts /\ boot'.needed = needed /\ boot'.failed = boot.failed /\ boot'.current = boot.current
  BY <1>1, <1>2 DEF BootFlags
<1>4. t = IF stale THEN [work EXCEPT !.au = "none"] ELSE work
  BY <1>2 DEF BootStore
<1>5. Better(work, t) /\ t.ai = work.ai /\ t.words = work.words /\ t.rows = work.rows /\ t.au # "wide"
  <2>1. CASE stale
    BY <1>4, <2>1, TriggerDropped DEF BootInv
  <2>2. CASE ~stale
    <3>1. Better(work, work)
      BY KeptIsReflexive DEF BootInv, Better
    <3>2. work.au # "wide"
      BY <2>2 DEF StaleTriggers, BootInv, StoreOK, BootStore
    <3> QED
      BY <1>4, <2>2, <3>1, <3>2
  <2> QED
    BY <2>1, <2>2
<1>6. ~needed => work.ai /\ work.words = Contents(work.rows)
  BY <1>2 DEF StaleTriggers, BootInv, StoreOK, WordsKept, BootStore
<1> HIDE DEF stale, needed, t
<1>7. BothStores' /\ RowsKept(disk.rows, disk'.rows) /\ work' = t
  BY <1>1, <1>5, StatementKeeps DEF BootInv, BothStores, Better
<1>8. work'.version = boot'.current
  BY <1>1, <1>3, <1>5, <1>7 DEF Better, BootInv, ColumnsMade
<1>9. FtsReady' /\ TriggersMade' /\ ColumnsMade'
  BY <1>1, <1>3, <1>5, <1>6, <1>7, <1>8 DEF FtsReady, TriggersMade, ColumnsMade, FtsPlaces, LadderPlaces, EndPlaces
<1> QED
  BY <1>1, <1>3, <1>7, <1>9 DEF Kept, BootInv, BothStores, Places, FtsPlaces

LEMMA ArmKeeps ==
    ASSUME BootInv, ArmBackfill
    PROVE  Kept
<1>1. at = "arm" /\ at' = "table" /\ UNCHANGED boot /\ boot.needed \in BOOLEAN
      /\ IF boot.needed THEN Committed(Armed(work)) ELSE Untouched
  BY DEF ArmBackfill, Goto, BootInv, BootFlags
<1>2. Better(work, Armed(work)) /\ Armed(work).ai = work.ai /\ Armed(work).words = work.words
      /\ Armed(work).rows = work.rows /\ Armed(work).pending /\ Armed(work).au = work.au
  BY ArmedStore DEF BootInv
<1>3. /\ BothStores' /\ RowsKept(disk.rows, disk'.rows)
      /\ work' = (IF boot.needed THEN Armed(work) ELSE work) /\ work'.version = work.version
  BY <1>1, <1>2, PerhapsKeeps DEF BootInv, BothStores
<1>4. FtsReady'
  BY <1>1, <1>2, <1>3 DEF BootInv, FtsReady, FtsPlaces, LadderPlaces
<1>5. TriggersMade' /\ ColumnsMade'
  BY <1>1, <1>2, <1>3 DEF BootInv, TriggersMade, ColumnsMade, FtsPlaces, LadderPlaces, EndPlaces
<1> QED
  BY <1>1, <1>3, <1>4, <1>5 DEF Kept, BootInv, BothStores, Places, FtsPlaces

LEMMA TableKeeps ==
    ASSUME BootInv, CreateFtsTable
    PROVE  Kept
<1>1. at = "table" /\ at' = "triggers" /\ UNCHANGED boot /\ Scripted(WithTable(work))
  BY DEF CreateFtsTable, Goto
<1>2. Better(work, WithTable(work)) /\ WithTable(work).ai = work.ai /\ WithTable(work).rows = work.rows
      /\ WithTable(work).au = work.au /\ WithTable(work).pending = work.pending
      /\ (work.ai => WithTable(work).words = work.words) /\ WithTable(work).table
  BY TableMade DEF BootInv
<1>3. BothStores' /\ RowsKept(disk.rows, disk'.rows) /\ work' = WithTable(work) /\ work'.version = work.version
  BY <1>1, <1>2, StatementKeeps DEF BootInv, BothStores, Better
<1>4. FtsReady'
  BY <1>1, <1>2, <1>3 DEF BootInv, FtsReady, FtsPlaces, LadderPlaces
<1>5. TriggersMade' /\ ColumnsMade'
  BY <1>1, <1>2, <1>3 DEF BootInv, TriggersMade, ColumnsMade, FtsPlaces, LadderPlaces, EndPlaces
<1> QED
  BY <1>1, <1>3, <1>4, <1>5 DEF Kept, BootInv, BothStores, Places, FtsPlaces

LEMMA TriggersKeep ==
    ASSUME BootInv, CreateFtsTriggers
    PROVE  Kept
<1>1. at = "triggers" /\ at' = "columns" /\ UNCHANGED boot /\ Scripted(WithTriggers(work))
  BY DEF CreateFtsTriggers, Goto
<1>2. boot.fts /\ work.table /\ work.au # "wide"
      /\ IF boot.needed THEN work.pending ELSE work.ai /\ work.words = Contents(work.rows)
  BY <1>1 DEF BootInv, FtsReady, TriggersMade, FtsPlaces
<1>3. Better(work, WithTriggers(work)) /\ WithTriggers(work).ai /\ WithTriggers(work).rows = work.rows
      /\ WithTriggers(work).au = "scoped" /\ WithTriggers(work).pending = work.pending
      /\ WithTriggers(work).words = work.words
  BY <1>2, TriggersSet DEF BootInv
<1>4. BothStores' /\ RowsKept(disk.rows, disk'.rows) /\ work' = WithTriggers(work) /\ work'.version = work.version
  BY <1>1, <1>3, StatementKeeps DEF BootInv, BothStores, Better
<1>5. FtsReady'
  BY <1>1, <1>2, <1>3, <1>4 DEF FtsReady, FtsPlaces, LadderPlaces
<1>6. TriggersMade' /\ ColumnsMade'
  BY <1>1, <1>3, <1>4 DEF BootInv, TriggersMade, ColumnsMade, FtsPlaces, LadderPlaces, EndPlaces
<1> QED
  BY <1>1, <1>4, <1>5, <1>6 DEF Kept, BootInv, BothStores, Places, LadderPlaces

\* A step of the ladder that leaves the index as good as it was.
LEMMA LadderMoves ==
    ASSUME BootInv, UNCHANGED boot, BothStores', at \in LadderPlaces,
           at' \in (LadderPlaces \ {"columns"}) \cup {"rebuild"}, at' \in {"narrow", "narrowed"} => boot.fts,
           work'.version = work.version, work'.pending = work.pending,
           work.ai => work'.ai,
           work.ai /\ work.words = Contents(work.rows) => work'.words = Contents(work'.rows),
           boot.fts /\ ~boot.failed => work'.au = (IF at' = "narrowed" THEN "none" ELSE "scoped"),
           ~boot.failed => \A v \in ColumnSteps : v <= 10 => v \in work'.columns,
           ~boot.failed /\ at' = "rebuild" => work'.columns = ColumnSteps
    PROVE  BootInv'
<1>1. FtsReady'
  BY DEF BootInv, FtsReady, FtsPlaces, LadderPlaces
<1>2. TriggersMade'
  BY DEF BootInv, TriggersMade, FtsPlaces, LadderPlaces
<1>3. ColumnsMade'
  BY DEF BootInv, ColumnsMade, FtsPlaces, LadderPlaces, EndPlaces
<1> QED
  BY <1>1, <1>2, <1>3 DEF BootInv, BothStores, Places, EndPlaces

\* What a step of the ladder starts from.
LEMMA LadderStarts ==
    ASSUME BootInv, at \in LadderPlaces
    PROVE  /\ BothStores /\ work.version = boot.current /\ boot \in BootFlags
           /\ boot.fts => IF boot.needed THEN work.pending ELSE work.ai /\ work.words = Contents(work.rows)
           /\ boot.fts /\ ~boot.failed => work.ai /\ work.au = (IF at = "narrowed" THEN "none" ELSE "scoped")
           /\ ~boot.failed /\ at # "columns" => \A v \in ColumnSteps : v <= 10 => v \in work.columns
BY DEF BootInv, BothStores, FtsReady, TriggersMade, ColumnsMade, LadderPlaces

LEMMA ColumnsKeep ==
    ASSUME BootInv, LadderColumns
    PROVE  Kept
<1> DEFINE t == WithColumns(work, 10)
<1>1. at = "columns" /\ at' = "ladder11" /\ UNCHANGED boot /\ Executed(t)
  BY DEF LadderColumns, Goto
<1>2. at \in LadderPlaces
  BY <1>1 DEF LadderPlaces
<1>3. /\ Better(work, t) /\ t.ai = work.ai /\ t.rows = work.rows
      /\ t.words = work.words /\ t.pending = work.pending /\ t.au = work.au
      /\ \A v \in ColumnSteps : v \in work.columns => v \in t.columns
      /\ \A v \in ColumnSteps : boot.current < v /\ v <= 10 => v \in t.columns
  BY ColumnsAdded DEF BootInv
<1> HIDE DEF t
<1>4. BothStores' /\ RowsKept(disk.rows, disk'.rows) /\ work' = t /\ work'.version = work.version
  BY <1>1, <1>3, StatementKeeps DEF BootInv, BothStores, Better
<1>5. \A v \in ColumnSteps : v <= 10 => v \in work'.columns
  <2> SUFFICES ASSUME NEW v \in ColumnSteps, v <= 10 PROVE v \in t.columns
    BY <1>4
  <2>1. v \in Nat /\ work.version \in Nat
    BY DEF ColumnSteps, BootInv, StoreOK, BootStore
  <2>2. CASE v <= work.version
    BY <1>3, <2>2 DEF BootInv, StoreOK
  <2>3. CASE work.version < v
    BY <1>2, <1>3, <2>3, LadderStarts
  <2> QED
    BY <2>1, <2>2, <2>3
<1> QED
  BY <1>1, <1>2, <1>3, <1>4, <1>5, LadderMoves, LadderStarts DEF LadderPlaces, Kept

LEMMA Ladder11Keeps ==
    ASSUME BootInv, Ladder11
    PROVE  Kept
<1> DEFINE t1 == WithTable(work)
           t2 == WithTriggers(t1)
           t  == Rebuilt(t2)
           c  == boot.current < 11 /\ boot.fts
<1>1. at = "ladder11" /\ at' = "ladder12" /\ UNCHANGED boot /\ IF c THEN RowsWritten(t) ELSE Untouched
  BY DEF Ladder11, Goto
<1>2. at \in LadderPlaces
  BY <1>1 DEF LadderPlaces
<1>3. CASE c
  <2>1. work.pending \/ work.words = Contents(work.rows)
    BY <1>2, <1>3, LadderStarts
  <2>2. Better(work, t1) /\ t1.ai = work.ai /\ t1.rows = work.rows /\ t1.table /\ t1.columns = work.columns
        /\ t1.au = work.au /\ t1.pending = work.pending /\ (work.ai => t1.words = work.words)
    BY TableMade DEF BootInv
  <2>3. boot.fts => t1.pending \/ t1.words = Contents(t1.rows)
    BY <1>2, <1>3, <2>2, LadderStarts
  <2>4. Better(t1, t2) /\ t2.ai /\ t2.rows = t1.rows /\ t2.columns = t1.columns /\ t2.pending = t1.pending
        /\ (t1.au # "wide" => t2.au = "scoped")
    BY <1>3, <2>2, <2>3, TriggersSet DEF Better
  <2>5. Better(t2, t) /\ t.ai = t2.ai /\ t.rows = t2.rows /\ t.words = Contents(t2.rows) /\ t.pending = t2.pending
        /\ t.au = t2.au /\ t.columns = t2.columns
    BY <2>4, IndexFilled DEF Better
  <2> HIDE DEF t1, t2, t
  <2>6. StoreOK(t) /\ RowsKept(work.rows, t.rows) /\ t.version = work.version
    BY <2>2, <2>4, <2>5 DEF Better
  <2>7. BothStores' /\ RowsKept(disk.rows, disk'.rows) /\ work' = t
    BY <1>1, <1>3, <2>6, StatementKeeps DEF BootInv, BothStores
  <2>8. work'.words = Contents(work'.rows) /\ work'.ai /\ work'.pending = work.pending /\ work'.columns = work.columns
        /\ work'.version = work.version /\ (~boot.failed => work'.au = "scoped")
    BY <1>1, <1>2, <1>3, <2>2, <2>4, <2>5, <2>6, <2>7, LadderStarts
  <2> QED
    BY <1>1, <1>2, <2>7, <2>8, LadderMoves, LadderStarts DEF LadderPlaces, Kept
<1>4. CASE ~c
  <2>1. BothStores' /\ RowsKept(disk.rows, disk'.rows) /\ work' = work
    BY <1>1, <1>4, UntouchedKeeps DEF BootInv, BothStores
  <2> QED
    BY <1>1, <1>2, <2>1, LadderMoves, LadderStarts DEF LadderPlaces, Kept
<1> QED
  BY <1>3, <1>4

LEMMA Ladder12Keeps ==
    ASSUME BootInv, Ladder12 \/ LadderBlank
    PROVE  Kept
<1> DEFINE c == boot.current < 12
<1>1. PICK t \in {Collapsed(work), Blanked(work)} :
        /\ at \in {"ladder12", "blank"} /\ at' \in {"blank", "index12"} /\ UNCHANGED boot
        /\ IF c THEN RowsWritten(t) ELSE Untouched
  <2>1. CASE Ladder12
    BY <2>1 DEF Ladder12, Goto
  <2>2. CASE LadderBlank
    BY <2>2 DEF LadderBlank, Goto
  <2> QED
    BY <2>1, <2>2
<1>2. at \in LadderPlaces
  BY <1>1 DEF LadderPlaces
<1>3. /\ Better(work, t) /\ t.ai = work.ai /\ t.pending = work.pending
      /\ t.au = work.au /\ t.columns = work.columns
      /\ work.ai /\ work.words = Contents(work.rows) => t.words = Contents(t.rows)
  <2>1. CASE t = Collapsed(work)
    BY <2>1, CopiesCollapsed DEF BootInv
  <2>2. CASE t = Blanked(work)
    BY <2>2, MsgsBlanked DEF BootInv
  <2> QED
    BY <1>1, <2>1, <2>2
<1>4. c \in BOOLEAN
  BY DEF BootInv, BootFlags
<1> HIDE DEF c
<1>5. /\ BothStores' /\ RowsKept(disk.rows, disk'.rows)
      /\ work' = (IF c THEN t ELSE work) /\ work'.version = work.version
  BY <1>1, <1>3, <1>4, PerhapsKeeps DEF BootInv, BothStores
<1> QED
  BY <1>1, <1>2, <1>3, <1>5, LadderMoves, LadderStarts DEF LadderPlaces, Kept

LEMMA IndexesKeep ==
    ASSUME BootInv, LadderIndexes
    PROVE  Kept
<1> DEFINE t == Indexed(work)
           c == boot.current < 12
<1>1. /\ at = "index12" /\ at' = (IF boot.current < 13 /\ boot.fts THEN "narrow" ELSE "ladder18") /\ UNCHANGED boot
      /\ IF c THEN Executed(t) ELSE Untouched
  BY DEF LadderIndexes, Goto
<1>2. at \in LadderPlaces
  BY <1>1 DEF LadderPlaces
<1>3. /\ Better(work, t) /\ t.ai = work.ai /\ t.rows = work.rows
      /\ t.words = work.words /\ t.pending = work.pending
      /\ t.au = work.au /\ t.columns = work.columns
  BY IndexesMade DEF BootInv
<1>4. c \in BOOLEAN
  BY DEF BootInv, BootFlags
<1> HIDE DEF t, c
<1>5. /\ BothStores' /\ RowsKept(disk.rows, disk'.rows)
      /\ work' = (IF c THEN t ELSE work) /\ work'.version = work.version
  BY <1>1, <1>3, <1>4, PerhapsKeeps DEF BootInv, BothStores
<1>6. at' \in {"narrow", "ladder18"} /\ (at' = "narrow" => boot.fts)
  BY <1>1
<1> QED
  BY <1>1, <1>2, <1>3, <1>5, <1>6, LadderMoves, LadderStarts DEF LadderPlaces, Kept

LEMMA DropKeeps ==
    ASSUME BootInv, DropUpdateTrigger
    PROVE  Kept
<1> DEFINE t == [work EXCEPT !.au = "none"]
<1>1. at = "narrow" /\ at' = "narrowed" /\ UNCHANGED boot /\ Executed(t)
  BY DEF DropUpdateTrigger, Goto
<1>2. at \in LadderPlaces /\ boot.fts
  BY <1>1 DEF LadderPlaces, BootInv, FtsReady
<1>3. Better(work, t) /\ t.ai = work.ai /\ t.words = work.words /\ t.rows = work.rows
      /\ t.pending = work.pending /\ t.columns = work.columns /\ t.au = "none"
  BY TriggerDropped DEF BootInv
<1> HIDE DEF t
<1>4. BothStores' /\ RowsKept(disk.rows, disk'.rows) /\ work' = t /\ work'.version = work.version
  BY <1>1, <1>3, StatementKeeps DEF BootInv, BothStores, Better
<1> QED
  BY <1>1, <1>2, <1>3, <1>4, LadderMoves, LadderStarts DEF LadderPlaces, Kept

LEMMA NarrowKeeps ==
    ASSUME BootInv, NarrowTrigger
    PROVE  Kept
<1> DEFINE t1 == WithTable(work)
           t  == WithTriggers(t1)
<1>1. at = "narrowed" /\ at' = "ladder18" /\ UNCHANGED boot /\ Scripted(t)
  BY DEF NarrowTrigger, Goto
<1>2. at \in LadderPlaces /\ boot.fts
  BY <1>1 DEF LadderPlaces, BootInv, FtsReady
<1>3. Better(work, t1) /\ t1.ai = work.ai /\ t1.rows = work.rows /\ t1.table /\ t1.columns = work.columns
      /\ t1.au = work.au /\ t1.pending = work.pending /\ (work.ai => t1.words = work.words)
  BY TableMade DEF BootInv
<1>4. t1.pending \/ t1.words = Contents(t1.rows)
  BY <1>2, <1>3, LadderStarts
<1>5. Better(t1, t) /\ t.ai /\ t.rows = t1.rows /\ t.columns = t1.columns /\ t.pending = t1.pending
      /\ t.words = t1.words /\ (t1.au # "wide" => t.au = "scoped")
  BY <1>3, <1>4, TriggersSet DEF Better
<1> HIDE DEF t1, t
<1>6. StoreOK(t) /\ RowsKept(work.rows, t.rows) /\ t.version = work.version
  BY <1>3, <1>5 DEF Better
<1>7. BothStores' /\ RowsKept(disk.rows, disk'.rows) /\ work' = t
  BY <1>1, <1>6, StatementKeeps DEF BootInv, BothStores
<1>8. ~boot.failed => work.au # "wide"
  BY <1>1, <1>2, LadderStarts DEF BootInv
<1> QED
  BY <1>1, <1>2, <1>3, <1>5, <1>6, <1>7, <1>8, LadderMoves, LadderStarts DEF LadderPlaces, Kept

LEMMA Ladder18Keeps ==
    ASSUME BootInv, Ladder18
    PROVE  Kept
<1> DEFINE t == WithColumns(work, 18)
<1>1. at = "ladder18" /\ at' = "rebuild" /\ UNCHANGED boot /\ Executed(t)
  BY DEF Ladder18, Goto
<1>2. at \in LadderPlaces
  BY <1>1 DEF LadderPlaces
<1>3. /\ Better(work, t) /\ t.ai = work.ai /\ t.rows = work.rows
      /\ t.words = work.words /\ t.pending = work.pending /\ t.au = work.au
      /\ \A v \in ColumnSteps : v \in work.columns => v \in t.columns
      /\ \A v \in ColumnSteps : boot.current < v /\ v <= 18 => v \in t.columns
  BY ColumnsAdded DEF BootInv
<1> HIDE DEF t
<1>4. BothStores' /\ RowsKept(disk.rows, disk'.rows) /\ work' = t /\ work'.version = work.version
  BY <1>1, <1>3, StatementKeeps DEF BootInv, BothStores, Better
<1>5. work'.columns = ColumnSteps
  <2>1. t.columns \subseteq ColumnSteps
    BY <1>3 DEF Better, StoreOK, BootStore
  <2> SUFFICES ASSUME NEW v \in ColumnSteps PROVE v \in t.columns
    BY <1>4, <2>1
  <2>2. v \in Nat /\ work.version \in Nat /\ v <= 18
    BY DEF ColumnSteps, BootInv, StoreOK, BootStore
  <2>3. CASE v <= work.version
    BY <1>3, <2>3 DEF BootInv, StoreOK
  <2>4. CASE work.version < v
    BY <1>2, <1>3, <2>2, <2>4, LadderStarts
  <2> QED
    BY <2>2, <2>3, <2>4
<1> QED
  BY <1>1, <1>2, <1>3, <1>4, <1>5, LadderMoves, LadderStarts DEF LadderPlaces, Kept

LEMMA FailureKeeps ==
    ASSUME BootInv, LadderFails
    PROVE  Kept
<1>1. at \in LadderPlaces /\ at' = "rebuild" /\ disk' = disk /\ work' = work /\ boot' = [boot EXCEPT !.failed = TRUE]
  BY DEF LadderFails
<1>2. boot' \in BootFlags /\ boot'.failed /\ boot'.fts = boot.fts /\ boot'.needed = boot.needed /\ boot'.current = boot.current
  BY <1>1 DEF BootInv, BootFlags
<1>3. FtsReady' /\ TriggersMade' /\ ColumnsMade'
  BY <1>1, <1>2 DEF BootInv, FtsReady, TriggersMade, ColumnsMade, FtsPlaces, LadderPlaces, EndPlaces
<1> QED
  BY <1>1, <1>2, <1>3, KeptIsReflexive DEF Kept, BootInv, Places, EndPlaces

\* A step past the ladder.
LEMMA EndMoves ==
    ASSUME BootInv, UNCHANGED boot, BothStores', at \in EndPlaces, at' \in {"dedup", "indexes", "stamp", "up"},
           work'.ai = work.ai, work'.au = work.au, work'.columns = work.columns,
           at' # "up" => work'.version = work.version
    PROVE  BootInv'
<1>1. FtsReady' /\ TriggersMade' /\ ColumnsMade'
  BY DEF BootInv, FtsReady, TriggersMade, ColumnsMade, FtsPlaces, LadderPlaces, EndPlaces
<1> QED
  BY <1>1 DEF BootInv, BothStores, Places, EndPlaces

LEMMA RebuildKeeps ==
    ASSUME BootInv, RebuildFts \/ RebuildFails
    PROVE  Kept
<1> DEFINE c == boot.fts /\ boot.needed
           t == [Rebuilt(work) EXCEPT !.pending = FALSE]
<1>1. c \in BOOLEAN
  BY DEF BootInv, BootFlags
<1>2. Better(work, t) /\ t.ai = work.ai /\ t.au = work.au /\ t.columns = work.columns
  <2>1. PICK u : u = Rebuilt(work)
    OBVIOUS
  <2>2. /\ Better(work, u) /\ u.ai = work.ai /\ u.rows = work.rows
        /\ u.words = Contents(work.rows) /\ u.au = work.au /\ u.columns = work.columns
    BY <2>1, IndexFilled DEF BootInv
  <2> QED
    BY <2>1, <2>2 DEF Better, StoreOK, BootStore, WordsKept
<1>3. Better(work, Armed(work)) /\ Armed(work).ai = work.ai /\ Armed(work).au = work.au /\ Armed(work).columns = work.columns
  BY ArmedStore DEF BootInv
<1>4. CASE RebuildFts
  <2>1. at = "rebuild" /\ at' = "dedup" /\ UNCHANGED boot /\ IF c THEN Committed(t) ELSE Untouched
    BY <1>4 DEF RebuildFts, Goto
  <2> HIDE DEF c, t
  <2>2. /\ BothStores' /\ RowsKept(disk.rows, disk'.rows)
        /\ work' = (IF c THEN t ELSE work) /\ work'.version = work.version
    BY <1>1, <1>2, <2>1, PerhapsKeeps DEF BootInv, BothStores
  <2> QED
    BY <1>2, <2>1, <2>2, EndMoves DEF EndPlaces, Kept
<1>5. CASE RebuildFails
  <2>1. at = "rebuild" /\ at' = "dedup" /\ UNCHANGED boot /\ Executed(Armed(work))
    BY <1>5 DEF RebuildFails, Goto
  <2>2. BothStores' /\ RowsKept(disk.rows, disk'.rows) /\ work' = Armed(work) /\ work'.version = work.version
    BY <1>3, <2>1, StatementKeeps DEF BootInv, BothStores, Better
  <2> QED
    BY <1>3, <2>1, <2>2, EndMoves DEF EndPlaces, Kept
<1> QED
  BY <1>4, <1>5

LEMMA ClosingKeeps ==
    ASSUME BootInv, EnsureDedup \/ PlainIndexes
    PROVE  Kept
<1>1. PICK t \in {Indexed(work), work} :
        at \in {"dedup", "indexes"} /\ at' \in {"indexes", "stamp"} /\ UNCHANGED boot /\ (Executed(t) \/ Scripted(t))
  <2>1. CASE EnsureDedup
    BY <2>1 DEF EnsureDedup, Goto
  <2>2. CASE PlainIndexes
    BY <2>2 DEF PlainIndexes, Goto
  <2> QED
    BY <2>1, <2>2
<1>2. Better(work, t) /\ t.ai = work.ai /\ t.au = work.au /\ t.columns = work.columns
  <2>1. CASE t = Indexed(work)
    BY <2>1, IndexesMade DEF BootInv
  <2>2. CASE t = work
    BY <2>2, KeptIsReflexive DEF BootInv, Better
  <2> QED
    BY <2>1, <2>2
<1>3. BothStores' /\ RowsKept(disk.rows, disk'.rows) /\ work' = t /\ work'.version = work.version
  BY <1>1, <1>2, StatementKeeps DEF BootInv, BothStores, Better
<1> QED
  BY <1>1, <1>2, <1>3, EndMoves DEF EndPlaces, Kept

LEMMA StampKeeps ==
    ASSUME BootInv, StampVersion
    PROVE  Kept
<1> DEFINE t == [work EXCEPT !.version = Stamped(work)]
<1>1. at = "stamp" /\ at' = "up" /\ UNCHANGED boot /\ Committed(t)
  BY DEF StampVersion, Goto
<1>2. StoreOK(t) /\ RowsKept(work.rows, t.rows) /\ t.ai = work.ai /\ t.au = work.au /\ t.columns = work.columns
  <2>1. Stamped(work) \in Nat
    BY BootAssumption DEF Stamped, BootInv, StoreOK, BootStore
  <2>2. \A v \in ColumnSteps : v <= Stamped(work) => v \in work.columns
    BY <1>1 DEF Stamped, BootInv, StoreOK, ColumnsMade, EndPlaces
  <2>3. t \in BootStore /\ t.columns = work.columns /\ t.rows = work.rows /\ t.ai = work.ai /\ t.au = work.au
        /\ t.version = Stamped(work) /\ t.table = work.table /\ t.pending = work.pending /\ t.words = work.words
    BY <2>1 DEF BootInv, StoreOK, BootStore
  <2> HIDE DEF t
  <2>4. StoreOK(t)
    BY <2>2, <2>3 DEF BootInv, StoreOK, WordsKept
  <2> QED
    BY <2>3, <2>4, KeptIsReflexive
<1> HIDE DEF t
<1>3. BothStores' /\ RowsKept(disk.rows, disk'.rows) /\ work' = t
  BY <1>1, <1>2, StatementKeeps DEF BootInv, BothStores
<1> QED
  BY <1>1, <1>2, <1>3, EndMoves DEF EndPlaces, Kept

LEMMA EndKeeps ==
    ASSUME BootInv, ProcessEnds
    PROVE  Kept
<1>1. disk' = disk /\ work' = disk /\ at' = "down" /\ boot' = NoBoot
  BY DEF ProcessEnds
<1>2. NoBoot \in BootFlags
  BY DEF NoBoot, BootFlags
<1>3. FtsReady' /\ TriggersMade' /\ ColumnsMade'
  BY <1>1 DEF FtsReady, TriggersMade, ColumnsMade, FtsPlaces, LadderPlaces, EndPlaces
<1> QED
  BY <1>1, <1>2, <1>3, KeptIsReflexive DEF Kept, BootInv, Places

LEMMA FoundKeeps ==
    ASSUME BootInv, NEW s \in OldStores, NEW stale \in BOOLEAN, FoundStore(s, stale)
    PROVE  BootInv'
<1> DEFINE words == IF s.table /\ ~stale THEN Contents(s.rows) ELSE {}
           t == [s EXCEPT !.words = words]
<1>1. disk' = t /\ work' = t /\ at' = "down" /\ boot' = boot /\ (stale => s.au = "none")
  BY DEF FoundStore, Committed, Goto
<1>2. /\ s.version \in OldVersions /\ s.table \in BOOLEAN /\ s.ai = s.table /\ s.au \in {"none", "wide", "scoped"}
      /\ s.pending \in BOOLEAN /\ s.uniqText \in BOOLEAN /\ s.uniqMsg \in BOOLEAN
      /\ s.columns = {v \in ColumnSteps : v <= s.version} /\ (~s.table => s.au = "none")
      /\ s = [version |-> s.version, rows |-> s.rows, table |-> s.table, ai |-> s.ai, au |-> s.au, words |-> s.words,
              pending |-> s.pending, uniqText |-> s.uniqText, uniqMsg |-> s.uniqMsg, columns |-> s.columns]
  BY DEF OldStores
<1>3. s.rows \in RowTables
  <2>1. PICK n \in 0..2 : s.rows \in [1..n -> BootRow]
    BY DEF OldStores, BootRow
  <2>2. 1..n \subseteq Nat /\ IsFiniteSet(1..n)
    BY FS_Interval
  <2> QED
    BY <2>1, <2>2, TableOf
<1>4. words \in SUBSET (Nat \X Texts)
  BY <1>3, ContentsTyped
<1>5. s.version \in Nat
  BY <1>2, BootAssumption
<1>6. t = [version |-> s.version, rows |-> s.rows, table |-> s.table, ai |-> s.ai, au |-> s.au, words |-> words,
           pending |-> s.pending, uniqText |-> s.uniqText, uniqMsg |-> s.uniqMsg, columns |-> s.columns]
  BY <1>2
<1>7. s.table /\ s.au = "scoped" => words = Contents(s.rows)
  BY <1>1
<1> HIDE DEF words, t
<1>8. StoreOK(t)
  BY <1>2, <1>3, <1>4, <1>5, <1>6, <1>7 DEF StoreOK, BootStore, WordsKept
<1>9. FtsReady' /\ TriggersMade' /\ ColumnsMade'
  BY <1>1 DEF FtsReady, TriggersMade, ColumnsMade, FtsPlaces, LadderPlaces, EndPlaces
<1> QED
  BY <1>1, <1>8, <1>9, KeptIsReflexive DEF BootInv, Places

----------------------------------------------------------------------------
(* The writes of the running server.                                       *)

LEMMA WriteMoves ==
    ASSUME BootInv, at = "up", NEW t, StoreOK(t), t.ai = work.ai, t.au = work.au, Wrote(t)
    PROVE  BootInv'
<1>1. disk' = t /\ work' = t /\ at' = at /\ boot' = boot
  BY DEF Wrote, Committed
<1>2. FtsReady' /\ TriggersMade' /\ ColumnsMade'
  BY <1>1 DEF BootInv, FtsReady, TriggersMade, ColumnsMade, FtsPlaces, LadderPlaces, EndPlaces
<1> QED
  BY <1>1, <1>2, KeptIsReflexive DEF BootInv

LEMMA RowsWrittenWith ==
    ASSUME BootInv, at = "up", NEW t, NEW r \in RowTables, NEW words \in SUBSET (Nat \X Texts),
           t = [work EXCEPT !.rows = r, !.words = words],
           work.au # "none" /\ work.words = Contents(work.rows) => words = Contents(r), Wrote(t)
    PROVE  BootInv'
<1>1. StoreOK(t) /\ t.ai = work.ai /\ t.au = work.au
  BY DEF BootInv, StoreOK, BootStore, WordsKept
<1> QED
  BY <1>1, WriteMoves

LEMMA RowsOfWork ==
    ASSUME BootInv
    PROVE  /\ work.rows \in RowTables /\ DOMAIN work.rows \subseteq Nat /\ IsFiniteSet(DOMAIN work.rows)
           /\ work.rows \in [DOMAIN work.rows -> BootRow] /\ work.words \in SUBSET (Nat \X Texts) /\ work \in BootStore
           /\ work.au # "none" => work.ai
BY OfTable DEF BootInv, StoreOK, BootStore

LEMMA InsertKeeps ==
    ASSUME BootInv, NEW text \in Texts, NEW msg \in MsgIds \cup {NoMsgId}, InsertRow(text, msg)
    PROVE  BootInv'
<1> DEFINE free == (1..MaxRowIds + 1) \ DOMAIN work.rows
           new  == Min(free)
           r    == [i \in DOMAIN work.rows \cup {new} |->
                      IF i = new THEN [text |-> text, msg |-> msg, locked |-> FALSE] ELSE work.rows[i]]
           words == IF work.ai THEN work.words \cup {<<new, text>>} ELSE work.words
<1>1. at = "up" /\ Cardinality(DOMAIN work.rows) < MaxRowIds /\ Wrote([work EXCEPT !.rows = r, !.words = words])
  BY DEF InsertRow, Writable_
<1>2. new \in Nat /\ new \notin DOMAIN work.rows
  <2>1. IsFiniteSet(1..MaxRowIds + 1) /\ Cardinality(1..MaxRowIds + 1) = MaxRowIds + 1
    BY BootAssumption, FS_Interval
  <2>2. free # {}
    <3> SUFFICES ASSUME free = {} PROVE FALSE
      OBVIOUS
    <3>1. 1..MaxRowIds + 1 \subseteq DOMAIN work.rows
      OBVIOUS
    <3>2. IsFiniteSet(DOMAIN work.rows)
      BY RowsOfWork
    <3>3. Cardinality(1..MaxRowIds + 1) <= Cardinality(DOMAIN work.rows) /\ Cardinality(DOMAIN work.rows) \in Nat
      BY <3>1, <3>2, FS_Subset, FS_CardinalityType
    <3> QED
      BY <1>1, <2>1, <3>3, BootAssumption
  <2>3. free \subseteq 1..MaxRowIds + 1 /\ free \subseteq Nat
    OBVIOUS
  <2>4. IsFiniteSet(free)
    BY <2>1, <2>3, FS_Subset
  <2>5. new \in free
    BY <2>2, <2>3, <2>4, LeastId
  <2> QED
    BY <2>3, <2>5
<1> HIDE DEF new
<1>3. r \in RowTables
  <2>1. DOMAIN work.rows \cup {new} \subseteq Nat /\ IsFiniteSet(DOMAIN work.rows \cup {new})
    BY <1>2, RowsOfWork, FS_AddElement
  <2>2. r \in [DOMAIN work.rows \cup {new} -> BootRow]
    BY RowsOfWork DEF BootRow
  <2> QED
    BY <2>1, <2>2, TableOf
<1>4. Contents(r) = Contents(work.rows) \cup {<<new, text>>}
  BY <1>2 DEF Contents
<1>5. words \in SUBSET (Nat \X Texts)
  BY <1>2, RowsOfWork
<1>6. work.au # "none" /\ work.words = Contents(work.rows) => words = Contents(r)
  BY <1>4, RowsOfWork
<1> HIDE DEF r, words
<1> QED
  BY <1>1, <1>3, <1>5, <1>6, RowsWrittenWith

\* A row under its id with the same text or another.
LEMMA RowReplaced ==
    ASSUME BootInv, NEW i \in DOMAIN work.rows, NEW row \in BootRow
    PROVE  /\ [work.rows EXCEPT ![i] = row] \in RowTables
           /\ Contents([work.rows EXCEPT ![i] = row]) = (Contents(work.rows) \ {<<i, work.rows[i].text>>}) \cup {<<i, row.text>>}
<1> DEFINE r == [work.rows EXCEPT ![i] = row]
<1>1. r \in [DOMAIN work.rows -> BootRow] /\ DOMAIN r = DOMAIN work.rows /\ r[i] = row
      /\ \A j \in DOMAIN work.rows : j # i => r[j] = work.rows[j]
  BY RowsOfWork
<1>2. r \in RowTables
  BY <1>1, RowsOfWork, TableOf
<1> HIDE DEF r
<1>3. Contents(r) = {<<j, r[j].text>> : j \in DOMAIN work.rows}
  BY <1>1 DEF Contents
<1>4. ASSUME NEW w PROVE w \in Contents(r) <=> w \in (Contents(work.rows) \ {<<i, work.rows[i].text>>}) \cup {<<i, row.text>>}
  <2>1. ASSUME NEW j \in DOMAIN work.rows, w = <<j, r[j].text>>
        PROVE  w \in (Contents(work.rows) \ {<<i, work.rows[i].text>>}) \cup {<<i, row.text>>}
    BY <1>1, <2>1 DEF Contents
  <2>2. ASSUME NEW j \in DOMAIN work.rows, w = <<j, work.rows[j].text>>, w # <<i, work.rows[i].text>>
        PROVE  w \in Contents(r)
    BY <1>1, <1>3, <2>2
  <2>3. <<i, row.text>> \in Contents(r)
    BY <1>1, <1>3
  <2> QED
    BY <1>3, <2>1, <2>2, <2>3 DEF Contents
<1>5. Contents(r) = (Contents(work.rows) \ {<<i, work.rows[i].text>>}) \cup {<<i, row.text>>}
  BY <1>4
<1> QED
  BY <1>2, <1>5 DEF r

LEMMA EditKeeps ==
    ASSUME BootInv, NEW i \in DOMAIN work.rows, NEW text \in Texts, EditRow(i, text)
    PROVE  BootInv'
<1> DEFINE row == [work.rows[i] EXCEPT !.text = text]
           r == [work.rows EXCEPT ![i] = row]
           words == IF work.au # "none" THEN (work.words \ {<<i, work.rows[i].text>>}) \cup {<<i, text>>} ELSE work.words
<1>1. at = "up" /\ Wrote([work EXCEPT !.rows = r, !.words = words])
  BY DEF EditRow, Writable_
<1>2. row \in BootRow /\ row.text = text
  BY RowsOfWork DEF BootRow
<1> HIDE DEF row
<1>3. r \in RowTables /\ Contents(r) = (Contents(work.rows) \ {<<i, work.rows[i].text>>}) \cup {<<i, text>>}
  BY <1>2, RowReplaced
<1>4. words \in SUBSET (Nat \X Texts)
  BY RowsOfWork
<1>5. work.au # "none" /\ work.words = Contents(work.rows) => words = Contents(r)
  BY <1>3
<1> HIDE DEF r, words
<1> QED
  BY <1>1, <1>3, <1>4, <1>5, RowsWrittenWith

LEMMA LockKeeps ==
    ASSUME BootInv, NEW i \in DOMAIN work.rows, LockRow(i)
    PROVE  BootInv'
<1> DEFINE row == [work.rows[i] EXCEPT !.locked = ~@]
           r == [work.rows EXCEPT ![i] = row]
<1>1. at = "up" /\ Wrote([work EXCEPT !.rows = r])
  BY DEF LockRow, Writable_
<1>2. row \in BootRow /\ row.text = work.rows[i].text
  BY RowsOfWork DEF BootRow
<1> HIDE DEF row
<1>3. r \in RowTables /\ Contents(r) = (Contents(work.rows) \ {<<i, work.rows[i].text>>}) \cup {<<i, work.rows[i].text>>}
  BY <1>2, RowReplaced
<1>4. Contents(r) = Contents(work.rows)
  BY <1>3 DEF Contents
<1>5. [work EXCEPT !.rows = r] = [work EXCEPT !.rows = r, !.words = work.words]
  BY RowsOfWork DEF BootStore
<1> HIDE DEF r
<1> QED
  BY <1>1, <1>3, <1>4, <1>5, RowsOfWork, RowsWrittenWith

LEMMA RemoveKeeps ==
    ASSUME BootInv, NEW i \in DOMAIN work.rows, RemoveRow(i)
    PROVE  BootInv'
<1> DEFINE r == [j \in DOMAIN work.rows \ {i} |-> work.rows[j]]
           words == IF work.ai THEN work.words \ {<<i, work.rows[i].text>>} ELSE work.words
<1>1. at = "up" /\ Wrote([work EXCEPT !.rows = r, !.words = words])
  BY DEF RemoveRow, Writable_
<1>2. r \in RowTables
  <2>1. DOMAIN work.rows \ {i} \subseteq Nat /\ IsFiniteSet(DOMAIN work.rows \ {i})
    BY RowsOfWork, FS_RemoveElement
  <2>2. r \in [DOMAIN work.rows \ {i} -> BootRow]
    BY RowsOfWork
  <2> QED
    BY <2>1, <2>2, TableOf
<1>3. Contents(r) = Contents(work.rows) \ {<<i, work.rows[i].text>>}
  <2>1. Contents(r) = {w \in Contents(work.rows) : w[1] \notin {i}}
    BY ContentsLeft
  <2>2. \A w \in Contents(work.rows) : w[1] = i <=> w = <<i, work.rows[i].text>>
    BY DEF Contents
  <2> QED
    BY <2>1, <2>2
<1>4. words \in SUBSET (Nat \X Texts)
  BY RowsOfWork
<1>5. work.au # "none" /\ work.words = Contents(work.rows) => words = Contents(r)
  BY <1>3, RowsOfWork
<1> HIDE DEF r, words
<1> QED
  BY <1>1, <1>2, <1>4, <1>5, RowsWrittenWith

LEMMA RepairKeeps ==
    ASSUME BootInv, RepairWords
    PROVE  BootInv'
<1> DEFINE u == WithTable(work)
           t == Rebuilt(u)
<1>1. at = "up" /\ Wrote(t)
  BY DEF RepairWords
<1>2. Better(work, u) /\ u.ai = work.ai /\ u.au = work.au
  BY TableMade DEF BootInv
<1>3. Better(u, t) /\ t.ai = u.ai /\ t.au = u.au
  BY <1>2, IndexFilled DEF Better
<1> HIDE DEF u, t
<1> QED
  BY <1>1, <1>2, <1>3, WriteMoves DEF Better

----------------------------------------------------------------------------
LEMMA BootStarts == BootInit => BootInv
<1> SUFFICES ASSUME BootInit PROVE BootInv
  OBVIOUS
<1>1. <<>> \in RowTables
  <2>1. <<>> \in [{} -> BootRow] /\ {} \subseteq Nat /\ IsFiniteSet({})
    BY FS_EmptySet
  <2> QED
    BY <2>1, TableOf
<1>2. NoStore \in BootStore /\ ~NoStore.table /\ ~NoStore.ai /\ NoStore.au = "none" /\ NoStore.version = 0
  BY <1>1 DEF NoStore, BootStore
<1>3. \A v \in ColumnSteps : ~(v <= 0)
  BY DEF ColumnSteps
<1>4. StoreOK(NoStore)
  BY <1>2, <1>3 DEF StoreOK, WordsKept
<1>5. boot \in BootFlags
  BY DEF BootInit, NoBoot, BootFlags
<1>6. FtsReady /\ TriggersMade /\ ColumnsMade
  BY DEF BootInit, FtsReady, TriggersMade, ColumnsMade, FtsPlaces, LadderPlaces, EndPlaces
<1> QED
  BY <1>4, <1>5, <1>6, KeptIsReflexive DEF BootInit, BootInv, Places

\* The running server's writes and the finding of a store apart, no step loses a row.
LEMMA BootStepHolds ==
    ASSUME BootInv, [BootNext]_bootVars
    PROVE  BootInv' /\ (at \notin {"up", "none"} => RowsKept(disk.rows, disk'.rows))
<1>1. CASE UNCHANGED bootVars
  BY <1>1, KeptIsReflexive DEF bootVars, BootInv, StoreOK, FtsReady, TriggersMade, ColumnsMade
<1>2. ASSUME at = "none", NEW s \in OldStores, NEW stale \in BOOLEAN, FoundStore(s, stale)
      PROVE  BootInv' /\ (at \notin {"up", "none"} => RowsKept(disk.rows, disk'.rows))
  BY <1>2, FoundKeeps
<1>3. ASSUME NEW fts \in BOOLEAN, StartBoot(fts) PROVE Kept
  BY <1>3, StartKeeps
<1>4. ProbeFts \/ ArmBackfill \/ CreateFtsTable \/ CreateFtsTriggers => Kept
  BY ProbeKeeps, ArmKeeps, TableKeeps, TriggersKeep
<1>5. LadderColumns \/ Ladder11 \/ Ladder12 \/ LadderBlank \/ LadderIndexes => Kept
  BY ColumnsKeep, Ladder11Keeps, Ladder12Keeps, IndexesKeep
<1>6. DropUpdateTrigger \/ NarrowTrigger \/ Ladder18 \/ LadderFails => Kept
  BY DropKeeps, NarrowKeeps, Ladder18Keeps, FailureKeeps
<1>7. RebuildFts \/ RebuildFails \/ EnsureDedup \/ PlainIndexes \/ StampVersion \/ ProcessEnds => Kept
  BY RebuildKeeps, ClosingKeeps, StampKeeps, EndKeeps
<1>8. ASSUME \/ \E text \in Texts, msg \in MsgIds \cup {NoMsgId} : InsertRow(text, msg)
             \/ \E i \in DOMAIN work.rows, text \in Texts : EditRow(i, text)
             \/ \E i \in DOMAIN work.rows : RemoveRow(i)
             \/ \E i \in DOMAIN work.rows : LockRow(i)
             \/ RepairWords
      PROVE  BootInv' /\ at = "up"
  <2>1. BootInv'
    BY <1>8, InsertKeeps, EditKeeps, RemoveKeeps, LockKeeps, RepairKeeps
  <2>2. at = "up"
    BY <1>8 DEF InsertRow, EditRow, RemoveRow, LockRow, RepairWords, Writable_
  <2> QED
    BY <2>1, <2>2
<1> QED
  BY <1>1, <1>2, <1>3, <1>4, <1>5, <1>6, <1>7, <1>8 DEF BootNext, Kept

\* A store is never left claiming more than was done to it, and no start loses a text or
\* touches a locked row, wherever it is cut short (get_db, _init_schema): BootIsSafe, for
\* any store an earlier version left.
THEOREM BootsStaySafe == BootSpec => BootIsSafe
<1>1. BootInit => BootInv
  BY BootStarts
<1>2. BootInv /\ [BootNext]_bootVars => BootInv'
  BY BootStepHolds
<1>3. BootInv => (disk.table /\ disk.au = "scoped" /\ ~disk.pending => disk.words = Contents(disk.rows))
  BY DEF BootInv, StoreOK, WordsKept
<1>4. BootInv => (at = "up" /\ boot.fts /\ ~boot.failed => work.table /\ work.ai /\ work.au = "scoped")
  BY DEF BootInv, StoreOK, TriggersMade
<1>5. BootInv => (disk.version = SCHEMA_VERSION => disk.columns = ColumnSteps)
  <2>1. BootInv => disk.columns \subseteq ColumnSteps
    BY DEF BootInv, StoreOK, BootStore
  <2>2. BootInv => \A v \in ColumnSteps : v <= disk.version => v \in disk.columns
    BY DEF BootInv, StoreOK
  <2> QED
    BY <2>1, <2>2, BootAssumption
<1>6. BootInv /\ [BootNext]_bootVars =>
        [at \notin {"up", "none"} =>
          /\ {disk.rows[i].text : i \in DOMAIN disk.rows} = {disk'.rows[i].text : i \in DOMAIN disk'.rows}
          /\ \A i \in DOMAIN disk.rows : disk.rows[i].locked => i \in DOMAIN disk'.rows /\ disk'.rows[i] = disk.rows[i]]_bootVars
  BY BootStepHolds DEF RowsKept
<1> QED
  BY <1>1, <1>2, <1>3, <1>4, <1>5, <1>6, PTL DEF BootSpec, BootIsSafe

----------------------------------------------------------------------------
(* The repairs of a health run.                                            *)

HealthTable   == [HealthIds -> Mem \cup {NoMem}]
HealthEffects == [HealthIds -> HealthText \cup {Gone, Same}]
HealthRuns    == [pc : {"idle", "checks", "commit", "embed", "done"}, order : {<<>>, HealthOrder, DeepOrder},
                  at : Nat, crashed : BOOLEAN, failed : BOOLEAN]

\* A row with r's text, cleaned at most, that the readers of r's channel see.
Heir(r, q) == q.chan \in {r.chan, ""} /\ Clean(q.text) = Clean(r.text)

\* Table u with links k has lost nothing of table t with links l.
Inherits(t, l, u, k) ==
    \A i \in MemIds(t) :
        /\ t[i].locked => u[i] # NoMem /\ [u[i] EXCEPT !.vec = t[i].vec] = t[i]
        /\ t[i].text.body # "" => \E j \in MemIds(u) : Heir(t[i], u[j]) /\ (i \in l => j \in k)

\* The effects e tell what happened to the texts between the tables t and u.
Told(t, e, u) ==
    \A i \in HealthIds :
        CASE e[i] = Gone -> t[i] # NoMem /\ u[i] = NoMem
          [] e[i] = Same -> (t[i] = NoMem <=> u[i] = NoMem) /\ (t[i] # NoMem => u[i].text = t[i].text)
          [] OTHER       -> t[i] # NoMem /\ u[i] # NoMem /\ u[i].text = e[i]

SoundOutcome(out) ==
    /\ out.mem \in HealthTable /\ out.links \subseteq HealthIds /\ out.fx \in HealthEffects
    /\ Inherits(mem, linked, out.mem, out.links)
    /\ Told(mem, out.fx, out.mem)

\* FinalStates of a list of effects, which has a last effect for each row noted.
NotedIn(f, i) == {k \in DOMAIN f : f[k][i] # Same}
FinalOf(f)    == [i \in HealthIds |-> IF NotedIn(f, i) = {} THEN Same ELSE f[Largest(NotedIn(f, i))][i]]
LastNoted(f)  == \A i \in HealthIds :
                    NotedIn(f, i) # {} => \E m \in NotedIn(f, i) : \A k \in NotedIn(f, i) : m >= k

TextsOf(t)    == [i \in HealthIds |-> IF t[i] = NoMem THEN Gone ELSE t[i].text]

HealthTypes ==
    /\ mem \in HealthTable /\ linked \subseteq HealthIds
    /\ before.mem \in HealthTable /\ before.links \subseteq HealthIds
    /\ before = [mem |-> before.mem, links |-> before.links]
    /\ fixing \in HealthRuns
    /\ fixing.pc # "idle" => fx \in Seq(HealthEffects)

\* Of each row the last effect noted exists and is the true one.
EffectsTell ==
    /\ fixing.pc # "idle" =>
         LastNoted(fx) /\ Told(before.mem, FinalOf(fx), mem)
    /\ fixing.pc = "idle" => before.mem = mem /\ before.links = linked

\* The remote index is untouched until the commit, and then follows the last effects.
RemoteTold ==
    /\ fixing.pc \in {"idle", "checks", "commit"} => synced = TextsOf(before.mem)
    /\ fixing.pc \in {"embed", "done"} /\ ~fixing.failed =>
         synced = [i \in HealthIds |-> IF FinalOf(fx)[i] = Same THEN TextsOf(before.mem)[i] ELSE FinalOf(fx)[i]]

HealthInv ==
    HealthTypes /\ EffectsTell /\ RemoteTold /\ Inherits(before.mem, before.links, mem, linked)

----------------------------------------------------------------------------
\* The least of any rows, which KeeperOf and the survivor of a collision are.
LEMMA SmallestRow ==
    ASSUME NEW S, S \subseteq HealthIds, S # {}
    PROVE  Smallest(S) \in S /\ \A j \in S : Smallest(S) <= j
<1>1. IsFiniteSet(S)
  BY FS_Subset, HealthConstants
<1>2. S \subseteq Nat
  BY HealthConstants
<1>3. Min(S) \in S /\ \A j \in S : Min(S) <= j
  BY <1>1, <1>2, LeastId
<1> QED
  BY <1>3 DEF Smallest

LEMMA KeeperIsCopy ==
    ASSUME NEW t, NEW S, S \subseteq HealthIds, S # {}
    PROVE  KeeperOf(t, S) \in S
<1> DEFINE locked == {i \in S : t[i].locked}
<1>1. CASE locked # {}
  BY <1>1, SmallestRow, locked \subseteq HealthIds DEF KeeperOf
<1>2. CASE locked = {}
  BY <1>2, SmallestRow DEF KeeperOf
<1> QED
  BY <1>1, <1>2

\* Taking a defect out of a text leaves a text that cleans to the same.
LEMMA WithoutCleans ==
    ASSUME NEW t \in HealthText, NEW defect \in {"annotated", "mention", "long"}
    PROVE  Without(t, defect) \in HealthText /\ Clean(Without(t, defect)) = Clean(t)
<1>1. CASE defect = "annotated"
  BY <1>1 DEF HealthText, Without, Clean
<1>2. CASE defect = "mention"
  BY <1>2 DEF HealthText, Without, Clean
<1>3. CASE defect = "long"
  BY <1>3 DEF HealthText, Without, Clean
<1> QED
  BY <1>1, <1>2, <1>3

LEMMA CleanKeepsBody ==
    ASSUME NEW s \in HealthText, NEW t \in HealthText, Clean(s) = Clean(t)
    PROVE  s.body = t.body
<1>1. Clean(s).body = s.body /\ Clean(t).body = t.body
  BY DEF HealthText, Clean
<1> QED
  BY <1>1

\* Two steps that lose nothing lose nothing together.
LEMMA InheritsOn ==
    ASSUME NEW t \in HealthTable, NEW u \in HealthTable, NEW v \in HealthTable, NEW l, NEW k, NEW m,
           Inherits(t, l, u, k), Inherits(u, k, v, m)
    PROVE  Inherits(t, l, v, m)
<1> SUFFICES ASSUME NEW i \in MemIds(t)
             PROVE  /\ t[i].locked => v[i] # NoMem /\ [v[i] EXCEPT !.vec = t[i].vec] = t[i]
                    /\ t[i].text.body # "" => \E j \in MemIds(v) : Heir(t[i], v[j]) /\ (i \in l => j \in m)
  BY DEF Inherits
<1>0. t[i] \in Mem
  BY DEF MemIds, HealthTable
<1>1. ASSUME t[i].locked  PROVE v[i] # NoMem /\ [v[i] EXCEPT !.vec = t[i].vec] = t[i]
  <2>1. u[i] # NoMem /\ [u[i] EXCEPT !.vec = t[i].vec] = t[i]
    BY <1>1 DEF Inherits
  <2>2. u[i] \in Mem /\ i \in MemIds(u)
    BY <2>1 DEF MemIds, HealthTable
  <2>3. u[i].locked
    BY <1>1, <1>0, <2>1, <2>2 DEF Mem
  <2>4. v[i] # NoMem /\ [v[i] EXCEPT !.vec = u[i].vec] = u[i]
    BY <2>2, <2>3 DEF Inherits
  <2>5. v[i] \in Mem
    BY <2>4, <2>2 DEF MemIds, HealthTable
  <2> QED
    BY <1>0, <2>1, <2>2, <2>4, <2>5 DEF Mem
<1>2. ASSUME t[i].text.body # ""
      PROVE  \E j \in MemIds(v) : Heir(t[i], v[j]) /\ (i \in l => j \in m)
  <2>1. PICK j \in MemIds(u) : Heir(t[i], u[j]) /\ (i \in l => j \in k)
    BY <1>2 DEF Inherits
  <2>2. u[j] \in Mem
    BY DEF MemIds, HealthTable
  <2>3. t[i].text \in HealthText /\ u[j].text \in HealthText
    BY <1>0, <2>2 DEF Mem
  <2>4. u[j].text.body # ""
    BY <1>2, <2>1, <2>3, CleanKeepsBody DEF Heir
  <2>5. PICK h \in MemIds(v) : Heir(u[j], v[h]) /\ (j \in k => h \in m)
    BY <2>4 DEF Inherits
  <2>6. Heir(t[i], v[h])
    BY <2>1, <2>5 DEF Heir
  <2> QED
    BY <2>1, <2>5, <2>6
<1> QED
  BY <1>1, <1>2

\* A table inherits from itself, with the links it has.
LEMMA InheritsSame ==
    ASSUME NEW t \in HealthTable, NEW l
    PROVE  Inherits(t, l, t, l)
<1> SUFFICES ASSUME NEW i \in MemIds(t)
             PROVE  /\ t[i] # NoMem /\ [t[i] EXCEPT !.vec = t[i].vec] = t[i]
                    /\ Heir(t[i], t[i])
  BY DEF Inherits
<1>1. t[i] \in Mem /\ t[i] # NoMem
  BY DEF MemIds, HealthTable
<1> QED
  BY <1>1 DEF Mem, Heir

\* A fix that touches neither text nor rows, and of a locked row only the vector.
LEMMA RetouchedSound ==
    ASSUME HealthTypes, NEW u \in HealthTable,
           \A i \in HealthIds : u[i] = NoMem <=> mem[i] = NoMem,
           \A i \in MemIds(mem) : /\ u[i].text = mem[i].text /\ u[i].chan = mem[i].chan
                                  /\ mem[i].locked => [u[i] EXCEPT !.vec = mem[i].vec] = mem[i]
    PROVE  SoundOutcome(Retouched(u))
<1>1. /\ Retouched(u).mem = u /\ Retouched(u).links = linked /\ Retouched(u).fx = NoEffect
  BY DEF Retouched, Leaves
<1>2. NoEffect \in HealthEffects
  BY DEF NoEffect, HealthEffects
<1>3. Told(mem, NoEffect, u)
  <2> SUFFICES ASSUME NEW i \in HealthIds, mem[i] # NoMem  PROVE u[i].text = mem[i].text
    BY HealthTextsAreTexts DEF Told, NoEffect
  <2> QED
    BY DEF MemIds
<1>4. Inherits(mem, linked, u, linked)
  <2> SUFFICES ASSUME NEW i \in MemIds(mem)
               PROVE  /\ mem[i].locked => u[i] # NoMem /\ [u[i] EXCEPT !.vec = mem[i].vec] = mem[i]
                      /\ i \in MemIds(u) /\ Heir(mem[i], u[i])
    BY DEF Inherits
  <2> QED
    BY DEF MemIds, Heir
<1>5. linked \subseteq HealthIds
  BY DEF HealthTypes
<1> QED
  BY <1>1, <1>2, <1>3, <1>4, <1>5 DEF SoundOutcome

\* Deleting unlocked rows whose text, if it is more than its defects, a row that stays has.
LEMMA DeletedSound ==
    ASSUME HealthTypes, NEW gone, gone \subseteq Unlocked(mem), NEW l, linked \subseteq l, l \subseteq HealthIds,
           \A i \in gone : mem[i].text.body # "" =>
               \E j \in MemIds(mem) \ gone : Heir(mem[i], mem[j]) /\ (i \in linked => j \in l)
    PROVE  SoundOutcome(Deleted(gone, l))
<1> DEFINE u == [i \in HealthIds |-> IF i \in gone THEN NoMem ELSE mem[i]]
           e == [i \in HealthIds |-> IF i \in gone THEN Gone ELSE Same]
<1>1. Deleted(gone, l).mem = u /\ Deleted(gone, l).links = l \ gone /\ Deleted(gone, l).fx = e
  BY DEF Deleted, Leaves
<1>2. u \in HealthTable /\ e \in HealthEffects
  BY DEF HealthTable, HealthEffects, HealthTypes
<1>3. \A i \in gone : i \in HealthIds /\ mem[i] # NoMem /\ ~mem[i].locked
  BY DEF Unlocked, MemIds
<1>4. Told(mem, e, u)
  BY <1>3, HealthTextsAreTexts DEF Told
<1>5. ASSUME NEW i \in MemIds(mem), i \notin gone
      PROVE  i \in MemIds(u) /\ u[i] = mem[i] /\ (i \in linked => i \in l \ gone)
  BY <1>5 DEF MemIds
<1>6. Inherits(mem, linked, u, l \ gone)
  <2> SUFFICES ASSUME NEW i \in MemIds(mem)
               PROVE  /\ mem[i].locked => u[i] # NoMem /\ [u[i] EXCEPT !.vec = mem[i].vec] = mem[i]
                      /\ mem[i].text.body # "" =>
                           \E j \in MemIds(u) : Heir(mem[i], u[j]) /\ (i \in linked => j \in l \ gone)
    BY DEF Inherits
  <2>0. mem[i] \in Mem /\ mem[i] # NoMem
    BY DEF MemIds, HealthTypes, HealthTable
  <2>1. CASE i \in gone
    <3>1. ~mem[i].locked
      BY <2>1, <1>3
    <3>2. ASSUME mem[i].text.body # ""
          PROVE  \E j \in MemIds(u) : Heir(mem[i], u[j]) /\ (i \in linked => j \in l \ gone)
      <4>1. PICK j \in MemIds(mem) \ gone : Heir(mem[i], mem[j]) /\ (i \in linked => j \in l)
        BY <2>1, <3>2
      <4>2. j \in MemIds(u) /\ u[j] = mem[j]
        BY <1>5
      <4> QED
        BY <4>1, <4>2
    <3> QED
      BY <3>1, <3>2
  <2>2. CASE i \notin gone
    <3>1. i \in MemIds(u) /\ u[i] = mem[i] /\ (i \in linked => i \in l \ gone)
      BY <2>2, <1>5
    <3>2. [u[i] EXCEPT !.vec = mem[i].vec] = mem[i] /\ Heir(mem[i], u[i])
      BY <2>0, <3>1 DEF Mem, Heir
    <3> QED
      BY <2>0, <3>1, <3>2
  <2> QED
    BY <2>1, <2>2
<1> QED
  BY <1>1, <1>2, <1>4, <1>6 DEF SoundOutcome

\* Rewriting unlocked rows in id order: a row deleted because its new text is taken has a
\* holder that is not deleted, in its channel.
LEMMA RewrittenSound ==
    ASSUME HealthTypes, NEW defect \in {"annotated", "mention", "long"}, NEW S, S \subseteq Unlocked(mem)
    PROVE  SoundOutcome(Rewritten(S, defect))
<1> DEFINE new(x)     == Without(x, defect)
           holds(j, i) == /\ j # i /\ SameChan(mem, i, j)
                          /\ \/ j \notin S /\ mem[j].text = new(mem[i].text)
                             \/ j \in S /\ j < i /\ new(mem[j].text) = new(mem[i].text)
           holders(i) == {j \in MemIds(mem) : holds(j, i)}
           gone == IF "content" \in uniques THEN {i \in S : holders(i) # {}} ELSE {}
           survivor(i) == Smallest(holders(i) \ gone)
           write(r) == [r EXCEPT !.text = new(r.text), !.vec = "none"]
           u == [i \in HealthIds |-> IF i \in gone THEN NoMem ELSE IF i \in S THEN write(mem[i]) ELSE mem[i]]
           k == (linked \cup {survivor(i) : i \in gone \cap linked}) \ gone
           e == [i \in HealthIds |-> IF i \in gone THEN Gone ELSE IF i \in S THEN new(mem[i].text) ELSE Same]
<1>1. /\ Rewritten(S, defect).mem = u /\ Rewritten(S, defect).links = k /\ Rewritten(S, defect).fx = e
  BY DEF Rewritten, Leaves
<1>2. \A i \in S : i \in HealthIds /\ mem[i] # NoMem /\ ~mem[i].locked /\ i \in MemIds(mem)
  BY DEF Unlocked, MemIds
<1>3. \A i \in MemIds(mem) : i \in HealthIds /\ i \in Nat /\ mem[i] \in Mem /\ mem[i].text \in HealthText
  BY HealthConstants DEF MemIds, HealthTypes, HealthTable, Mem
<1>4. \A i \in MemIds(mem) : new(mem[i].text) \in HealthText /\ Clean(new(mem[i].text)) = Clean(mem[i].text)
  BY <1>3, WithoutCleans
<1>5. gone \subseteq S
  OBVIOUS
<1>6. ASSUME NEW i \in gone  PROVE holders(i) \ gone # {}
  <2>1. i \in S /\ holders(i) # {} /\ holders(i) \subseteq HealthIds
    BY <1>2, <1>3
  <2>2. CASE \E j \in holders(i) : j \notin S
    BY <2>2, <1>5
  <2>3. CASE \A j \in holders(i) : j \in S
    <3> DEFINE h == Smallest(holders(i))
    <3>1. h \in holders(i) /\ \A j \in holders(i) : h <= j
      BY <2>1, SmallestRow
    <3>2. h \in S /\ h \in MemIds(mem) /\ h # i /\ SameChan(mem, i, h) /\ h < i /\ new(mem[h].text) = new(mem[i].text)
      BY <2>3, <3>1
    <3>3. ASSUME h \in gone  PROVE FALSE
      <4>1. PICK g \in MemIds(mem) : holds(g, h)
        BY <3>3
      <4>2. SameChan(mem, i, g)
        BY <3>2, <4>1 DEF SameChan
      <4>3. CASE g \notin S
        <5>1. mem[g].text = new(mem[i].text) /\ g # i
          BY <4>1, <4>3, <3>2, <2>1
        <5>2. holds(g, i)
          BY <5>1, <4>2, <4>3
        <5> QED
          BY <5>2, <2>3, <4>3
      <4>4. CASE g \in S
        <5>1. g < h /\ new(mem[g].text) = new(mem[i].text)
          BY <4>1, <4>4, <3>2
        <5>2. g < i /\ g # i /\ ~(h <= g)
          BY <5>1, <3>2, <1>3, <2>1, <1>2
        <5>3. g \in holders(i)
          BY <5>1, <5>2, <4>2, <4>4
        <5> QED
          BY <5>2, <5>3, <3>1
      <4> QED
        BY <4>3, <4>4
    <3> QED
      BY <3>1, <3>3
  <2> QED
    BY <2>2, <2>3
<1>7. ASSUME NEW i \in gone
      PROVE  /\ survivor(i) \in MemIds(mem) /\ survivor(i) \notin gone
             /\ SameChan(mem, i, survivor(i))
             /\ \/ survivor(i) \notin S /\ mem[survivor(i)].text = new(mem[i].text)
                \/ survivor(i) \in S /\ new(mem[survivor(i)].text) = new(mem[i].text)
  <2>1. holders(i) \ gone \subseteq HealthIds
    BY <1>3
  <2>2. survivor(i) \in holders(i) \ gone
    BY <2>1, <1>6, SmallestRow
  <2> QED
    BY <2>2
<1> HIDE DEF gone, survivor, holders, holds
<1>8. ASSUME NEW i \in MemIds(mem), i \in S, i \notin gone
      PROVE  u[i] \in Mem /\ u[i] # NoMem /\ u[i].text = new(mem[i].text) /\ u[i].chan = mem[i].chan
  <2>1. u[i] = write(mem[i])
    BY <1>8, <1>3
  <2>2. write(mem[i]) \in Mem /\ write(mem[i]).text = new(mem[i].text) /\ write(mem[i]).chan = mem[i].chan
    BY <1>3, <1>4 DEF Mem
  <2> QED
    BY <2>1, <2>2, NoMemAssumption
<1>9. ASSUME NEW i \in MemIds(mem), i \notin S
      PROVE  u[i] = mem[i] /\ i \in MemIds(u)
  BY <1>9, <1>5, <1>3 DEF MemIds
<1>10. u \in HealthTable
  <2> SUFFICES ASSUME NEW i \in HealthIds  PROVE u[i] \in Mem \cup {NoMem}
    BY DEF HealthTable
  <2>1. CASE i \in gone
    BY <2>1
  <2>2. CASE i \notin gone /\ i \in S
    BY <2>2, <1>8, <1>2
  <2>3. CASE i \notin S
    BY <2>3, <1>5 DEF HealthTypes, HealthTable
  <2> QED
    BY <2>1, <2>2, <2>3
<1>11. e \in HealthEffects
  <2> SUFFICES ASSUME NEW i \in HealthIds  PROVE e[i] \in HealthText \cup {Gone, Same}
    BY DEF HealthEffects
  <2>1. CASE i \in S
    BY <2>1, <1>2, <1>4
  <2> QED
    BY <2>1, <1>5
<1>12. k \subseteq HealthIds
  <2>1. \A i \in gone : survivor(i) \in HealthIds
    BY <1>7, <1>3
  <2> QED
    BY <2>1 DEF HealthTypes
<1>13. Told(mem, e, u)
  <2> SUFFICES ASSUME NEW i \in HealthIds
               PROVE  CASE e[i] = Gone -> mem[i] # NoMem /\ u[i] = NoMem
                        [] e[i] = Same -> (mem[i] = NoMem <=> u[i] = NoMem) /\ (mem[i] # NoMem => u[i].text = mem[i].text)
                        [] OTHER       -> mem[i] # NoMem /\ u[i] # NoMem /\ u[i].text = e[i]
    BY DEF Told
  <2>1. CASE i \in gone
    <3>1. e[i] = Gone /\ u[i] = NoMem /\ mem[i] # NoMem
      BY <2>1, <1>2, <1>5
    <3> HIDE DEF e, u
    <3> QED
      BY <3>1, HealthTextsAreTexts
  <2>2. CASE i \notin gone /\ i \in S
    <3>1. e[i] = new(mem[i].text) /\ mem[i] # NoMem /\ u[i] # NoMem /\ u[i].text = e[i]
      BY <2>2, <1>2, <1>8
    <3>2. e[i] \in HealthText
      BY <2>2, <3>1, <1>2, <1>4
    <3>3. e[i] # Gone /\ e[i] # Same
      BY <3>2, HealthTextsAreTexts
    <3> QED
      BY <3>1, <3>3
  <2>3. CASE i \notin S
    <3>1. e[i] = Same /\ u[i] = mem[i] /\ Same # Gone
      BY <2>3, <1>5, HealthTextsAreTexts
    <3> QED
      BY <3>1
  <2> QED
    BY <2>1, <2>2, <2>3
<1>14. Inherits(mem, linked, u, k)
  <2> SUFFICES ASSUME NEW i \in MemIds(mem)
               PROVE  /\ mem[i].locked => u[i] # NoMem /\ [u[i] EXCEPT !.vec = mem[i].vec] = mem[i]
                      /\ \E j \in MemIds(u) : Heir(mem[i], u[j]) /\ (i \in linked => j \in k)
    BY DEF Inherits
  <2>1. CASE i \in gone
    <3> DEFINE j == survivor(i)
    <3>0. i \in S /\ ~mem[i].locked
      BY <2>1, <1>5, <1>2
    <3>1. j \in MemIds(mem) /\ j \notin gone /\ SameChan(mem, i, j)
      BY <2>1, <1>7
    <3>2. i \in linked => j \in k
      BY <2>1, <3>1
    <3>3. CASE j \notin S
      <4>1. mem[j].text = new(mem[i].text) /\ u[j] = mem[j] /\ j \in MemIds(u)
        BY <3>3, <3>1, <2>1, <1>7, <1>9
      <4>5. Clean(mem[j].text) = Clean(mem[i].text)
        BY <4>1, <1>4
      <4>6. Heir(mem[i], mem[j])
        BY <4>5, <3>1 DEF Heir, SameChan
      <4>2. Heir(mem[i], u[j])
        BY <4>1, <4>6
      <4> HIDE DEF u, j, k
      <4> QED
        BY <4>1, <4>2, <3>2, <3>0
    <3>4. CASE j \in S
      <4>1. new(mem[j].text) = new(mem[i].text)
        BY <3>4, <2>1, <1>7
      <4>2. u[j] # NoMem /\ u[j].text = new(mem[j].text) /\ u[j].chan = mem[j].chan
        BY <3>4, <3>1, <1>8
      <4>5. Clean(new(mem[j].text)) = Clean(mem[i].text)
        BY <4>1, <1>4
      <4>3. Heir(mem[i], u[j])
        <5> HIDE DEF u, j, new
        <5> QED
          BY <4>5, <4>2, <3>1 DEF Heir, SameChan
      <4>4. j \in MemIds(u)
        BY <4>2, <3>1 DEF MemIds
      <4> HIDE DEF u, j, k
      <4> QED
        BY <4>3, <4>4, <3>2, <3>0
    <3> QED
      BY <3>3, <3>4
  <2>2. CASE i \notin gone /\ i \in S
    <3>1. ~mem[i].locked /\ u[i] # NoMem /\ u[i].text = new(mem[i].text) /\ u[i].chan = mem[i].chan
      BY <2>2, <1>2, <1>8
    <3>2. Heir(mem[i], u[i]) /\ i \in MemIds(u) /\ (i \in linked => i \in k)
      BY <3>1, <2>2, <1>4 DEF Heir, MemIds
    <3> QED
      BY <3>1, <3>2
  <2>3. CASE i \notin S
    <3>1. u[i] = mem[i] /\ i \in MemIds(u) /\ (i \in linked => i \in k)
      BY <2>3, <1>9, <1>5
    <3>2. [u[i] EXCEPT !.vec = mem[i].vec] = mem[i] /\ Heir(mem[i], u[i]) /\ u[i] # NoMem
      BY <3>1, <1>3 DEF Mem, Heir, MemIds
    <3> QED
      BY <3>1, <3>2
  <2> QED
    BY <2>1, <2>2, <2>3
<1> QED
  BY <1>1, <1>10, <1>11, <1>12, <1>13, <1>14 DEF SoundOutcome

\* The patch of some rows' columns.
LEMMA PatchSound ==
    ASSUME HealthTypes, NEW S, S \subseteq MemIds(mem), NEW u,
           u = [i \in HealthIds |-> IF i \in S THEN u[i] ELSE mem[i]],
           \A i \in S : /\ u[i] \in Mem /\ u[i].text = mem[i].text /\ u[i].chan = mem[i].chan
                        /\ mem[i].locked => [u[i] EXCEPT !.vec = mem[i].vec] = mem[i]
    PROVE  SoundOutcome(Retouched(u))
<1>1. mem \in HealthTable
  BY DEF HealthTypes
<1>2. \A i \in HealthIds : i \notin S => u[i] = mem[i]
  OBVIOUS
<1>3. u \in HealthTable
  BY <1>1, <1>2 DEF HealthTable
<1>4. \A i \in HealthIds : u[i] = NoMem <=> mem[i] = NoMem
  BY <1>2, NoMemAssumption DEF MemIds
<1>5. ASSUME NEW i \in MemIds(mem)
      PROVE  /\ u[i].text = mem[i].text /\ u[i].chan = mem[i].chan
             /\ mem[i].locked => [u[i] EXCEPT !.vec = mem[i].vec] = mem[i]
  <2>1. i \in HealthIds /\ mem[i] \in Mem
    BY <1>1 DEF MemIds, HealthTable
  <2>2. CASE i \notin S
    <3>1. u[i] = mem[i]
      BY <2>1, <2>2, <1>2
    <3> QED
      BY <2>1, <3>1 DEF Mem
  <2> QED
    BY <2>2
<1> QED
  BY <1>3, <1>4, <1>5, RetouchedSound

LEMMA UnusableEmbeddingSound ==
    ASSUME HealthTypes
    PROVE  SoundOutcome(UnusableEmbedding)
<1> DEFINE S == {i \in MemIds(mem) : mem[i].vec = "bad"}
           u == [i \in HealthIds |-> IF i \in S THEN WithoutVector(mem[i]) ELSE mem[i]]
<1>1. S \subseteq MemIds(mem) /\ S \subseteq HealthIds
  BY DEF MemIds, Unlocked
<1>2. \A i \in S : mem[i] \in Mem
  BY <1>1 DEF HealthTypes, HealthTable, MemIds, Unlocked
<1>3. ASSUME NEW r \in Mem
      PROVE  WithoutVector(r) \in Mem /\ WithoutVector(r).text = r.text /\ WithoutVector(r).chan = r.chan
  BY DEF WithoutVector, Mem
<1>4. ASSUME NEW r \in Mem  PROVE [WithoutVector(r) EXCEPT !.vec = r.vec] = r
  BY DEF WithoutVector, Mem
<1>5. ASSUME NEW i \in S
      PROVE  /\ u[i] \in Mem /\ u[i].text = mem[i].text /\ u[i].chan = mem[i].chan
             /\ mem[i].locked => [u[i] EXCEPT !.vec = mem[i].vec] = mem[i]
  <2>1. u[i] = WithoutVector(mem[i])
    BY <1>1
  <2> HIDE DEF u, S
  <2> QED
    BY <2>1, <1>2, <1>3, <1>4
<1>6. u = [i \in HealthIds |-> IF i \in S THEN u[i] ELSE mem[i]]
  OBVIOUS
<1>7. UnusableEmbedding = Retouched(u)
  BY DEF UnusableEmbedding, Patched
<1> HIDE DEF u, S
<1> QED
  BY <1>1, <1>5, <1>6, <1>7, PatchSound

LEMMA InvalidJsonSound ==
    ASSUME HealthTypes
    PROVE  SoundOutcome(InvalidJson)
<1> DEFINE S == {i \in Unlocked(mem) : mem[i].source = "broken"}
           u == [i \in HealthIds |-> IF i \in S THEN EmptyObject(mem[i]) ELSE mem[i]]
<1>1. S \subseteq MemIds(mem) /\ S \subseteq HealthIds
  BY DEF MemIds, Unlocked
<1>2. \A i \in S : mem[i] \in Mem /\ ~mem[i].locked
  BY <1>1 DEF HealthTypes, HealthTable, MemIds, Unlocked
<1>3. ASSUME NEW r \in Mem
      PROVE  EmptyObject(r) \in Mem /\ EmptyObject(r).text = r.text /\ EmptyObject(r).chan = r.chan
  BY DEF EmptyObject, Mem, HealthSources
<1>5. ASSUME NEW i \in S
      PROVE  /\ u[i] \in Mem /\ u[i].text = mem[i].text /\ u[i].chan = mem[i].chan
             /\ mem[i].locked => [u[i] EXCEPT !.vec = mem[i].vec] = mem[i]
  <2>1. u[i] = EmptyObject(mem[i])
    BY <1>1
  <2> HIDE DEF u, S
  <2> QED
    BY <2>1, <1>2, <1>3
<1>6. u = [i \in HealthIds |-> IF i \in S THEN u[i] ELSE mem[i]]
  OBVIOUS
<1>7. InvalidJson = Retouched(u)
  BY DEF InvalidJson, Patched
<1> HIDE DEF u, S
<1> QED
  BY <1>1, <1>5, <1>6, <1>7, PatchSound

LEMMA InvalidSourceTypeSound ==
    ASSUME HealthTypes
    PROVE  SoundOutcome(InvalidSourceType)
<1> DEFINE S == {i \in Unlocked(mem) : mem[i].source = "mappable"}
           u == [i \in HealthIds |-> IF i \in S THEN CanonicalSource(mem[i]) ELSE mem[i]]
<1>1. S \subseteq MemIds(mem) /\ S \subseteq HealthIds
  BY DEF MemIds, Unlocked
<1>2. \A i \in S : mem[i] \in Mem /\ ~mem[i].locked
  BY <1>1 DEF HealthTypes, HealthTable, MemIds, Unlocked
<1>3. ASSUME NEW r \in Mem
      PROVE  CanonicalSource(r) \in Mem /\ CanonicalSource(r).text = r.text /\ CanonicalSource(r).chan = r.chan
  BY DEF CanonicalSource, Mem, HealthSources
<1>5. ASSUME NEW i \in S
      PROVE  /\ u[i] \in Mem /\ u[i].text = mem[i].text /\ u[i].chan = mem[i].chan
             /\ mem[i].locked => [u[i] EXCEPT !.vec = mem[i].vec] = mem[i]
  <2>1. u[i] = CanonicalSource(mem[i])
    BY <1>1
  <2> HIDE DEF u, S
  <2> QED
    BY <2>1, <1>2, <1>3
<1>6. u = [i \in HealthIds |-> IF i \in S THEN u[i] ELSE mem[i]]
  OBVIOUS
<1>7. InvalidSourceType = Retouched(u)
  BY DEF InvalidSourceType, Patched
<1> HIDE DEF u, S
<1> QED
  BY <1>1, <1>5, <1>6, <1>7, PatchSound

LEMMA InvalidTimestampSound ==
    ASSUME HealthTypes
    PROVE  SoundOutcome(InvalidTimestamp)
<1> DEFINE S == {i \in Unlocked(mem) : mem[i].stamp \in {"foreign", "foreign_ahead", "junk", "sql_only"}}
           u == [i \in HealthIds |-> IF i \in S THEN RestampedInvalid(mem[i]) ELSE mem[i]]
<1>1. S \subseteq MemIds(mem) /\ S \subseteq HealthIds
  BY DEF MemIds, Unlocked
<1>2. \A i \in S : mem[i] \in Mem /\ ~mem[i].locked
  BY <1>1 DEF HealthTypes, HealthTable, MemIds, Unlocked
<1>3. ASSUME NEW r \in Mem
      PROVE  RestampedInvalid(r) \in Mem /\ RestampedInvalid(r).text = r.text /\ RestampedInvalid(r).chan = r.chan
  BY DEF RestampedInvalid, Mem, Stamps
<1>5. ASSUME NEW i \in S
      PROVE  /\ u[i] \in Mem /\ u[i].text = mem[i].text /\ u[i].chan = mem[i].chan
             /\ mem[i].locked => [u[i] EXCEPT !.vec = mem[i].vec] = mem[i]
  <2>1. u[i] = RestampedInvalid(mem[i])
    BY <1>1
  <2> HIDE DEF u, S
  <2> QED
    BY <2>1, <1>2, <1>3
<1>6. u = [i \in HealthIds |-> IF i \in S THEN u[i] ELSE mem[i]]
  OBVIOUS
<1>7. InvalidTimestamp = Retouched(u)
  BY DEF InvalidTimestamp, Patched
<1> HIDE DEF u, S
<1> QED
  BY <1>1, <1>5, <1>6, <1>7, PatchSound

LEMMA FutureTimestampSound ==
    ASSUME HealthTypes
    PROVE  SoundOutcome(FutureTimestamp)
<1> DEFINE S == {i \in Unlocked(mem) : mem[i].stamp = "ahead" /\ mem[i].dated}
           u == [i \in HealthIds |-> IF i \in S THEN Redated(mem[i]) ELSE mem[i]]
<1>1. S \subseteq MemIds(mem) /\ S \subseteq HealthIds
  BY DEF MemIds, Unlocked
<1>2. \A i \in S : mem[i] \in Mem /\ ~mem[i].locked
  BY <1>1 DEF HealthTypes, HealthTable, MemIds, Unlocked
<1>3. ASSUME NEW r \in Mem
      PROVE  Redated(r) \in Mem /\ Redated(r).text = r.text /\ Redated(r).chan = r.chan
  BY DEF Redated, Mem, Stamps
<1>5. ASSUME NEW i \in S
      PROVE  /\ u[i] \in Mem /\ u[i].text = mem[i].text /\ u[i].chan = mem[i].chan
             /\ mem[i].locked => [u[i] EXCEPT !.vec = mem[i].vec] = mem[i]
  <2>1. u[i] = Redated(mem[i])
    BY <1>1
  <2> HIDE DEF u, S
  <2> QED
    BY <2>1, <1>2, <1>3
<1>6. u = [i \in HealthIds |-> IF i \in S THEN u[i] ELSE mem[i]]
  OBVIOUS
<1>7. FutureTimestamp = Retouched(u)
  BY DEF FutureTimestamp, Patched
<1> HIDE DEF u, S
<1> QED
  BY <1>1, <1>5, <1>6, <1>7, PatchSound

LEMMA FormatDriftSound ==
    ASSUME HealthTypes
    PROVE  SoundOutcome(FormatDrift)
<1> DEFINE S == {i \in Unlocked(mem) : mem[i].stamp = "aware"}
           u == [i \in HealthIds |-> IF i \in S THEN Redated(mem[i]) ELSE mem[i]]
<1>1. S \subseteq MemIds(mem) /\ S \subseteq HealthIds
  BY DEF MemIds, Unlocked
<1>2. \A i \in S : mem[i] \in Mem /\ ~mem[i].locked
  BY <1>1 DEF HealthTypes, HealthTable, MemIds, Unlocked
<1>3. ASSUME NEW r \in Mem
      PROVE  Redated(r) \in Mem /\ Redated(r).text = r.text /\ Redated(r).chan = r.chan
  BY DEF Redated, Mem, Stamps
<1>5. ASSUME NEW i \in S
      PROVE  /\ u[i] \in Mem /\ u[i].text = mem[i].text /\ u[i].chan = mem[i].chan
             /\ mem[i].locked => [u[i] EXCEPT !.vec = mem[i].vec] = mem[i]
  <2>1. u[i] = Redated(mem[i])
    BY <1>1
  <2> HIDE DEF u, S
  <2> QED
    BY <2>1, <1>2, <1>3
<1>6. u = [i \in HealthIds |-> IF i \in S THEN u[i] ELSE mem[i]]
  OBVIOUS
<1>7. FormatDrift = Retouched(u)
  BY DEF FormatDrift, Patched
<1> HIDE DEF u, S
<1> QED
  BY <1>1, <1>5, <1>6, <1>7, PatchSound

\* schema_objects and the checks of episodes and profiles write no row of the table.
LEMMA UntouchedSound ==
    ASSUME HealthTypes, NEW o
    PROVE  SoundOutcome(Retouched(mem)) /\ SoundOutcome(OthersAs(o))
<1>1. \A i \in MemIds(mem) : mem[i] \in Mem
  BY DEF HealthTypes, HealthTable, MemIds
<1>2. \A r \in Mem : [r EXCEPT !.vec = r.vec] = r
  BY DEF Mem
<1>3. SoundOutcome(Retouched(mem))
  BY <1>1, <1>2, RetouchedSound DEF HealthTypes
<1>4. /\ OthersAs(o).mem = Retouched(mem).mem /\ OthersAs(o).links = Retouched(mem).links
      /\ OthersAs(o).fx = Retouched(mem).fx
  BY DEF OthersAs, Retouched, Leaves
<1> QED
  BY <1>3, <1>4 DEF SoundOutcome

LEMMA DedupMsgIdIndexSound ==
    ASSUME HealthTypes
    PROVE  SoundOutcome(DedupMsgIdIndex)
<1> DEFINE S == {i \in Messaged : ~mem[i].locked /\ i # MsgKeeper}
           u == [i \in HealthIds |-> IF i \in S THEN Unmessaged(mem[i]) ELSE mem[i]]
<1>1. S \subseteq MemIds(mem) /\ S \subseteq HealthIds
  BY DEF Messaged, MemIds
<1>2. \A i \in S : mem[i] \in Mem /\ ~mem[i].locked
  BY <1>1 DEF HealthTypes, HealthTable, MemIds
<1>3. ASSUME NEW r \in Mem
      PROVE  Unmessaged(r) \in Mem /\ Unmessaged(r).text = r.text /\ Unmessaged(r).chan = r.chan
  BY DEF Unmessaged, Mem
<1>5. ASSUME NEW i \in S
      PROVE  /\ u[i] \in Mem /\ u[i].text = mem[i].text /\ u[i].chan = mem[i].chan
             /\ mem[i].locked => [u[i] EXCEPT !.vec = mem[i].vec] = mem[i]
  <2>1. u[i] = Unmessaged(mem[i])
    BY <1>1
  <2> HIDE DEF u, S
  <2> QED
    BY <2>1, <1>2, <1>3
<1>6. u = [i \in HealthIds |-> IF i \in S THEN u[i] ELSE mem[i]]
  OBVIOUS
<1>7. DedupMsgIdIndex = (IF "msg_id" \in uniques THEN Retouched(mem) ELSE Retouched(u))
  BY DEF DedupMsgIdIndex, Patched
<1>8. SoundOutcome(Retouched(u))
  <2> HIDE DEF u, S
  <2> QED
    BY <1>1, <1>5, <1>6, PatchSound
<1> QED
  BY <1>7, <1>8, UntouchedSound

\* A surplus copy leaves a copy its readers see, which is not surplus itself.
LEMMA DuplicateContentSound ==
    ASSUME HealthTypes
    PROVE  SoundOutcome(DuplicateContent)
<1> DEFINE surplus == {i \in Unlocked(mem) : Covered(i)}
           keep(i) == KeeperOf(mem, IF SharedCopies(i) # {} THEN SharedCopies(i) ELSE BucketCopies(i))
           l == linked \cup {keep(i) : i \in surplus \cap linked}
<1>1. ASSUME NEW i \in Unlocked(mem)
      PROVE  keep(i) \in MemIds(mem) /\ Heir(mem[i], mem[keep(i)]) /\ ~Covered(keep(i))
  <2>0. i \in MemIds(mem)
    BY DEF Unlocked
  <2>1. CASE SharedCopies(i) # {}
    <3> DEFINE k == KeeperOf(mem, SharedCopies(i))
    <3>1. SharedCopies(i) \subseteq HealthIds
      BY DEF SharedCopies, Copies, MemIds
    <3>2. k \in SharedCopies(i)
      BY <2>1, <3>1, KeeperIsCopy
    <3>3. k \in MemIds(mem) /\ mem[k].text = mem[i].text /\ mem[k].chan = ""
      BY <3>2 DEF SharedCopies, Copies
    <3>4. BucketCopies(k) = SharedCopies(i)
      BY <3>3 DEF BucketCopies, SharedCopies, Copies, SameChan
    <3>5. ~Covered(k)
      BY <3>3, <3>4 DEF Covered
    <3>6. Heir(mem[i], mem[k])
      BY <3>3 DEF Heir
    <3>7. keep(i) = k
      BY <2>1
    <3> QED
      BY <3>3, <3>5, <3>6, <3>7
  <2>2. CASE SharedCopies(i) = {}
    <3> DEFINE k == KeeperOf(mem, BucketCopies(i))
    <3>1. BucketCopies(i) \subseteq HealthIds /\ i \in BucketCopies(i)
      BY <2>0 DEF BucketCopies, Copies, MemIds, SameChan
    <3>2. k \in BucketCopies(i)
      BY <3>1, KeeperIsCopy
    <3>3. k \in MemIds(mem) /\ mem[k].text = mem[i].text /\ mem[i].chan = mem[k].chan
      BY <3>2 DEF BucketCopies, Copies, SameChan
    <3>4. BucketCopies(k) = BucketCopies(i) /\ SharedCopies(k) = SharedCopies(i)
      BY <3>3 DEF BucketCopies, SharedCopies, Copies, SameChan
    <3>5. ~Covered(k)
      BY <2>2, <3>3, <3>4 DEF Covered
    <3>6. Heir(mem[i], mem[k])
      BY <3>3 DEF Heir
    <3>7. keep(i) = k
      BY <2>2
    <3> QED
      BY <3>3, <3>5, <3>6, <3>7
  <2> QED
    BY <2>1, <2>2
<1>2. surplus \subseteq Unlocked(mem) /\ linked \subseteq l
  OBVIOUS
<1>3. l \subseteq HealthIds
  BY <1>1 DEF HealthTypes, MemIds
<1>4. ASSUME NEW i \in surplus
      PROVE  \E j \in MemIds(mem) \ surplus : Heir(mem[i], mem[j]) /\ (i \in linked => j \in l)
  <2>1. keep(i) \in MemIds(mem) /\ Heir(mem[i], mem[keep(i)]) /\ keep(i) \notin surplus
    BY <1>1
  <2>2. i \in linked => keep(i) \in l
    OBVIOUS
  <2> HIDE DEF keep, l, surplus
  <2> QED
    BY <2>1, <2>2
<1>5. DuplicateContent = Deleted(surplus, l)
  BY DEF DuplicateContent
<1> HIDE DEF keep, l, surplus
<1> QED
  BY <1>2, <1>3, <1>4, <1>5, DeletedSound

LEMMA ContentDeletedSound ==
    ASSUME HealthTypes
    PROVE  SoundOutcome(EmptyContent) /\ SoundOutcome(ShortContent)
<1>1. linked \subseteq linked /\ linked \subseteq HealthIds
  BY DEF HealthTypes
<1> DEFINE blank == {i \in Unlocked(mem) : mem[i].text = Blank}
           short == {i \in Unlocked(mem) : mem[i].text.body = ""}
<1>2. blank \subseteq Unlocked(mem) /\ short \subseteq Unlocked(mem)
  OBVIOUS
<1>3. ASSUME NEW i \in blank  PROVE mem[i].text.body = ""
  <2>1. mem[i].text = Blank
    OBVIOUS
  <2>2. Blank.body = ""
    BY DEF Blank
  <2> QED
    BY <2>1, <2>2
<1>4. \A i \in short : mem[i].text.body = ""
  OBVIOUS
<1>5. EmptyContent = Deleted(blank, linked) /\ ShortContent = Deleted(short, linked)
  BY DEF EmptyContent, ShortContent
<1> HIDE DEF blank, short
<1>6. SoundOutcome(Deleted(blank, linked))
  BY <1>1, <1>2, <1>3, DeletedSound
<1>7. SoundOutcome(Deleted(short, linked))
  BY <1>1, <1>2, <1>4, DeletedSound
<1> QED
  BY <1>5, <1>6, <1>7

LEMMA RepairSound ==
    ASSUME HealthTypes, NEW name
    PROVE  SoundOutcome(Repair(name))
<1>1. SoundOutcome(MemoryAnnotation) /\ SoundOutcome(DiscordMention) /\ SoundOutcome(OversizedContent)
  <2>1. \A defect : Defective(defect) \subseteq Unlocked(mem)
    BY DEF Defective
  <2> QED
    BY <2>1, RewrittenSound DEF MemoryAnnotation, DiscordMention, OversizedContent
<1>2. /\ SoundOutcome(UnusableEmbedding) /\ SoundOutcome(InvalidJson) /\ SoundOutcome(InvalidSourceType)
      /\ SoundOutcome(InvalidTimestamp) /\ SoundOutcome(FutureTimestamp) /\ SoundOutcome(FormatDrift)
  BY UnusableEmbeddingSound, InvalidJsonSound, InvalidSourceTypeSound, InvalidTimestampSound,
     FutureTimestampSound, FormatDriftSound
<1>3. SoundOutcome(DuplicateContent) /\ SoundOutcome(EmptyContent) /\ SoundOutcome(ShortContent)
  BY DuplicateContentSound, ContentDeletedSound
<1>4. SoundOutcome(DedupMsgIdIndex)
  BY DedupMsgIdIndexSound
<1>5. /\ SoundOutcome(MissingEpisodeStartTime) /\ SoundOutcome(EpisodeFormatDrift)
      /\ SoundOutcome(FutureEpisodeTimestamp) /\ SoundOutcome(OversizedProfile)
      /\ SoundOutcome(Retouched(mem))
  BY UntouchedSound DEF MissingEpisodeStartTime, EpisodeFormatDrift, FutureEpisodeTimestamp, OversizedProfile
<1> QED
  BY <1>1, <1>2, <1>3, <1>4, <1>5 DEF Repair

\* The last effects after one more list of effects.
LEMMA FinalAppended ==
    ASSUME NEW f \in Seq(HealthEffects), NEW e \in HealthEffects, LastNoted(f)
    PROVE  /\ LastNoted(Append(f, e))
           /\ FinalOf(Append(f, e)) = [i \in HealthIds |-> IF e[i] # Same THEN e[i] ELSE FinalOf(f)[i]]
<1> DEFINE g == Append(f, e)
<1>1. Len(f) \in Nat /\ DOMAIN f = 1..Len(f) /\ DOMAIN g = 1..(Len(f) + 1)
  OBVIOUS
<1>2. g[Len(f) + 1] = e /\ \A k \in 1..Len(f) : g[k] = f[k]
  OBVIOUS
<1> HIDE DEF g
<1>3. ASSUME NEW i \in HealthIds
      PROVE  /\ NotedIn(g, i) # {} => \E m \in NotedIn(g, i) : \A k \in NotedIn(g, i) : m >= k
             /\ FinalOf(g)[i] = IF e[i] # Same THEN e[i] ELSE FinalOf(f)[i]
  <2>1. CASE e[i] # Same
    <3>1. Len(f) + 1 \in NotedIn(g, i) /\ \A k \in NotedIn(g, i) : k \in Nat /\ Len(f) + 1 >= k
      BY <2>1, <1>1, <1>2 DEF NotedIn
    <3>2. Largest(NotedIn(g, i)) = Len(f) + 1
      <4>1. \A h \in NotedIn(g, i) : (\A k \in NotedIn(g, i) : h >= k) => h = Len(f) + 1
        BY <3>1, <1>1
      <4> QED
        BY <3>1, <4>1 DEF Largest
    <3>3. FinalOf(g)[i] = g[Len(f) + 1][i]
      BY <3>1, <3>2 DEF FinalOf, NotedIn
    <3> QED
      BY <3>1, <3>3, <2>1, <1>2
  <2>2. CASE e[i] = Same
    <3>1. NotedIn(g, i) = NotedIn(f, i)
      <4> SUFFICES ASSUME NEW k  PROVE k \in NotedIn(g, i) <=> k \in NotedIn(f, i)
        OBVIOUS
      <4>1. CASE k \in 1..Len(f)
        BY <4>1, <1>1, <1>2 DEF NotedIn
      <4>2. CASE k = Len(f) + 1
        BY <4>2, <2>2, <1>1, <1>2 DEF NotedIn
      <4>3. CASE k \notin 1..Len(f) /\ k # Len(f) + 1
        <5>1. k \notin 1..(Len(f) + 1)
          BY <4>3, <1>1
        <5> QED
          BY <5>1, <4>3, <1>1 DEF NotedIn
      <4> QED
        BY <4>1, <4>2, <4>3
    <3>2. NotedIn(f, i) # {} => \E m \in NotedIn(f, i) : \A k \in NotedIn(f, i) : m >= k
      BY DEF LastNoted
    <3>3. CASE NotedIn(f, i) = {}
      <4>1. FinalOf(g)[i] = Same /\ FinalOf(f)[i] = Same
        BY <3>1, <3>3 DEF FinalOf, NotedIn
      <4> QED
        BY <4>1, <3>1, <3>3, <2>2
    <3>4. CASE NotedIn(f, i) # {}
      <4>1. Largest(NotedIn(f, i)) \in NotedIn(f, i)
        BY <3>2, <3>4 DEF Largest
      <4>2. Largest(NotedIn(f, i)) \in 1..Len(f)
        BY <4>1, <1>1 DEF NotedIn
      <4>3. FinalOf(g)[i] = g[Largest(NotedIn(f, i))][i] /\ FinalOf(f)[i] = f[Largest(NotedIn(f, i))][i]
        BY <3>1, <3>4 DEF FinalOf, NotedIn
      <4> QED
        BY <4>2, <4>3, <1>2, <3>1, <3>2, <2>2
    <3> QED
      BY <3>3, <3>4
  <2> QED
    BY <2>1, <2>2
<1>4. FinalOf(g) = [i \in HealthIds |-> FinalOf(g)[i]]
  BY DEF FinalOf
<1>5. FinalOf(g) = [i \in HealthIds |-> IF e[i] # Same THEN e[i] ELSE FinalOf(f)[i]]
  BY <1>3, <1>4
<1>6. LastNoted(g)
  BY <1>3 DEF LastNoted
<1> QED
  BY <1>5, <1>6 DEF g

\* Effects told one after the other.
LEMMA TellsOn ==
    ASSUME NEW t, NEW u, NEW v, NEW f, NEW e, Told(t, f, u), Told(u, e, v)
    PROVE  Told(t, [i \in HealthIds |-> IF e[i] # Same THEN e[i] ELSE f[i]], v)
<1> DEFINE b == [i \in HealthIds |-> IF e[i] # Same THEN e[i] ELSE f[i]]
<1> SUFFICES ASSUME NEW i \in HealthIds
             PROVE  CASE b[i] = Gone -> t[i] # NoMem /\ v[i] = NoMem
                      [] b[i] = Same -> (t[i] = NoMem <=> v[i] = NoMem) /\ (t[i] # NoMem => v[i].text = t[i].text)
                      [] OTHER       -> t[i] # NoMem /\ v[i] # NoMem /\ v[i].text = b[i]
  BY DEF Told
<1>1. b[i] = IF e[i] # Same THEN e[i] ELSE f[i]
  OBVIOUS
<1>2. (CASE f[i] = Gone -> t[i] # NoMem /\ u[i] = NoMem
        [] f[i] = Same -> (t[i] = NoMem <=> u[i] = NoMem) /\ (t[i] # NoMem => u[i].text = t[i].text)
        [] OTHER       -> t[i] # NoMem /\ u[i] # NoMem /\ u[i].text = f[i])
  BY DEF Told
<1>3. (CASE e[i] = Gone -> u[i] # NoMem /\ v[i] = NoMem
        [] e[i] = Same -> (u[i] = NoMem <=> v[i] = NoMem) /\ (u[i] # NoMem => v[i].text = u[i].text)
        [] OTHER       -> u[i] # NoMem /\ v[i] # NoMem /\ v[i].text = e[i])
  BY DEF Told
<1> HIDE DEF b
<1>4. Same # Gone
  BY HealthTextsAreTexts
<1> QED
  BY <1>1, <1>2, <1>3, <1>4

\* What the properties ask follows from what every run keeps.
LEMMA InvLosesNothing ==
    ASSUME HealthInv
    PROVE  RepairLosesNothing
<1> SUFFICES ASSUME NEW i \in MemIds(before.mem)
             PROVE  LET r == before.mem[i]
                        heirs == {j \in MemIds(mem) : mem[j].chan \in {r.chan, ""} /\ Clean(mem[j].text) = Clean(r.text)}
                    IN  /\ r.locked => mem[i] # NoMem /\ [mem[i] EXCEPT !.vec = r.vec] = r
                        /\ r.text.body # "" => /\ heirs # {}
                                               /\ i \in before.links => heirs \cap linked # {}
  BY DEF RepairLosesNothing
<1>1. /\ before.mem[i].locked => mem[i] # NoMem /\ [mem[i] EXCEPT !.vec = before.mem[i].vec] = before.mem[i]
      /\ before.mem[i].text.body # "" =>
           \E j \in MemIds(mem) : Heir(before.mem[i], mem[j]) /\ (i \in before.links => j \in linked)
  BY DEF HealthInv, Inherits
<1> QED
  BY <1>1 DEF Heir

LEMMA InvRemoteFollows ==
    ASSUME HealthInv
    PROVE  RemoteFollowsRepairs
<1> SUFFICES ASSUME fixing.pc \in {"embed", "done"}, ~fixing.failed, NEW i \in HealthIds, before.mem[i] # NoMem
             PROVE  IF mem[i] = NoMem THEN synced[i] = Gone
                    ELSE synced[i] # Gone /\ (synced[i] = mem[i].text \/ before.mem[i].text = mem[i].text)
  BY DEF RemoteFollowsRepairs
<1>1. Told(before.mem, FinalOf(fx), mem)
  BY DEF HealthInv, EffectsTell
<1>2. synced[i] = IF FinalOf(fx)[i] = Same THEN before.mem[i].text ELSE FinalOf(fx)[i]
  BY DEF HealthInv, RemoteTold, TextsOf
<1>3. (CASE FinalOf(fx)[i] = Gone -> mem[i] = NoMem
        [] FinalOf(fx)[i] = Same -> mem[i] # NoMem /\ mem[i].text = before.mem[i].text
        [] OTHER       -> mem[i] # NoMem /\ mem[i].text = FinalOf(fx)[i])
  BY <1>1 DEF Told
<1>4. before.mem[i].text # Gone /\ Same # Gone
  BY HealthTextsAreTexts DEF HealthInv, HealthTypes, HealthTable, Mem
<1> QED
  BY <1>2, <1>3, <1>4

----------------------------------------------------------------------------
LEMMA HealthStarts ==
    ASSUME HealthInit
    PROVE  HealthInv
<1>1. mem \in HealthTable /\ before = [mem |-> mem, links |-> linked] /\ linked = {} /\ MemIds(mem) = {}
  BY DEF HealthInit, HealthTable, MemIds
<1>2. fixing \in HealthRuns /\ fixing.pc = "idle"
  BY DEF HealthInit, NoRun, HealthRuns
<1>3. HealthTypes /\ EffectsTell
  BY <1>1, <1>2 DEF HealthTypes, EffectsTell
<1>4. synced = TextsOf(before.mem)
  BY <1>1 DEF HealthInit, TextsOf
<1>5. RemoteTold
  BY <1>2, <1>4 DEF RemoteTold
<1>6. Inherits(before.mem, before.links, mem, linked)
  BY <1>1 DEF Inherits
<1> QED
  BY <1>3, <1>5, <1>6 DEF HealthInv

LEMMA OpenKeeps ==
    ASSUME HealthInv, OpenStore
    PROVE  HealthInv'
<1>1. fixing \in HealthRuns /\ fixing.pc = "idle" /\ fixing' = fixing
  BY DEF OpenStore, HealthInv, HealthTypes
<1>2. mem' \in HealthTable
  <2>1. TextRows \subseteq Mem
    BY HealthTextsAreTexts DEF TextRows, Mem, Stamps, HealthSources
  <2>2. ColumnRows \subseteq Mem
    BY HealthTextsAreTexts, HealthConstants DEF ColumnRows, Mem
  <2>3. Stores \subseteq HealthTable
    BY <2>1, <2>2 DEF Stores, HealthTable
  <2> QED
    BY <2>3 DEF OpenStore, HealthInv, HealthTypes
<1>3. linked' \subseteq HealthIds
  BY DEF OpenStore, MemIds
<1>4. before' = [mem |-> mem', links |-> linked']
  BY DEF OpenStore
<1>5. before'.mem = mem' /\ before'.links = linked'
  BY <1>4
<1>6. HealthTypes' /\ EffectsTell'
  BY <1>1, <1>2, <1>3, <1>4, <1>5 DEF HealthTypes, EffectsTell
<1>7. synced' = TextsOf(mem')
  BY DEF OpenStore, TextsOf
<1>8. RemoteTold'
  BY <1>1, <1>5, <1>7 DEF RemoteTold
<1>9. Inherits(mem', linked', mem', linked')
  BY <1>2, InheritsSame
<1> QED
  BY <1>5, <1>6, <1>8, <1>9 DEF HealthInv

LEMMA StartFixKeeps ==
    ASSUME HealthInv, NEW order \in {HealthOrder, DeepOrder}, StartFix(order)
    PROVE  HealthInv'
<1>1. fixing'.pc = "checks" /\ fixing' \in HealthRuns
  BY DEF StartFix, NoRun, HealthRuns
<1>2. /\ fixing.pc = "idle" /\ fx' = <<>> /\ mem' = mem /\ linked' = linked /\ synced' = synced
      /\ before' = [mem |-> mem, links |-> linked] /\ before.mem = mem /\ before.links = linked
  BY DEF StartFix, HealthInv, EffectsTell
<1>3. mem \in HealthTable /\ linked \subseteq HealthIds
  BY DEF HealthInv, HealthTypes
<1>4. before'.mem = mem' /\ before'.links = linked'
  BY <1>2
<1>5. HealthTypes'
  BY <1>1, <1>2, <1>3, <1>4 DEF HealthTypes
<1>6. \A i \in HealthIds : NotedIn(<<>>, i) = {}
  BY DEF NotedIn
<1>7. LastNoted(fx')
  BY <1>2, <1>6 DEF LastNoted
<1>8. \A i \in HealthIds : FinalOf(fx')[i] = Same
  BY <1>2, <1>6 DEF FinalOf, NotedIn
<1>9. Told(mem', FinalOf(fx'), mem')
  BY <1>8, HealthTextsAreTexts DEF Told
<1>10. EffectsTell'
  BY <1>1, <1>4, <1>7, <1>9 DEF EffectsTell
<1>11. RemoteTold'
  BY <1>1, <1>2, <1>4 DEF HealthInv, RemoteTold
<1>12. Inherits(mem', linked', mem', linked')
  BY <1>2, <1>3, InheritsSame
<1> QED
  BY <1>4, <1>5, <1>10, <1>11, <1>12 DEF HealthInv

LEMMA OnwardRuns ==
    ASSUME fixing \in HealthRuns
    PROVE  Onward \in HealthRuns /\ Onward.pc \in {"checks", "commit"}
<1>1. PICK pc \in {"checks", "commit"} : pc = IF Ended THEN "commit" ELSE "checks"
  OBVIOUS
<1>2. Onward = [fixing EXCEPT !.at = fixing.at + 1, !.pc = pc]
  BY <1>1 DEF Onward
<1>3. fixing.at + 1 \in Nat
  BY DEF HealthRuns
<1> QED
  BY <1>2, <1>3 DEF HealthRuns

\* A check and its effects.
LEMMA RunCheckKeeps ==
    ASSUME HealthInv, RunCheck
    PROVE  HealthInv'
<1>1. PICK out : out = Repair(NextCheck)
  OBVIOUS
<1>2. SoundOutcome(out)
  BY <1>1, RepairSound DEF HealthInv
<1>3. /\ fixing.pc = "checks" /\ mem' = out.mem /\ linked' = out.links /\ fx' = Append(fx, out.fx)
      /\ fixing' = Onward /\ synced' = synced /\ before' = before
  BY <1>1 DEF RunCheck
<1>4. fixing' \in HealthRuns /\ fixing'.pc \in {"checks", "commit"}
  BY <1>3, OnwardRuns DEF HealthInv, HealthTypes
<1>5. fx \in Seq(HealthEffects) /\ LastNoted(fx) /\ Told(before.mem, FinalOf(fx), mem)
  BY <1>3 DEF HealthInv, HealthTypes, EffectsTell
<1>6. fx' \in Seq(HealthEffects)
  BY <1>2, <1>3, <1>5 DEF SoundOutcome
<1>7. HealthTypes'
  BY <1>2, <1>3, <1>4, <1>6 DEF SoundOutcome, HealthInv, HealthTypes
<1>8. /\ LastNoted(fx')
      /\ FinalOf(fx') = [i \in HealthIds |-> IF out.fx[i] # Same THEN out.fx[i] ELSE FinalOf(fx)[i]]
  BY <1>2, <1>3, <1>5, FinalAppended DEF SoundOutcome
<1>9. Told(before.mem, FinalOf(fx'), mem')
  BY <1>2, <1>3, <1>5, <1>8, TellsOn DEF SoundOutcome
<1>10. EffectsTell'
  BY <1>3, <1>4, <1>8, <1>9 DEF EffectsTell
<1>11. RemoteTold'
  BY <1>3, <1>4 DEF HealthInv, RemoteTold
<1>12. Inherits(before.mem, before.links, mem', linked')
  BY <1>2, <1>3, InheritsOn DEF SoundOutcome, HealthInv, HealthTypes
<1> QED
  BY <1>3, <1>7, <1>10, <1>11, <1>12 DEF HealthInv

\* A check rolled back, with its effects.
LEMMA CrashKeeps ==
    ASSUME HealthInv, CheckCrashes
    PROVE  HealthInv'
<1>1. PICK out : out = Repair(NextCheck)
  OBVIOUS
<1>2. out.fx \in HealthEffects
  BY <1>1, RepairSound DEF HealthInv, SoundOutcome
<1>3. /\ fixing.pc = "checks" /\ mem' = mem /\ linked' = linked /\ fx' = SubSeq(Append(fx, out.fx), 1, Len(fx))
      /\ fixing' = [Onward EXCEPT !.crashed = TRUE] /\ synced' = synced /\ before' = before
  BY <1>1 DEF CheckCrashes
<1>4. fixing' \in HealthRuns /\ fixing'.pc \in {"checks", "commit"}
  <2>1. fixing \in HealthRuns
    BY DEF HealthInv, HealthTypes
  <2>2. Onward \in HealthRuns /\ Onward.pc \in {"checks", "commit"}
    BY <2>1, OnwardRuns
  <2> QED
    BY <1>3, <2>2 DEF HealthRuns
<1>5. fx \in Seq(HealthEffects)
  BY <1>3 DEF HealthInv, HealthTypes
<1>6. fx' = fx
  <2>1. Append(fx, out.fx) \in Seq(HealthEffects) /\ Len(fx) \in Nat /\ Len(Append(fx, out.fx)) = Len(fx) + 1
    BY <1>2, <1>5
  <2>2. fx' \in Seq(HealthEffects) /\ Len(fx') = Len(fx) /\ \A k \in 1..Len(fx) : fx'[k] = Append(fx, out.fx)[k]
    BY <1>3, <2>1
  <2>3. \A k \in 1..Len(fx) : fx'[k] = fx[k]
    BY <2>2, <1>2, <1>5
  <2> QED
    BY <2>2, <2>3, <1>5
<1> QED
  BY <1>3, <1>4, <1>6 DEF HealthInv, HealthTypes, EffectsTell, RemoteTold

LEMMA CommitKeepsFx ==
    ASSUME HealthInv, AfterRepairsCommit
    PROVE  HealthInv'
<1> DEFINE removed == {i \in HealthIds : FinalStates[i] = Gone}
           indexed == {i \in HealthIds : FinalStates[i] \notin {Gone, Same}}
<1>1. PICK posted \in {{}, removed, removed \cup indexed} :
        /\ synced' = [i \in HealthIds |-> IF i \in posted THEN FinalStates[i] ELSE synced[i]]
        /\ fixing' = [fixing EXCEPT !.pc = "embed", !.failed = posted # removed \cup indexed]
  BY DEF AfterRepairsCommit
<1>2. fixing.pc = "commit" /\ mem' = mem /\ linked' = linked /\ fx' = fx /\ before' = before /\ FinalStates = FinalOf(fx)
  BY DEF AfterRepairsCommit, FinalStates, FinalOf, NotedIn
<1>3. /\ fixing' \in HealthRuns /\ fixing'.pc = "embed"
      /\ ~fixing'.failed => posted = removed \cup indexed
  <2>1. (posted # removed \cup indexed) \in BOOLEAN
    OBVIOUS
  <2> HIDE DEF removed, indexed
  <2> QED
    BY <1>1, <2>1 DEF HealthRuns, HealthInv, HealthTypes
<1>4. synced = TextsOf(before.mem)
  BY <1>2 DEF HealthInv, RemoteTold
<1>5. ASSUME ~fixing'.failed
      PROVE  synced' = [i \in HealthIds |-> IF FinalOf(fx)[i] = Same THEN TextsOf(before.mem)[i] ELSE FinalOf(fx)[i]]
  <2>1. \A i \in HealthIds : i \in posted <=> FinalStates[i] # Same
    BY <1>3, <1>5, HealthTextsAreTexts
  <2> HIDE DEF removed, indexed
  <2> QED
    BY <2>1, <1>1, <1>2, <1>4
<1> QED
  BY <1>2, <1>3, <1>5 DEF HealthInv, HealthTypes, EffectsTell, RemoteTold

\* The second pass fills in vectors.
LEMMA SecondPassKeeps ==
    ASSUME HealthInv, SecondPass
    PROVE  HealthInv'
<1>1. /\ fixing.pc = "embed" /\ fixing' = [fixing EXCEPT !.pc = "done"]
      /\ linked' = linked /\ synced' = synced /\ fx' = fx /\ before' = before
  BY DEF SecondPass
<1>2. fixing' \in HealthRuns /\ fixing'.pc = "done" /\ fixing'.failed = fixing.failed
  BY <1>1 DEF HealthInv, HealthTypes, HealthRuns
<1>3. mem \in HealthTable
  BY DEF HealthInv, HealthTypes
<1>4. /\ mem' \in HealthTable
      /\ \A i \in HealthIds : mem'[i] = NoMem <=> mem[i] = NoMem
      /\ \A i \in MemIds(mem) : /\ mem'[i].text = mem[i].text /\ mem'[i].chan = mem[i].chan
                                /\ [mem'[i] EXCEPT !.vec = mem[i].vec] = mem[i]
  <2>1. CASE mem' = mem
    <3>1. \A r \in Mem : [r EXCEPT !.vec = r.vec] = r
      BY DEF Mem
    <3>2. \A i \in MemIds(mem) : mem[i] \in Mem
      BY <1>3 DEF HealthTable, MemIds
    <3> QED
      BY <2>1, <3>1, <3>2, <1>3
  <2>2. CASE mem' = [i \in HealthIds |-> IF mem[i] = NoMem THEN NoMem
                        ELSE IF mem[i].vec = "none" THEN [mem[i] EXCEPT !.vec = "good"] ELSE mem[i]]
    <3>1. ASSUME NEW i \in HealthIds, mem[i] # NoMem
          PROVE  /\ mem'[i] \in Mem /\ mem'[i].text = mem[i].text /\ mem'[i].chan = mem[i].chan
                 /\ [mem'[i] EXCEPT !.vec = mem[i].vec] = mem[i]
      <4>1. mem[i] \in Mem
        BY <3>1, <1>3 DEF HealthTable
      <4>2. mem'[i] = IF mem[i].vec = "none" THEN [mem[i] EXCEPT !.vec = "good"] ELSE mem[i]
        BY <2>2, <3>1
      <4> QED
        BY <4>1, <4>2 DEF Mem
    <3>2. \A i \in HealthIds : mem[i] = NoMem => mem'[i] = NoMem
      BY <2>2
    <3>3. mem' \in HealthTable
      BY <2>2, <3>1, <3>2 DEF HealthTable
    <3> QED
      BY <3>1, <3>2, <3>3, NoMemAssumption DEF MemIds
  <2> QED
    BY <2>1, <2>2 DEF SecondPass
<1>5. SoundOutcome(Retouched(mem'))
  BY <1>4, RetouchedSound DEF HealthInv
<1>6. Inherits(mem, linked, mem', linked)
  BY <1>5 DEF SoundOutcome, Retouched, Leaves
<1>7. Inherits(before.mem, before.links, mem', linked)
  BY <1>3, <1>4, <1>6, InheritsOn DEF HealthInv, HealthTypes
<1>8. Told(before.mem, FinalOf(fx), mem')
  <2>1. Told(before.mem, FinalOf(fx), mem)
    BY <1>1 DEF HealthInv, EffectsTell
  <2> QED
    BY <2>1, <1>4 DEF Told, MemIds
<1>9. HealthTypes'
  BY <1>1, <1>2, <1>4 DEF HealthInv, HealthTypes
<1>10. EffectsTell'
  BY <1>1, <1>2, <1>8 DEF HealthInv, EffectsTell
<1>11. RemoteTold'
  BY <1>1, <1>2 DEF HealthInv, RemoteTold
<1> QED
  BY <1>1, <1>7, <1>9, <1>10, <1>11 DEF HealthInv

LEMMA HealthKept == HealthSpec => []HealthInv
<1>1. HealthInit => HealthInv
  BY HealthStarts
<1>2. HealthInv /\ [HealthNext]_healthVars => HealthInv'
  <2> SUFFICES ASSUME HealthInv, [HealthNext]_healthVars  PROVE HealthInv'
    OBVIOUS
  <2>1. CASE HealthNext
    BY <2>1, OpenKeeps, StartFixKeeps, RunCheckKeeps, CrashKeeps, CommitKeepsFx, SecondPassKeeps DEF HealthNext
  <2>2. CASE UNCHANGED healthVars
    BY <2>2 DEF healthVars, HealthInv, HealthTypes, EffectsTell, RemoteTold
  <2> QED
    BY <2>1, <2>2
<1> QED
  BY <1>1, <1>2, PTL DEF HealthSpec

\* Of what a health run found, nothing an operator wrote is lost (checks.py's repairs under
\* their savepoints): RepairLosesNothing, for any rows, channels, texts and links.
THEOREM RepairsLoseNothing == HealthSpec => []RepairLosesNothing
  BY HealthKept, InvLosesNothing, PTL

\* When the posts after the commit went through, the remote index holds every row's text
\* and no deleted row (_final_states, _sync_remote_index): RemoteFollowsRepairs.
THEOREM RemoteStaysTrue == HealthSpec => []RemoteFollowsRepairs
  BY HealthKept, InvRemoteFollows, PTL

----------------------------------------------------------------------------
(* One health run is enough.                                               *)

\* The greatest of any rows, which the keeper of a message id is.
LEMMA LargestRow ==
    ASSUME NEW S, S \subseteq HealthIds, S # {}
    PROVE  Largest(S) \in S /\ \A j \in S : Largest(S) >= j
<1> DEFINE above(x) == {y \in S : y > x}
           family   == {above(x) : x \in S}
           R        == StrictSubsetOrdering(S)
<1>1. /\ \A y \in S : y \in Nat
      /\ IsFiniteSet(S)
  BY HealthConstants, FS_Subset
<1>2. family \subseteq FiniteSubsetsOf(S) /\ family # {}
  <2>1. \A x \in S : above(x) \in SUBSET S
    OBVIOUS
  <2>2. \A x \in S : IsFiniteSet(above(x))
    BY <2>1, <1>1, FS_Subset
  <2> QED
    BY <2>1, <2>2 DEF FiniteSubsetsOf
<1>3. PICK F \in family : \A G \in family : <<G, F>> \notin R
  <2>1. IsWellFoundedOn(R, FiniteSubsetsOf(S))
    BY <1>1, FS_StrictSubsetOrderingWellFounded
  <2> HIDE DEF R, family
  <2> QED
    BY <1>2, <2>1, WFMin
<1>4. PICK x \in S : F = above(x)
  OBVIOUS
<1>5. ASSUME NEW y \in S, y > x
      PROVE  FALSE
  <2>1. y \in Nat /\ x \in Nat /\ ~(y > y) /\ \A z \in S : z > y => z > x
    BY <1>1, <1>5
  <2>2. above(y) \subseteq above(x) /\ y \in above(x) /\ y \notin above(y)
    BY <2>1, <1>5, Zenon
  <2>3. <<above(y), above(x)>> \in R
    BY <2>2 DEF StrictSubsetOrdering
  <2> HIDE DEF R
  <2> QED
    BY <2>3, <1>3, <1>4
<1>6. \A y \in S : x >= y
  BY <1>1, <1>5
<1> QED
  BY <1>6 DEF Largest

\* What a run has put right when it comes to check n, row by row ...
RowTidy(r, n) ==
    /\ n > 5 => r.vec # "bad"
    /\ ~r.locked =>
         /\ n > 1  => ~r.text.annotated
         /\ n > 2  => ~r.text.mention
         /\ n > 3  => ~r.text.long
         /\ n > 8  => r.source # "broken"
         /\ n > 9  => /\ r.stamp \notin {"foreign", "foreign_ahead"}
                      /\ r.stamp \in {"junk", "sql_only"} => ~r.dated
         /\ n > 10 => ~(r.stamp = "ahead" /\ r.dated)
         /\ n > 12 => r.stamp # "aware"
         /\ n > 15 => r.text # Blank
         /\ n > 16 => r.source # "mappable"

\* ... among the rows (a copy is covered as Covered says) ...
OwnCopies(t, i) == {j \in MemIds(t) : t[j].text = t[i].text}
BucketIn(t, i) == {j \in OwnCopies(t, i) : SameChan(t, i, j)}
SharedIn(t, i) == {j \in OwnCopies(t, i) : t[j].chan = ""}
CoveredIn(t, i) ==
    \/ i # KeeperOf(t, BucketIn(t, i))
    \/ t[i].chan # "" /\ SharedIn(t, i) # {}

TableTidy(t, n) ==
    /\ \A i \in MemIds(t) : RowTidy(t[i], n)
    /\ n > 4 => \A i \in Unlocked(t) : ~CoveredIn(t, i)

\* ... for the episode and the profile ...
OthersTidy(o, n) ==
    /\ n > 11 => ~(o.start = "missing" /\ o.dated)
    /\ n > 13 => o.start \notin {"aware", "copy", "aware_ahead"} /\ o.end \notin {"aware", "copy", "aware_ahead"}
    /\ n > 14 => ~(o.start = "ahead" /\ o.dated) /\ ~(o.end = "ahead" /\ o.dated)
    /\ n > 17 => ~o.profile_long

\* ... and for the unique indexes, in whose way only locked rows stand.
LockedPart(t) == [i \in HealthIds |-> IF t[i] = NoMem \/ ~t[i].locked THEN NoMem ELSE t[i]]

IndexTidy(t, q, n) ==
    /\ n > 6 => \/ "msg_id" \in q
                \/ (\A i \in Unlocked(t) : ~t[i].msg) /\ ~MsgUnique(LockedPart(t))
    /\ n > 7 => "content" \in q \/ ~ContentUnique(LockedPart(t))

Tidy(t, o, q, n) == TableTidy(t, n) /\ OthersTidy(o, n) /\ IndexTidy(t, q, n)

TidyInv ==
    /\ others \in Others
    /\ fixing.pc # "idle" /\ fixing.order = HealthOrder =>
         fixing.at \in (IF fixing.pc = "checks" THEN 1..17 ELSE {18})
    /\ fixing.pc # "idle" /\ fixing.order = HealthOrder /\ ~fixing.crashed =>
         Tidy(mem, others, uniques, fixing.at)

LEMMA OrderIs ==
    /\ Len(HealthOrder) = 17
    /\ HealthOrder[1] = "memory_annotation" /\ HealthOrder[2] = "discord_mention"
    /\ HealthOrder[3] = "oversized_content" /\ HealthOrder[4] = "duplicate_content"
    /\ HealthOrder[5] = "unusable_embedding" /\ HealthOrder[6] = "dedup_msg_id_index"
    /\ HealthOrder[7] = "schema_objects" /\ HealthOrder[8] = "invalid_json"
    /\ HealthOrder[9] = "invalid_timestamp" /\ HealthOrder[10] = "future_timestamp"
    /\ HealthOrder[11] = "missing_episode_start_time" /\ HealthOrder[12] = "timestamp_format_drift"
    /\ HealthOrder[13] = "episode_timestamp_format_drift" /\ HealthOrder[14] = "future_episode_timestamp"
    /\ HealthOrder[15] = "empty_content" /\ HealthOrder[16] = "invalid_source_type"
    /\ HealthOrder[17] = "oversized_profile"
  BY DEF HealthOrder

\* The text, the channel and the lock of each row are as they were.
SameTexts(t, u) ==
    \A i \in HealthIds : /\ u[i] = NoMem <=> t[i] = NoMem
                         /\ t[i] # NoMem => u[i].text = t[i].text /\ u[i].chan = t[i].chan /\ u[i].locked = t[i].locked

LEMMA CoveredBySame ==
    ASSUME NEW t, NEW u, SameTexts(t, u), NEW i \in MemIds(t)
    PROVE  CoveredIn(u, i) <=> CoveredIn(t, i)
<1>1. MemIds(u) = MemIds(t) /\ \A j \in MemIds(t) :
         u[j].text = t[j].text /\ u[j].chan = t[j].chan /\ u[j].locked = t[j].locked
  BY DEF SameTexts, MemIds
<1>2. OwnCopies(u, i) = OwnCopies(t, i) /\ OwnCopies(t, i) \subseteq MemIds(t)
  BY <1>1 DEF OwnCopies
<1>3. BucketIn(u, i) = BucketIn(t, i) /\ SharedIn(u, i) = SharedIn(t, i) /\ BucketIn(t, i) \subseteq MemIds(t)
  BY <1>1, <1>2 DEF BucketIn, SharedIn, SameChan
<1>4. {j \in BucketIn(t, i) : u[j].locked} = {j \in BucketIn(t, i) : t[j].locked}
  BY <1>1, <1>3
<1>5. KeeperOf(u, BucketIn(t, i)) = KeeperOf(t, BucketIn(t, i))
  BY <1>4 DEF KeeperOf
<1> QED
  BY <1>1, <1>3, <1>5 DEF CoveredIn

\* The keeper of some copies keeps fewer of them as well.
LEMMA KeeperOfFewer ==
    ASSUME NEW t, NEW u, NEW S, NEW T, S \subseteq HealthIds, T \subseteq S, KeeperOf(t, S) \in T,
           \A j \in T : u[j].locked = t[j].locked
    PROVE  KeeperOf(u, T) = KeeperOf(t, S)
<1> DEFINE k == KeeperOf(t, S)
           ls == {j \in S : t[j].locked}
           lt == {j \in T : u[j].locked}
<1>0. \A j \in HealthIds : j \in Nat
  BY HealthConstants
<1>1. lt \subseteq ls /\ k \in T /\ k \in S
  OBVIOUS
<1>2. ASSUME NEW A, NEW B, B \subseteq A, A \subseteq HealthIds, Smallest(A) \in B
      PROVE  Smallest(B) = Smallest(A)
  <2>1. A # {} /\ B # {}
    BY <1>2
  <2>2. Smallest(A) \in A /\ \A j \in A : Smallest(A) <= j
    BY <1>2, <2>1, SmallestRow
  <2>3. B \subseteq HealthIds
    BY <1>2
  <2>4. Smallest(B) \in B /\ \A j \in B : Smallest(B) <= j
    BY <2>1, <2>3, SmallestRow
  <2>5. Smallest(A) <= Smallest(B) /\ Smallest(B) <= Smallest(A)
    BY <1>2, <2>2, <2>4
  <2> QED
    BY <2>2, <2>4, <2>5, <1>0, <1>2
<1>3. CASE ls # {}
  <2>1. k = Smallest(ls) /\ ls \subseteq HealthIds
    BY <1>3 DEF KeeperOf
  <2>2. k \in ls
    BY <2>1, <1>3, SmallestRow
  <2>3. k \in lt
    BY <2>2, <1>1
  <2>4. KeeperOf(u, T) = Smallest(lt)
    BY <2>3 DEF KeeperOf
  <2> HIDE DEF k, ls, lt
  <2> QED
    BY <1>1, <1>2, <2>1, <2>3, <2>4 DEF k
<1>4. CASE ls = {}
  <2>1. k = Smallest(S) /\ lt = {}
    BY <1>1, <1>4 DEF KeeperOf
  <2>2. KeeperOf(u, T) = Smallest(T)
    BY <2>1 DEF KeeperOf
  <2> HIDE DEF k, ls, lt
  <2> QED
    BY <1>1, <1>2, <2>1, <2>2 DEF k
<1> QED
  BY <1>3, <1>4

\* Deleting unlocked rows makes no surplus copy.
LEMMA FewerUncovered ==
    ASSUME NEW t \in HealthTable, NEW gone, NEW i \in MemIds(t), i \notin gone, ~CoveredIn(t, i)
    PROVE  ~CoveredIn([j \in HealthIds |-> IF j \in gone THEN NoMem ELSE t[j]], i)
<1> DEFINE u == [j \in HealthIds |-> IF j \in gone THEN NoMem ELSE t[j]]
<1>1. MemIds(u) = MemIds(t) \ gone /\ \A j \in MemIds(t) \ gone : u[j] = t[j]
  BY DEF MemIds
<1> HIDE DEF u
<1>2. BucketIn(u, i) = BucketIn(t, i) \ gone /\ SharedIn(u, i) = SharedIn(t, i) \ gone
  BY <1>1 DEF BucketIn, SharedIn, OwnCopies, SameChan
<1>3. i = KeeperOf(t, BucketIn(t, i)) /\ ~(t[i].chan # "" /\ SharedIn(t, i) # {})
  BY DEF CoveredIn
<1>4. i \in BucketIn(u, i) /\ BucketIn(t, i) \subseteq HealthIds
  BY <1>1, <1>2 DEF BucketIn, OwnCopies, SameChan, MemIds
<1>5. \A j \in BucketIn(u, i) : u[j].locked = t[j].locked
  BY <1>1, <1>2 DEF BucketIn, OwnCopies
<1>8. BucketIn(u, i) \subseteq BucketIn(t, i) /\ KeeperOf(t, BucketIn(t, i)) \in BucketIn(u, i)
  BY <1>2, <1>3, <1>4
<1>6. KeeperOf(u, BucketIn(u, i)) = KeeperOf(t, BucketIn(t, i))
  BY <1>4, <1>5, <1>8, KeeperOfFewer
<1>7. ~CoveredIn(u, i)
  BY <1>1, <1>2, <1>3, <1>6, Zenon DEF CoveredIn
<1> QED
  BY <1>7 DEF u

LEMMA CoveredIsCoveredIn ==
    ASSUME NEW i
    PROVE  Covered(i) <=> CoveredIn(mem, i)
<1>1. Copies(i) = OwnCopies(mem, i)
  BY DEF Copies, OwnCopies
<1>2. BucketCopies(i) = BucketIn(mem, i)
  BY <1>1 DEF BucketCopies, BucketIn
<1>3. SharedCopies(i) = SharedIn(mem, i)
  BY <1>1 DEF SharedCopies, SharedIn
<1> QED
  BY <1>2, <1>3 DEF Covered, CoveredIn

\* A text check: no unlocked row keeps its defect, and what was put right stays so.
LEMMA RewrittenTidy ==
    ASSUME HealthTypes, NEW n \in {1, 2, 3}, TableTidy(mem, n), NEW defect,
           defect = CASE n = 1 -> "annotated" [] n = 2 -> "mention" [] n = 3 -> "long"
    PROVE  TableTidy(Rewritten(Defective(defect), defect).mem, n + 1)
<1> DEFINE S == Defective(defect)
           w == Rewritten(S, defect).mem
           write(r) == [r EXCEPT !.text = Without(r.text, defect), !.vec = "none"]
<1>1. defect \in {"annotated", "mention", "long"}
  OBVIOUS
<1>2. PICK gone : /\ gone \subseteq S
                  /\ w = [i \in HealthIds |-> IF i \in gone THEN NoMem ELSE IF i \in S THEN write(mem[i]) ELSE mem[i]]
  <2> DEFINE new(x)     == Without(x, defect)
             holds(j, i) == /\ j # i /\ SameChan(mem, i, j)
                            /\ \/ j \notin S /\ mem[j].text = new(mem[i].text)
                               \/ j \in S /\ j < i /\ new(mem[j].text) = new(mem[i].text)
             holders(i) == {j \in MemIds(mem) : holds(j, i)}
             gone == IF "content" \in uniques THEN {i \in S : holders(i) # {}} ELSE {}
  <2>1. w = [i \in HealthIds |-> IF i \in gone THEN NoMem ELSE IF i \in S THEN write(mem[i]) ELSE mem[i]]
    BY DEF Rewritten, Leaves
  <2>2. gone \subseteq S
    OBVIOUS
  <2> HIDE DEF gone, w, S, write
  <2> QED
    BY <2>1, <2>2
<1> HIDE DEF w
<1>3. S \subseteq MemIds(mem) /\ \A i \in MemIds(mem) : mem[i] \in Mem /\ RowTidy(mem[i], n)
  BY DEF Defective, Unlocked, MemIds, HealthTypes, HealthTable, TableTidy
<1>4. ASSUME NEW i \in MemIds(w)  PROVE RowTidy(w[i], n + 1)
  <2>0. i \in HealthIds /\ i \notin gone /\ i \in MemIds(mem)
    BY <1>2, <1>3 DEF MemIds
  <2>1. CASE i \in S
    <3>1. w[i] = write(mem[i]) /\ mem[i] \in Mem /\ ~mem[i].locked /\ RowTidy(mem[i], n)
      BY <2>0, <2>1, <1>2, <1>3 DEF Defective, Unlocked
    <3>2. /\ w[i].locked = mem[i].locked /\ w[i].vec = "none" /\ w[i].text = Without(mem[i].text, defect)
          /\ mem[i].text \in HealthText
      BY <3>1 DEF Mem
    <3>3. CASE n = 1
      BY <3>1, <3>2, <3>3 DEF RowTidy, Without, HealthText
    <3>4. CASE n = 2
      BY <3>1, <3>2, <3>4 DEF RowTidy, Without, HealthText
    <3>5. CASE n = 3
      BY <3>1, <3>2, <3>5 DEF RowTidy, Without, HealthText
    <3> QED
      BY <3>3, <3>4, <3>5
  <2>2. CASE i \notin S
    <3>1. w[i] = mem[i] /\ mem[i] \in Mem /\ RowTidy(mem[i], n) /\ (~mem[i].locked => ~mem[i].text[defect])
      BY <2>0, <2>2, <1>2, <1>3 DEF Defective, Unlocked
    <3>2. CASE n = 1
      BY <3>1, <3>2 DEF RowTidy
    <3>3. CASE n = 2
      BY <3>1, <3>3 DEF RowTidy
    <3>4. CASE n = 3
      BY <3>1, <3>4 DEF RowTidy
    <3> QED
      BY <3>2, <3>3, <3>4
  <2> QED
    BY <2>1, <2>2
<1>5. ~(n + 1 > 4)
  OBVIOUS
<1>6. TableTidy(w, n + 1)
  BY <1>4, <1>5 DEF TableTidy
<1> QED
  BY <1>6 DEF w

\* A deletion that takes the surplus copies, or the blank rows.
LEMMA DeletedTidy ==
    ASSUME HealthTypes, NEW n \in {4, 15}, TableTidy(mem, n), NEW gone,
           \A i \in MemIds(mem) \ gone : RowTidy(mem[i], n + 1),
           \A i \in Unlocked(mem) \ gone : ~CoveredIn(mem, i), NEW l
    PROVE  TableTidy(Deleted(gone, l).mem, n + 1)
<1> DEFINE u == [i \in HealthIds |-> IF i \in gone THEN NoMem ELSE mem[i]]
<1>1. Deleted(gone, l).mem = u
  BY DEF Deleted, Leaves
<1>2. \A i \in MemIds(u) : i \in MemIds(mem) \ gone /\ u[i] = mem[i]
  BY DEF MemIds
<1>3. \A i \in Unlocked(u) : i \in Unlocked(mem) \ gone /\ i \in MemIds(mem)
  BY <1>2 DEF Unlocked
<1>4. \A i \in Unlocked(u) : ~CoveredIn(u, i)
  BY <1>3, FewerUncovered DEF HealthTypes
<1> HIDE DEF u
<1> QED
  BY <1>1, <1>2, <1>4 DEF TableTidy

\* A patch of columns beside text, channel and lock.
LEMMA PatchTidy ==
    ASSUME NEW n \in Nat, n > 4, TableTidy(mem, n), NEW u, SameTexts(mem, u),
           \A i \in MemIds(mem) : RowTidy(u[i], n + 1)
    PROVE  TableTidy(u, n + 1)
<1>1. MemIds(u) = MemIds(mem) /\ Unlocked(u) = Unlocked(mem)
  BY DEF SameTexts, MemIds, Unlocked
<1>2. \A i \in Unlocked(mem) : ~CoveredIn(mem, i) /\ i \in MemIds(mem)
  BY DEF TableTidy, Unlocked
<1>3. \A i \in Unlocked(u) : ~CoveredIn(u, i)
  BY <1>1, <1>2, CoveredBySame
<1> QED
  BY <1>1, <1>3 DEF TableTidy

\* What a check does to the rows' message ids and locks: no new row, no lock taken off, no
\* message id given.
Lighter(t, u) ==
    \A i \in MemIds(u) : i \in MemIds(t) /\ u[i].locked = t[i].locked /\ (u[i].msg => t[i].msg)

LockedKept(t, u) ==
    \A i \in MemIds(t) : t[i].locked => u[i] # NoMem /\ [u[i] EXCEPT !.vec = t[i].vec] = t[i]

LEMMA LockedPartKept ==
    ASSUME NEW t \in HealthTable, NEW u \in HealthTable, LockedKept(t, u)
    PROVE  /\ ~MsgUnique(LockedPart(t)) => ~MsgUnique(LockedPart(u))
           /\ ~ContentUnique(LockedPart(t)) => ~ContentUnique(LockedPart(u))
<1>1. ASSUME NEW i \in MemIds(LockedPart(t))
      PROVE  /\ i \in MemIds(LockedPart(u))
             /\ LockedPart(u)[i].text = LockedPart(t)[i].text /\ LockedPart(u)[i].chan = LockedPart(t)[i].chan
             /\ LockedPart(u)[i].msg = LockedPart(t)[i].msg
  <2>1. i \in HealthIds /\ t[i] # NoMem /\ t[i].locked /\ LockedPart(t)[i] = t[i]
    BY DEF MemIds, LockedPart
  <2>2. i \in MemIds(t) /\ t[i] \in Mem
    BY <2>1 DEF MemIds, HealthTable
  <2>3. u[i] # NoMem /\ [u[i] EXCEPT !.vec = t[i].vec] = t[i]
    BY <2>1, <2>2 DEF LockedKept
  <2>4. u[i] \in Mem
    BY <2>1, <2>3 DEF HealthTable
  <2>5. u[i].locked = t[i].locked /\ u[i].text = t[i].text /\ u[i].chan = t[i].chan /\ u[i].msg = t[i].msg
    BY <2>2, <2>3, <2>4 DEF Mem
  <2>6. LockedPart(u)[i] = u[i]
    BY <2>1, <2>3, <2>5 DEF LockedPart
  <2> QED
    BY <2>1, <2>3, <2>5, <2>6 DEF MemIds
<1>2. ASSUME ~MsgUnique(LockedPart(t))  PROVE ~MsgUnique(LockedPart(u))
  <2>1. PICK i \in MemIds(LockedPart(t)), j \in MemIds(LockedPart(t)) :
           i # j /\ LockedPart(t)[i].msg /\ LockedPart(t)[j].msg
    BY <1>2 DEF MsgUnique
  <2> QED
    BY <2>1, <1>1 DEF MsgUnique
<1>3. ASSUME ~ContentUnique(LockedPart(t))  PROVE ~ContentUnique(LockedPart(u))
  <2>1. PICK i \in MemIds(LockedPart(t)), j \in MemIds(LockedPart(t)) :
           i # j /\ SameChan(LockedPart(t), i, j) /\ LockedPart(t)[i].text = LockedPart(t)[j].text
    BY <1>3 DEF ContentUnique
  <2> QED
    BY <2>1, <1>1 DEF ContentUnique, SameChan
<1> QED
  BY <1>2, <1>3

\* A check other than the two of the indexes leaves what was found of them.
LEMMA IndexesStayTidy ==
    ASSUME NEW t \in HealthTable, NEW u \in HealthTable, LockedKept(t, u), Lighter(t, u),
           NEW q, NEW n \in Nat, IndexTidy(t, q, n), n # 6, n # 7
    PROVE  IndexTidy(u, q, n + 1)
<1>1. /\ ~MsgUnique(LockedPart(t)) => ~MsgUnique(LockedPart(u))
      /\ ~ContentUnique(LockedPart(t)) => ~ContentUnique(LockedPart(u))
  BY LockedPartKept
<1>2. (\A i \in Unlocked(t) : ~t[i].msg) => \A i \in Unlocked(u) : ~u[i].msg
  BY DEF Lighter, Unlocked
<1>3. (n + 1 > 6 => n > 6) /\ (n + 1 > 7 => n > 7)
  OBVIOUS
<1> QED
  BY <1>1, <1>2, <1>3 DEF IndexTidy

\* What a check leaves of the rows, the episode and the profile.
CheckTidy(out, n) ==
    /\ TableTidy(out.mem, n + 1) /\ Lighter(mem, out.mem)
    /\ out.others \in Others /\ OthersTidy(out.others, n + 1)

LEMMA OthersStayTidy ==
    ASSUME NEW n \in 1..17, n \notin {11, 13, 14, 17}, NEW o, OthersTidy(o, n)
    PROVE  OthersTidy(o, n + 1)
<1>1. \A k \in {11, 13, 14, 17} : n + 1 > k => n > k
  OBVIOUS
<1> QED
  BY <1>1 DEF OthersTidy

LEMMA TextChecksTidy ==
    ASSUME HealthTypes, others \in Others, NEW n \in {1, 2, 3}, TableTidy(mem, n), OthersTidy(others, n),
           NEW defect, defect = CASE n = 1 -> "annotated" [] n = 2 -> "mention" [] n = 3 -> "long"
    PROVE  CheckTidy(Rewritten(Defective(defect), defect), n)
<1> DEFINE S == Defective(defect)
           w == Rewritten(S, defect).mem
           write(r) == [r EXCEPT !.text = Without(r.text, defect), !.vec = "none"]
<1>1. PICK gone : w = [i \in HealthIds |-> IF i \in gone THEN NoMem ELSE IF i \in S THEN write(mem[i]) ELSE mem[i]]
  <2> DEFINE new(x)     == Without(x, defect)
             holds(j, i) == /\ j # i /\ SameChan(mem, i, j)
                            /\ \/ j \notin S /\ mem[j].text = new(mem[i].text)
                               \/ j \in S /\ j < i /\ new(mem[j].text) = new(mem[i].text)
             holders(i) == {j \in MemIds(mem) : holds(j, i)}
             gone == IF "content" \in uniques THEN {i \in S : holders(i) # {}} ELSE {}
  <2>1. w = [i \in HealthIds |-> IF i \in gone THEN NoMem ELSE IF i \in S THEN write(mem[i]) ELSE mem[i]]
    BY DEF Rewritten, Leaves
  <2> HIDE DEF gone, w, S, write
  <2> QED
    BY <2>1
<1> HIDE DEF w
<1>2. S \subseteq MemIds(mem) /\ \A i \in MemIds(mem) : mem[i] \in Mem
  BY DEF Defective, Unlocked, MemIds, HealthTypes, HealthTable
<1>3. ASSUME NEW i \in MemIds(w)
      PROVE  i \in MemIds(mem) /\ w[i].locked = mem[i].locked /\ (w[i].msg => mem[i].msg)
  <2>0. i \in HealthIds /\ i \notin gone /\ i \in MemIds(mem)
    BY <1>1, <1>2 DEF MemIds
  <2>1. w[i] = write(mem[i]) \/ w[i] = mem[i]
    BY <2>0, <1>1
  <2>2. mem[i] \in Mem
    BY <2>0, <1>2
  <2> QED
    BY <2>0, <2>1, <2>2 DEF Mem
<1>4. Lighter(mem, w)
  BY <1>3 DEF Lighter
<1>5. TableTidy(w, n + 1)
  BY RewrittenTidy DEF w
<1>6. Rewritten(S, defect).others = others
  BY DEF Rewritten, Leaves
<1>7. n \in 1..17 /\ n \notin {11, 13, 14, 17}
  OBVIOUS
<1>8. OthersTidy(others, n + 1)
  BY <1>7, OthersStayTidy
<1> QED
  BY <1>4, <1>5, <1>6, <1>8 DEF CheckTidy, w

LEMMA PatchCheck ==
    ASSUME HealthTypes, others \in Others, NEW n \in Nat, n > 4, TableTidy(mem, n), OthersTidy(others, n + 1),
           NEW S, S \subseteq MemIds(mem), NEW u,
           u = [i \in HealthIds |-> IF i \in S THEN u[i] ELSE mem[i]],
           \A i \in S : /\ u[i] \in Mem /\ u[i].text = mem[i].text /\ u[i].chan = mem[i].chan
                        /\ u[i].locked = mem[i].locked /\ (u[i].msg => mem[i].msg) /\ RowTidy(u[i], n + 1),
           \A i \in MemIds(mem) \ S : RowTidy(mem[i], n + 1)
    PROVE  CheckTidy(Retouched(u), n)
<1>1. \A i \in HealthIds \ S : u[i] = mem[i]
  OBVIOUS
<1>2. \A i \in HealthIds : u[i] = NoMem <=> mem[i] = NoMem
  BY <1>1, NoMemAssumption DEF MemIds
<1>3. SameTexts(mem, u)
  BY <1>1, <1>2 DEF SameTexts
<1>4. \A i \in MemIds(mem) : RowTidy(u[i], n + 1)
  BY <1>1 DEF MemIds
<1>5. TableTidy(u, n + 1)
  BY <1>3, <1>4, PatchTidy
<1>6. Lighter(mem, u)
  BY <1>1, <1>2 DEF Lighter, MemIds
<1>7. Retouched(u).mem = u /\ Retouched(u).others = others
  BY DEF Retouched, Leaves
<1> QED
  BY <1>5, <1>6, <1>7 DEF CheckTidy

LEMMA UnusableEmbeddingTidy ==
    ASSUME HealthTypes, others \in Others, TableTidy(mem, 5), OthersTidy(others, 5)
    PROVE  CheckTidy(UnusableEmbedding, 5)
<1> DEFINE S == {i \in MemIds(mem) : mem[i].vec = "bad"}
           u == [i \in HealthIds |-> IF i \in S THEN WithoutVector(mem[i]) ELSE mem[i]]
<1>1. S \subseteq MemIds(mem) /\ S \subseteq HealthIds /\ 5 + 1 = 6
  BY DEF MemIds, Unlocked
<1>2. \A i \in MemIds(mem) : mem[i] \in Mem /\ RowTidy(mem[i], 5) /\ i \in HealthIds
  BY DEF HealthTypes, HealthTable, MemIds, TableTidy
<1>3. ASSUME NEW r \in Mem
      PROVE  /\ WithoutVector(r) \in Mem /\ WithoutVector(r).text = r.text /\ WithoutVector(r).chan = r.chan
             /\ WithoutVector(r).locked = r.locked /\ (WithoutVector(r).msg => r.msg)
  BY DEF WithoutVector, Mem
<1>4. ASSUME NEW r \in Mem, RowTidy(r, 5), r.vec = "bad"
      PROVE  RowTidy(WithoutVector(r), 6)
  BY <1>4 DEF WithoutVector, Mem, RowTidy
<1>5. ASSUME NEW r \in Mem, RowTidy(r, 5), ~(r.vec = "bad")
      PROVE  RowTidy(r, 6)
  BY <1>5 DEF WithoutVector, Mem, RowTidy
<1>6. ASSUME NEW i \in S
      PROVE  /\ u[i] \in Mem /\ u[i].text = mem[i].text /\ u[i].chan = mem[i].chan
             /\ u[i].locked = mem[i].locked /\ (u[i].msg => mem[i].msg) /\ RowTidy(u[i], 6)
  <2>1. u[i] = WithoutVector(mem[i]) /\ i \in MemIds(mem) /\ mem[i] \in Mem /\ RowTidy(mem[i], 5)
    BY <1>1, <1>2
  <2>2. RowTidy(WithoutVector(mem[i]), 6)
    BY <2>1, <1>4 DEF Unlocked
  <2> HIDE DEF u, S
  <2> QED
    BY <2>1, <2>2, <1>3
<1>7. \A i \in MemIds(mem) \ S : RowTidy(mem[i], 6)
  <2> SUFFICES ASSUME NEW i \in MemIds(mem) \ S  PROVE RowTidy(mem[i], 6)
    OBVIOUS
  <2> QED
    BY <1>2, <1>5 DEF Unlocked
<1>8. u = [i \in HealthIds |-> IF i \in S THEN u[i] ELSE mem[i]]
  OBVIOUS
<1>9. UnusableEmbedding = Retouched(u)
  BY DEF UnusableEmbedding, Patched
<1>10. OthersTidy(others, 6)
  BY <1>1, OthersStayTidy
<1> HIDE DEF u, S
<1>11. \A i \in S : /\ u[i] \in Mem /\ u[i].text = mem[i].text /\ u[i].chan = mem[i].chan
                     /\ u[i].locked = mem[i].locked /\ (u[i].msg => mem[i].msg) /\ RowTidy(u[i], 5 + 1)
  BY <1>1, <1>6
<1>12. (\A i \in MemIds(mem) \ S : RowTidy(mem[i], 5 + 1)) /\ OthersTidy(others, 5 + 1)
  BY <1>1, <1>7, <1>10
<1>13. 5 \in Nat /\ 5 > 4
  OBVIOUS
<1>14. CheckTidy(Retouched(u), 5)
  BY <1>1, <1>8, <1>11, <1>12, <1>13, PatchCheck
<1> QED
  BY <1>9, <1>14

LEMMA InvalidJsonTidy ==
    ASSUME HealthTypes, others \in Others, TableTidy(mem, 8), OthersTidy(others, 8)
    PROVE  CheckTidy(InvalidJson, 8)
<1> DEFINE S == {i \in Unlocked(mem) : mem[i].source = "broken"}
           u == [i \in HealthIds |-> IF i \in S THEN EmptyObject(mem[i]) ELSE mem[i]]
<1>1. S \subseteq MemIds(mem) /\ S \subseteq HealthIds /\ 8 + 1 = 9
  BY DEF MemIds, Unlocked
<1>2. \A i \in MemIds(mem) : mem[i] \in Mem /\ RowTidy(mem[i], 8) /\ i \in HealthIds
  BY DEF HealthTypes, HealthTable, MemIds, TableTidy
<1>3. ASSUME NEW r \in Mem
      PROVE  /\ EmptyObject(r) \in Mem /\ EmptyObject(r).text = r.text /\ EmptyObject(r).chan = r.chan
             /\ EmptyObject(r).locked = r.locked /\ (EmptyObject(r).msg => r.msg)
  BY DEF EmptyObject, Mem, HealthSources
<1>4. ASSUME NEW r \in Mem, RowTidy(r, 8), ~r.locked, r.source = "broken"
      PROVE  RowTidy(EmptyObject(r), 9)
  BY <1>4 DEF EmptyObject, Mem, HealthSources, RowTidy
<1>5. ASSUME NEW r \in Mem, RowTidy(r, 8), r.locked \/ ~(r.source = "broken")
      PROVE  RowTidy(r, 9)
  BY <1>5 DEF EmptyObject, Mem, HealthSources, RowTidy
<1>6. ASSUME NEW i \in S
      PROVE  /\ u[i] \in Mem /\ u[i].text = mem[i].text /\ u[i].chan = mem[i].chan
             /\ u[i].locked = mem[i].locked /\ (u[i].msg => mem[i].msg) /\ RowTidy(u[i], 9)
  <2>1. u[i] = EmptyObject(mem[i]) /\ i \in MemIds(mem) /\ mem[i] \in Mem /\ RowTidy(mem[i], 8)
    BY <1>1, <1>2
  <2>2. RowTidy(EmptyObject(mem[i]), 9)
    BY <2>1, <1>4 DEF Unlocked
  <2> HIDE DEF u, S
  <2> QED
    BY <2>1, <2>2, <1>3
<1>7. \A i \in MemIds(mem) \ S : RowTidy(mem[i], 9)
  <2> SUFFICES ASSUME NEW i \in MemIds(mem) \ S  PROVE RowTidy(mem[i], 9)
    OBVIOUS
  <2> QED
    BY <1>2, <1>5 DEF Unlocked
<1>8. u = [i \in HealthIds |-> IF i \in S THEN u[i] ELSE mem[i]]
  OBVIOUS
<1>9. InvalidJson = Retouched(u)
  BY DEF InvalidJson, Patched
<1>10. OthersTidy(others, 9)
  BY <1>1, OthersStayTidy
<1> HIDE DEF u, S
<1>11. \A i \in S : /\ u[i] \in Mem /\ u[i].text = mem[i].text /\ u[i].chan = mem[i].chan
                     /\ u[i].locked = mem[i].locked /\ (u[i].msg => mem[i].msg) /\ RowTidy(u[i], 8 + 1)
  BY <1>1, <1>6
<1>12. (\A i \in MemIds(mem) \ S : RowTidy(mem[i], 8 + 1)) /\ OthersTidy(others, 8 + 1)
  BY <1>1, <1>7, <1>10
<1>13. 8 \in Nat /\ 8 > 4
  OBVIOUS
<1>14. CheckTidy(Retouched(u), 8)
  BY <1>1, <1>8, <1>11, <1>12, <1>13, PatchCheck
<1> QED
  BY <1>9, <1>14

LEMMA InvalidTimestampTidy ==
    ASSUME HealthTypes, others \in Others, TableTidy(mem, 9), OthersTidy(others, 9)
    PROVE  CheckTidy(InvalidTimestamp, 9)
<1> DEFINE S == {i \in Unlocked(mem) : mem[i].stamp \in {"foreign", "foreign_ahead", "junk", "sql_only"}}
           u == [i \in HealthIds |-> IF i \in S THEN RestampedInvalid(mem[i]) ELSE mem[i]]
<1>1. S \subseteq MemIds(mem) /\ S \subseteq HealthIds /\ 9 + 1 = 10
  BY DEF MemIds, Unlocked
<1>2. \A i \in MemIds(mem) : mem[i] \in Mem /\ RowTidy(mem[i], 9) /\ i \in HealthIds
  BY DEF HealthTypes, HealthTable, MemIds, TableTidy
<1>3. ASSUME NEW r \in Mem
      PROVE  /\ RestampedInvalid(r) \in Mem /\ RestampedInvalid(r).text = r.text /\ RestampedInvalid(r).chan = r.chan
             /\ RestampedInvalid(r).locked = r.locked /\ (RestampedInvalid(r).msg => r.msg)
  BY DEF RestampedInvalid, Mem, Stamps
<1>4. ASSUME NEW r \in Mem, RowTidy(r, 9), ~r.locked, r.stamp \in {"foreign", "foreign_ahead", "junk", "sql_only"}
      PROVE  RowTidy(RestampedInvalid(r), 10)
  BY <1>4 DEF RestampedInvalid, Mem, Stamps, RowTidy
<1>5. ASSUME NEW r \in Mem, RowTidy(r, 9), r.locked \/ ~(r.stamp \in {"foreign", "foreign_ahead", "junk", "sql_only"})
      PROVE  RowTidy(r, 10)
  BY <1>5 DEF RestampedInvalid, Mem, Stamps, RowTidy
<1>6. ASSUME NEW i \in S
      PROVE  /\ u[i] \in Mem /\ u[i].text = mem[i].text /\ u[i].chan = mem[i].chan
             /\ u[i].locked = mem[i].locked /\ (u[i].msg => mem[i].msg) /\ RowTidy(u[i], 10)
  <2>1. u[i] = RestampedInvalid(mem[i]) /\ i \in MemIds(mem) /\ mem[i] \in Mem /\ RowTidy(mem[i], 9)
    BY <1>1, <1>2
  <2>2. RowTidy(RestampedInvalid(mem[i]), 10)
    BY <2>1, <1>4 DEF Unlocked
  <2> HIDE DEF u, S
  <2> QED
    BY <2>1, <2>2, <1>3
<1>7. \A i \in MemIds(mem) \ S : RowTidy(mem[i], 10)
  <2> SUFFICES ASSUME NEW i \in MemIds(mem) \ S  PROVE RowTidy(mem[i], 10)
    OBVIOUS
  <2> QED
    BY <1>2, <1>5 DEF Unlocked
<1>8. u = [i \in HealthIds |-> IF i \in S THEN u[i] ELSE mem[i]]
  OBVIOUS
<1>9. InvalidTimestamp = Retouched(u)
  BY DEF InvalidTimestamp, Patched
<1>10. OthersTidy(others, 10)
  BY <1>1, OthersStayTidy
<1> HIDE DEF u, S
<1>11. \A i \in S : /\ u[i] \in Mem /\ u[i].text = mem[i].text /\ u[i].chan = mem[i].chan
                     /\ u[i].locked = mem[i].locked /\ (u[i].msg => mem[i].msg) /\ RowTidy(u[i], 9 + 1)
  BY <1>1, <1>6
<1>12. (\A i \in MemIds(mem) \ S : RowTidy(mem[i], 9 + 1)) /\ OthersTidy(others, 9 + 1)
  BY <1>1, <1>7, <1>10
<1>13. 9 \in Nat /\ 9 > 4
  OBVIOUS
<1>14. CheckTidy(Retouched(u), 9)
  BY <1>1, <1>8, <1>11, <1>12, <1>13, PatchCheck
<1> QED
  BY <1>9, <1>14

LEMMA FutureTimestampTidy ==
    ASSUME HealthTypes, others \in Others, TableTidy(mem, 10), OthersTidy(others, 10)
    PROVE  CheckTidy(FutureTimestamp, 10)
<1> DEFINE S == {i \in Unlocked(mem) : mem[i].stamp = "ahead" /\ mem[i].dated}
           u == [i \in HealthIds |-> IF i \in S THEN Redated(mem[i]) ELSE mem[i]]
<1>1. S \subseteq MemIds(mem) /\ S \subseteq HealthIds /\ 10 + 1 = 11
  BY DEF MemIds, Unlocked
<1>2. \A i \in MemIds(mem) : mem[i] \in Mem /\ RowTidy(mem[i], 10) /\ i \in HealthIds
  BY DEF HealthTypes, HealthTable, MemIds, TableTidy
<1>3. ASSUME NEW r \in Mem
      PROVE  /\ Redated(r) \in Mem /\ Redated(r).text = r.text /\ Redated(r).chan = r.chan
             /\ Redated(r).locked = r.locked /\ (Redated(r).msg => r.msg)
  BY DEF Redated, Mem, Stamps
<1>4. ASSUME NEW r \in Mem, RowTidy(r, 10), ~r.locked, r.stamp = "ahead" /\ r.dated
      PROVE  RowTidy(Redated(r), 11)
  BY <1>4 DEF Redated, Mem, Stamps, RowTidy
<1>5. ASSUME NEW r \in Mem, RowTidy(r, 10), r.locked \/ ~(r.stamp = "ahead" /\ r.dated)
      PROVE  RowTidy(r, 11)
  BY <1>5 DEF Redated, Mem, Stamps, RowTidy
<1>6. ASSUME NEW i \in S
      PROVE  /\ u[i] \in Mem /\ u[i].text = mem[i].text /\ u[i].chan = mem[i].chan
             /\ u[i].locked = mem[i].locked /\ (u[i].msg => mem[i].msg) /\ RowTidy(u[i], 11)
  <2>1. u[i] = Redated(mem[i]) /\ i \in MemIds(mem) /\ mem[i] \in Mem /\ RowTidy(mem[i], 10)
    BY <1>1, <1>2
  <2>2. RowTidy(Redated(mem[i]), 11)
    BY <2>1, <1>4 DEF Unlocked
  <2> HIDE DEF u, S
  <2> QED
    BY <2>1, <2>2, <1>3
<1>7. \A i \in MemIds(mem) \ S : RowTidy(mem[i], 11)
  <2> SUFFICES ASSUME NEW i \in MemIds(mem) \ S  PROVE RowTidy(mem[i], 11)
    OBVIOUS
  <2> QED
    BY <1>2, <1>5 DEF Unlocked
<1>8. u = [i \in HealthIds |-> IF i \in S THEN u[i] ELSE mem[i]]
  OBVIOUS
<1>9. FutureTimestamp = Retouched(u)
  BY DEF FutureTimestamp, Patched
<1>10. OthersTidy(others, 11)
  BY <1>1, OthersStayTidy
<1> HIDE DEF u, S
<1>11. \A i \in S : /\ u[i] \in Mem /\ u[i].text = mem[i].text /\ u[i].chan = mem[i].chan
                     /\ u[i].locked = mem[i].locked /\ (u[i].msg => mem[i].msg) /\ RowTidy(u[i], 10 + 1)
  BY <1>1, <1>6
<1>12. (\A i \in MemIds(mem) \ S : RowTidy(mem[i], 10 + 1)) /\ OthersTidy(others, 10 + 1)
  BY <1>1, <1>7, <1>10
<1>13. 10 \in Nat /\ 10 > 4
  OBVIOUS
<1>14. CheckTidy(Retouched(u), 10)
  BY <1>1, <1>8, <1>11, <1>12, <1>13, PatchCheck
<1> QED
  BY <1>9, <1>14

LEMMA FormatDriftTidy ==
    ASSUME HealthTypes, others \in Others, TableTidy(mem, 12), OthersTidy(others, 12)
    PROVE  CheckTidy(FormatDrift, 12)
<1> DEFINE S == {i \in Unlocked(mem) : mem[i].stamp = "aware"}
           u == [i \in HealthIds |-> IF i \in S THEN Redated(mem[i]) ELSE mem[i]]
<1>1. S \subseteq MemIds(mem) /\ S \subseteq HealthIds /\ 12 + 1 = 13
  BY DEF MemIds, Unlocked
<1>2. \A i \in MemIds(mem) : mem[i] \in Mem /\ RowTidy(mem[i], 12) /\ i \in HealthIds
  BY DEF HealthTypes, HealthTable, MemIds, TableTidy
<1>3. ASSUME NEW r \in Mem
      PROVE  /\ Redated(r) \in Mem /\ Redated(r).text = r.text /\ Redated(r).chan = r.chan
             /\ Redated(r).locked = r.locked /\ (Redated(r).msg => r.msg)
  BY DEF Redated, Mem, Stamps
<1>4. ASSUME NEW r \in Mem, RowTidy(r, 12), ~r.locked, r.stamp = "aware"
      PROVE  RowTidy(Redated(r), 13)
  BY <1>4 DEF Redated, Mem, Stamps, RowTidy
<1>5. ASSUME NEW r \in Mem, RowTidy(r, 12), r.locked \/ ~(r.stamp = "aware")
      PROVE  RowTidy(r, 13)
  BY <1>5 DEF Redated, Mem, Stamps, RowTidy
<1>6. ASSUME NEW i \in S
      PROVE  /\ u[i] \in Mem /\ u[i].text = mem[i].text /\ u[i].chan = mem[i].chan
             /\ u[i].locked = mem[i].locked /\ (u[i].msg => mem[i].msg) /\ RowTidy(u[i], 13)
  <2>1. u[i] = Redated(mem[i]) /\ i \in MemIds(mem) /\ mem[i] \in Mem /\ RowTidy(mem[i], 12)
    BY <1>1, <1>2
  <2>2. RowTidy(Redated(mem[i]), 13)
    BY <2>1, <1>4 DEF Unlocked
  <2> HIDE DEF u, S
  <2> QED
    BY <2>1, <2>2, <1>3
<1>7. \A i \in MemIds(mem) \ S : RowTidy(mem[i], 13)
  <2> SUFFICES ASSUME NEW i \in MemIds(mem) \ S  PROVE RowTidy(mem[i], 13)
    OBVIOUS
  <2> QED
    BY <1>2, <1>5 DEF Unlocked
<1>8. u = [i \in HealthIds |-> IF i \in S THEN u[i] ELSE mem[i]]
  OBVIOUS
<1>9. FormatDrift = Retouched(u)
  BY DEF FormatDrift, Patched
<1>10. OthersTidy(others, 13)
  BY <1>1, OthersStayTidy
<1> HIDE DEF u, S
<1>11. \A i \in S : /\ u[i] \in Mem /\ u[i].text = mem[i].text /\ u[i].chan = mem[i].chan
                     /\ u[i].locked = mem[i].locked /\ (u[i].msg => mem[i].msg) /\ RowTidy(u[i], 12 + 1)
  BY <1>1, <1>6
<1>12. (\A i \in MemIds(mem) \ S : RowTidy(mem[i], 12 + 1)) /\ OthersTidy(others, 12 + 1)
  BY <1>1, <1>7, <1>10
<1>13. 12 \in Nat /\ 12 > 4
  OBVIOUS
<1>14. CheckTidy(Retouched(u), 12)
  BY <1>1, <1>8, <1>11, <1>12, <1>13, PatchCheck
<1> QED
  BY <1>9, <1>14

LEMMA InvalidSourceTypeTidy ==
    ASSUME HealthTypes, others \in Others, TableTidy(mem, 16), OthersTidy(others, 16)
    PROVE  CheckTidy(InvalidSourceType, 16)
<1> DEFINE S == {i \in Unlocked(mem) : mem[i].source = "mappable"}
           u == [i \in HealthIds |-> IF i \in S THEN CanonicalSource(mem[i]) ELSE mem[i]]
<1>1. S \subseteq MemIds(mem) /\ S \subseteq HealthIds /\ 16 + 1 = 17
  BY DEF MemIds, Unlocked
<1>2. \A i \in MemIds(mem) : mem[i] \in Mem /\ RowTidy(mem[i], 16) /\ i \in HealthIds
  BY DEF HealthTypes, HealthTable, MemIds, TableTidy
<1>3. ASSUME NEW r \in Mem
      PROVE  /\ CanonicalSource(r) \in Mem /\ CanonicalSource(r).text = r.text /\ CanonicalSource(r).chan = r.chan
             /\ CanonicalSource(r).locked = r.locked /\ (CanonicalSource(r).msg => r.msg)
  BY DEF CanonicalSource, Mem, HealthSources
<1>4. ASSUME NEW r \in Mem, RowTidy(r, 16), ~r.locked, r.source = "mappable"
      PROVE  RowTidy(CanonicalSource(r), 17)
  BY <1>4 DEF CanonicalSource, Mem, HealthSources, RowTidy
<1>5. ASSUME NEW r \in Mem, RowTidy(r, 16), r.locked \/ ~(r.source = "mappable")
      PROVE  RowTidy(r, 17)
  BY <1>5 DEF CanonicalSource, Mem, HealthSources, RowTidy
<1>6. ASSUME NEW i \in S
      PROVE  /\ u[i] \in Mem /\ u[i].text = mem[i].text /\ u[i].chan = mem[i].chan
             /\ u[i].locked = mem[i].locked /\ (u[i].msg => mem[i].msg) /\ RowTidy(u[i], 17)
  <2>1. u[i] = CanonicalSource(mem[i]) /\ i \in MemIds(mem) /\ mem[i] \in Mem /\ RowTidy(mem[i], 16)
    BY <1>1, <1>2
  <2>2. RowTidy(CanonicalSource(mem[i]), 17)
    BY <2>1, <1>4 DEF Unlocked
  <2> HIDE DEF u, S
  <2> QED
    BY <2>1, <2>2, <1>3
<1>7. \A i \in MemIds(mem) \ S : RowTidy(mem[i], 17)
  <2> SUFFICES ASSUME NEW i \in MemIds(mem) \ S  PROVE RowTidy(mem[i], 17)
    OBVIOUS
  <2> QED
    BY <1>2, <1>5 DEF Unlocked
<1>8. u = [i \in HealthIds |-> IF i \in S THEN u[i] ELSE mem[i]]
  OBVIOUS
<1>9. InvalidSourceType = Retouched(u)
  BY DEF InvalidSourceType, Patched
<1>10. OthersTidy(others, 17)
  BY <1>1, OthersStayTidy
<1> HIDE DEF u, S
<1>11. \A i \in S : /\ u[i] \in Mem /\ u[i].text = mem[i].text /\ u[i].chan = mem[i].chan
                     /\ u[i].locked = mem[i].locked /\ (u[i].msg => mem[i].msg) /\ RowTidy(u[i], 16 + 1)
  BY <1>1, <1>6
<1>12. (\A i \in MemIds(mem) \ S : RowTidy(mem[i], 16 + 1)) /\ OthersTidy(others, 16 + 1)
  BY <1>1, <1>7, <1>10
<1>13. 16 \in Nat /\ 16 > 4
  OBVIOUS
<1>14. CheckTidy(Retouched(u), 16)
  BY <1>1, <1>8, <1>11, <1>12, <1>13, PatchCheck
<1> QED
  BY <1>9, <1>14

LEMMA DuplicateContentTidy ==
    ASSUME HealthTypes, others \in Others, TableTidy(mem, 4), OthersTidy(others, 4)
    PROVE  CheckTidy(DuplicateContent, 4)
<1> DEFINE surplus == {i \in Unlocked(mem) : Covered(i)}
<1>1. PICK l : DuplicateContent = Deleted(surplus, l)
  BY DEF DuplicateContent
<1>2. \A i \in MemIds(mem) : RowTidy(mem[i], 4 + 1)
  <2>1. \A r : RowTidy(r, 4) => RowTidy(r, 5)
    BY DEF RowTidy
  <2> QED
    BY <2>1 DEF TableTidy
<1>3. \A i \in Unlocked(mem) \ surplus : ~CoveredIn(mem, i)
  BY CoveredIsCoveredIn
<1> HIDE DEF surplus
<1>4. TableTidy(Deleted(surplus, l).mem, 4 + 1)
  BY <1>2, <1>3, DeletedTidy
<1>5. Lighter(mem, Deleted(surplus, l).mem) /\ Deleted(surplus, l).others = others
  BY DEF Lighter, Deleted, Leaves, MemIds
<1>6. OthersTidy(others, 4 + 1)
  BY OthersStayTidy
<1> QED
  BY <1>1, <1>4, <1>5, <1>6 DEF CheckTidy

LEMMA EmptyContentTidy ==
    ASSUME HealthTypes, others \in Others, TableTidy(mem, 15), OthersTidy(others, 15)
    PROVE  CheckTidy(EmptyContent, 15)
<1> DEFINE blank == {i \in Unlocked(mem) : mem[i].text = Blank}
<1>1. EmptyContent = Deleted(blank, linked)
  BY DEF EmptyContent
<1>2. \A i \in MemIds(mem) \ blank : RowTidy(mem[i], 15 + 1)
  <2>1. \A r : RowTidy(r, 15) /\ (r.locked \/ r.text # Blank) => RowTidy(r, 16)
    BY DEF RowTidy
  <2> QED
    BY <2>1 DEF TableTidy, Unlocked
<1>3. \A i \in Unlocked(mem) \ blank : ~CoveredIn(mem, i)
  BY DEF TableTidy
<1> HIDE DEF blank
<1>4. TableTidy(Deleted(blank, linked).mem, 15 + 1)
  BY <1>2, <1>3, DeletedTidy
<1>5. Lighter(mem, Deleted(blank, linked).mem) /\ Deleted(blank, linked).others = others
  BY DEF Lighter, Deleted, Leaves, MemIds
<1>6. OthersTidy(others, 15 + 1)
  BY OthersStayTidy
<1> QED
  BY <1>1, <1>4, <1>5, <1>6 DEF CheckTidy

\* The checks that write no row of the table.
LEMMA TableStaysTidy ==
    ASSUME HealthTypes, NEW n \in {6, 7, 11, 13, 14, 17}, TableTidy(mem, n)
    PROVE  TableTidy(mem, n + 1) /\ Lighter(mem, mem)
<1>1. SameTexts(mem, mem) /\ Lighter(mem, mem) /\ n \in Nat /\ n > 4
  BY DEF SameTexts, Lighter
<1>2. \A r : RowTidy(r, n) => RowTidy(r, n + 1)
  <2>1. \A k \in {1, 2, 3, 5, 8, 9, 10, 12, 15, 16} : n + 1 > k => n > k
    OBVIOUS
  <2> QED
    BY <2>1 DEF RowTidy
<1>3. \A i \in MemIds(mem) : RowTidy(mem[i], n + 1)
  BY <1>2 DEF TableTidy
<1> QED
  BY <1>1, <1>3, PatchTidy

LEMMA EpisodesTidy ==
    ASSUME HealthTypes, others \in Others
    PROVE  /\ TableTidy(mem, 11) /\ OthersTidy(others, 11) => CheckTidy(MissingEpisodeStartTime, 11)
           /\ TableTidy(mem, 13) /\ OthersTidy(others, 13) => CheckTidy(EpisodeFormatDrift, 13)
           /\ TableTidy(mem, 14) /\ OthersTidy(others, 14) => CheckTidy(FutureEpisodeTimestamp, 14)
           /\ TableTidy(mem, 17) /\ OthersTidy(others, 17) => CheckTidy(OversizedProfile, 17)
<1>1. ASSUME NEW o, NEW n \in {11, 13, 14, 17}, TableTidy(mem, n), o \in Others, OthersTidy(o, n + 1)
      PROVE  CheckTidy(OthersAs(o), n)
  <2>1. OthersAs(o).mem = mem /\ OthersAs(o).others = o
    BY DEF OthersAs, Retouched, Leaves
  <2> QED
    BY <1>1, <2>1, TableStaysTidy DEF CheckTidy
<1>2. others = [start |-> others.start, end |-> others.end, dated |-> others.dated, profile_long |-> others.profile_long]
  BY DEF Others
<1>3. ASSUME TableTidy(mem, 11), OthersTidy(others, 11)
      PROVE  CheckTidy(MissingEpisodeStartTime, 11)
  <2> DEFINE o == IF others.start = "missing" /\ others.dated THEN [others EXCEPT !.start = "utc"] ELSE others
  <2>1. o \in Others /\ OthersTidy(o, 12)
    BY <1>3 DEF Others, EpisodeStamps, OthersTidy
  <2>2. MissingEpisodeStartTime = OthersAs(o)
    BY DEF MissingEpisodeStartTime
  <2> HIDE DEF o
  <2> QED
    BY <1>1, <1>3, <2>1, <2>2
<1>4. ASSUME TableTidy(mem, 13), OthersTidy(others, 13)
      PROVE  CheckTidy(EpisodeFormatDrift, 13)
  <2> DEFINE o == [others EXCEPT !.start = InUtc(others.start), !.end = InUtc(others.end)]
  <2>0. \A s \in EpisodeStamps : /\ InUtc(s) \in EpisodeStamps \ {"aware", "copy", "aware_ahead"}
                                 /\ InUtc(s) = "missing" => s = "missing"
    BY DEF InUtc, EpisodeStamps
  <2>1. o \in Others /\ o.start = InUtc(others.start) /\ o.end = InUtc(others.end) /\ o.dated = others.dated
    BY <2>0 DEF Others
  <2>2. others.start \in EpisodeStamps /\ others.end \in EpisodeStamps
    BY DEF Others
  <2>3. EpisodeFormatDrift = OthersAs(o)
    BY DEF EpisodeFormatDrift
  <2> HIDE DEF o
  <2>4. OthersTidy(o, 14)
    BY <1>4, <2>0, <2>1, <2>2 DEF OthersTidy
  <2> QED
    BY <1>1, <1>4, <2>1, <2>3, <2>4
<1>5. ASSUME TableTidy(mem, 14), OthersTidy(others, 14)
      PROVE  CheckTidy(FutureEpisodeTimestamp, 14)
  <2> DEFINE o == [others EXCEPT !.start = NotAhead(others.start), !.end = NotAhead(others.end)]
  <2>0. \A s \in EpisodeStamps : /\ NotAhead(s) \in {s, "utc"} /\ "utc" \in EpisodeStamps
                                 /\ ~(NotAhead(s) = "ahead" /\ others.dated)
    BY DEF NotAhead, EpisodeStamps
  <2>1. o \in Others /\ o.start = NotAhead(others.start) /\ o.end = NotAhead(others.end) /\ o.dated = others.dated
    BY <2>0 DEF Others
  <2>2. others.start \in EpisodeStamps /\ others.end \in EpisodeStamps
    BY DEF Others
  <2>3. FutureEpisodeTimestamp = OthersAs(o)
    BY DEF FutureEpisodeTimestamp
  <2> HIDE DEF o
  <2>4. OthersTidy(o, 15)
    BY <1>5, <2>0, <2>1, <2>2 DEF OthersTidy
  <2> QED
    BY <1>1, <1>5, <2>1, <2>3, <2>4
<1>6. ASSUME TableTidy(mem, 17), OthersTidy(others, 17)
      PROVE  CheckTidy(OversizedProfile, 17)
  <2> DEFINE o == [others EXCEPT !.profile_long = FALSE]
  <2>0. /\ o \in Others /\ o.start = others.start /\ o.end = others.end /\ o.dated = others.dated
        /\ ~o.profile_long
    BY DEF Others
  <2>1. OthersTidy(o, 18)
    <3> HIDE DEF o
    <3> QED
      BY <1>6, <2>0 DEF OthersTidy
  <2>2. OversizedProfile = OthersAs(o)
    BY DEF OversizedProfile
  <2> HIDE DEF o
  <2> QED
    BY <1>1, <1>6, <2>0, <2>1, <2>2
<1> QED
  BY <1>3, <1>4, <1>5, <1>6

\* dedup_msg_id_index leaves one holder of a message id, or locked ones only.
LEMMA DedupTidy ==
    ASSUME HealthTypes, others \in Others, TableTidy(mem, 6), OthersTidy(others, 6), NEW q,
           q = uniques \cup {n \in {"msg_id"} : Creatable(n, DedupMsgIdIndex.mem)}
    PROVE  CheckTidy(DedupMsgIdIndex, 6) /\ IndexTidy(DedupMsgIdIndex.mem, q, 6 + 1)
<1> DEFINE S == {i \in Messaged : ~mem[i].locked /\ i # MsgKeeper}
           u == [i \in HealthIds |-> IF i \in S THEN Unmessaged(mem[i]) ELSE mem[i]]
<1>1. \A i \in MemIds(mem) : mem[i] \in Mem /\ RowTidy(mem[i], 6) /\ i \in HealthIds
  BY DEF HealthTypes, HealthTable, MemIds, TableTidy
<1>2. S \subseteq Messaged /\ Messaged \subseteq MemIds(mem) /\ MemIds(mem) \subseteq HealthIds
  BY DEF Messaged, MemIds
<1>3. ASSUME NEW r \in Mem
      PROVE  /\ Unmessaged(r) \in Mem /\ Unmessaged(r).text = r.text /\ Unmessaged(r).chan = r.chan
             /\ Unmessaged(r).locked = r.locked /\ ~Unmessaged(r).msg
             /\ Unmessaged(r).vec = r.vec /\ Unmessaged(r).source = r.source /\ Unmessaged(r).stamp = r.stamp
             /\ Unmessaged(r).dated = r.dated
  BY DEF Unmessaged, Mem
<1>4. ASSUME NEW r, RowTidy(r, 6)  PROVE RowTidy(r, 6 + 1)
  BY <1>4 DEF RowTidy
<1>5. ASSUME NEW r \in Mem, RowTidy(r, 6)  PROVE RowTidy(Unmessaged(r), 6 + 1)
  BY <1>5, <1>3 DEF RowTidy
<1>6. ASSUME NEW i \in S
      PROVE  /\ u[i] \in Mem /\ u[i].text = mem[i].text /\ u[i].chan = mem[i].chan /\ u[i].locked = mem[i].locked
             /\ (u[i].msg => mem[i].msg) /\ ~u[i].msg /\ RowTidy(u[i], 6 + 1)
  <2>1. u[i] = Unmessaged(mem[i]) /\ mem[i] \in Mem /\ RowTidy(mem[i], 6)
    BY <1>1, <1>2
  <2> HIDE DEF u, S
  <2> QED
    BY <2>1, <1>3, <1>5
<1>7. ASSUME NEW i \in MemIds(mem) \ S  PROVE RowTidy(mem[i], 6 + 1) /\ u[i] = mem[i]
  BY <1>1, <1>4
<1>8. u = [i \in HealthIds |-> IF i \in S THEN u[i] ELSE mem[i]]
  OBVIOUS
<1>9. DedupMsgIdIndex = (IF "msg_id" \in uniques THEN Retouched(mem) ELSE Retouched(u))
  BY DEF DedupMsgIdIndex, Patched
<1>10. OthersTidy(others, 6 + 1)
  BY OthersStayTidy
<1>11. CASE "msg_id" \in uniques
  <2>1. CheckTidy(Retouched(mem), 6)
    <3>1. Retouched(mem).mem = mem /\ Retouched(mem).others = others
      BY DEF Retouched, Leaves
    <3> QED
      BY <3>1, <1>10, TableStaysTidy DEF CheckTidy
  <2>2. ~(6 + 1 > 7) /\ "msg_id" \in q
    BY <1>11
  <2> QED
    BY <1>9, <1>11, <2>1, <2>2 DEF IndexTidy
<1>12. CASE "msg_id" \notin uniques
  <2>0. S \subseteq MemIds(mem) /\ S \subseteq HealthIds
    BY <1>2
  <2> HIDE DEF u, S
  <2>1. CheckTidy(Retouched(u), 6)
    <3>1. 6 \in Nat /\ 6 > 4
      OBVIOUS
    <3> QED
      BY <3>1, <2>0, <1>6, <1>7, <1>8, <1>10, PatchCheck
  <2>2. DedupMsgIdIndex.mem = u
    BY <1>9, <1>12 DEF Retouched, Leaves
  <2>3. /\ MemIds(u) = MemIds(mem)
        /\ \A i \in MemIds(u) : u[i].locked = mem[i].locked /\ (u[i].msg => mem[i].msg /\ i \notin S)
    <3>1. \A i \in HealthIds : i \in MemIds(u) <=> i \in MemIds(mem)
      <4> SUFFICES ASSUME NEW i \in HealthIds  PROVE u[i] = NoMem <=> mem[i] = NoMem
        BY DEF MemIds
      <4>1. CASE i \in S
        BY <4>1, <2>0, <1>6, NoMemAssumption DEF MemIds
      <4>2. CASE i \notin S
        BY <4>2, <1>8
      <4> QED
        BY <4>1, <4>2
    <3>2. MemIds(u) = MemIds(mem)
      BY <3>1 DEF MemIds
    <3> QED
      BY <3>2, <1>6, <1>7
  <2>4. ASSUME NEW h \in MemIds(u), ~u[h].locked, u[h].msg, NEW i \in MemIds(u), u[i].msg
        PROVE  i = h
    <3>1. h \in Messaged /\ h \notin S /\ ~mem[h].locked /\ i \in Messaged /\ i \notin S
      BY <2>3, <2>4 DEF Messaged
    <3>2. h = MsgKeeper
      BY <3>1 DEF S
    <3>3. {j \in Messaged : mem[j].locked} = {}
      <4> DEFINE ls == {j \in Messaged : mem[j].locked}
      <4>1. SUFFICES ASSUME ls # {}  PROVE FALSE
        OBVIOUS
      <4>2. Largest(ls) \in ls
        BY <4>1, <1>2, LargestRow
      <4>3. MsgKeeper = Largest(ls)
        BY <4>1 DEF MsgKeeper
      <4> QED
        BY <4>2, <4>3, <3>1, <3>2
    <3>4. i = MsgKeeper
      BY <3>1, <3>3 DEF S
    <3> QED
      BY <3>2, <3>4
  <2>5. IndexTidy(u, q, 6 + 1)
    <3>1. CASE MsgUnique(u)
      <4>1. Creatable("msg_id", u)
        BY <3>1 DEF Creatable
      <4>2. "msg_id" \in q
        BY <4>1, <2>2
      <4>3. ~(6 + 1 > 7)
        OBVIOUS
      <4> QED
        BY <4>2, <4>3 DEF IndexTidy
    <3>2. CASE ~MsgUnique(u)
      <4>1. PICK i \in MemIds(u), j \in MemIds(u) : i # j /\ u[i].msg /\ u[j].msg
        BY <3>2 DEF MsgUnique
      <4>2. \A h \in MemIds(u) : u[h].msg => u[h].locked
        BY <4>1, <2>4
      <4>3. LockedPart(u)[i] = u[i] /\ LockedPart(u)[j] = u[j] /\ i \in MemIds(LockedPart(u)) /\ j \in MemIds(LockedPart(u))
        BY <4>1, <4>2 DEF LockedPart, MemIds
      <4>4. ~MsgUnique(LockedPart(u))
        BY <4>1, <4>3 DEF MsgUnique
      <4>5. \A h \in Unlocked(u) : ~u[h].msg
        BY <4>2 DEF Unlocked
      <4>6. ~(6 + 1 > 7)
        OBVIOUS
      <4> QED
        BY <4>4, <4>5, <4>6 DEF IndexTidy
    <3> QED
      BY <3>1, <3>2
  <2> QED
    BY <1>9, <1>12, <2>1, <2>2, <2>5
<1> QED
  BY <1>11, <1>12

\* Two rows of one text in one channel, both kept by the earlier check, are locked.
LEMMA SchemaTidy ==
    ASSUME HealthTypes, others \in Others, TableTidy(mem, 7), OthersTidy(others, 7), IndexTidy(mem, uniques, 7), NEW q,
           q = uniques \cup {n \in {"content", "msg_id"} : Creatable(n, mem)}
    PROVE  CheckTidy(Retouched(mem), 7) /\ IndexTidy(mem, q, 7 + 1)
<1>1. Retouched(mem).mem = mem /\ Retouched(mem).others = others
  BY DEF Retouched, Leaves
<1>2. CheckTidy(Retouched(mem), 7)
  BY <1>1, TableStaysTidy, OthersStayTidy DEF CheckTidy
<1>3. \/ "msg_id" \in q
      \/ (\A i \in Unlocked(mem) : ~mem[i].msg) /\ ~MsgUnique(LockedPart(mem))
  BY DEF IndexTidy
<1>4. "content" \in q \/ ~ContentUnique(LockedPart(mem))
  <2>1. CASE ContentUnique(mem)
    BY <2>1 DEF Creatable
  <2>2. CASE ~ContentUnique(mem)
    <3>1. PICK i \in MemIds(mem), j \in MemIds(mem) : i # j /\ SameChan(mem, i, j) /\ mem[i].text = mem[j].text
      BY <2>2 DEF ContentUnique
    <3>2. ASSUME NEW a \in MemIds(mem), NEW b \in MemIds(mem), a # b, SameChan(mem, a, b), mem[a].text = mem[b].text
          PROVE  mem[a].locked
      <4>1. SUFFICES ASSUME ~mem[a].locked  PROVE FALSE
        OBVIOUS
      <4>2. BucketIn(mem, a) = BucketIn(mem, b) /\ a \in BucketIn(mem, a) /\ BucketIn(mem, a) \subseteq HealthIds
        BY <3>2 DEF BucketIn, OwnCopies, SameChan, MemIds
      <4>3. ~CoveredIn(mem, a)
        BY <4>1 DEF TableTidy, Unlocked
      <4>4. a = KeeperOf(mem, BucketIn(mem, a))
        BY <4>3 DEF CoveredIn
      <4>5. ~mem[b].locked
        <5> DEFINE ls == {k \in BucketIn(mem, a) : mem[k].locked}
        <5>1. SUFFICES ASSUME ls # {}  PROVE FALSE
          BY <3>2 DEF BucketIn, OwnCopies, SameChan
        <5>2. Smallest(ls) \in ls
          BY <5>1, <4>2, SmallestRow
        <5>3. a = Smallest(ls)
          BY <4>4, <5>1 DEF KeeperOf
        <5> QED
          BY <4>1, <5>2, <5>3
      <4>6. ~CoveredIn(mem, b)
        BY <4>5 DEF TableTidy, Unlocked
      <4>7. b = KeeperOf(mem, BucketIn(mem, b))
        BY <4>6 DEF CoveredIn
      <4> QED
        BY <3>2, <4>2, <4>4, <4>7
    <3>3. mem[i].locked /\ mem[j].locked
      BY <3>1, <3>2 DEF SameChan
    <3>4. LockedPart(mem)[i] = mem[i] /\ LockedPart(mem)[j] = mem[j] /\ i \in MemIds(LockedPart(mem)) /\ j \in MemIds(LockedPart(mem))
      BY <3>1, <3>3 DEF LockedPart, MemIds
    <3> QED
      BY <3>1, <3>4 DEF ContentUnique, SameChan
  <2> QED
    BY <2>1, <2>2
<1> QED
  BY <1>2, <1>3, <1>4 DEF IndexTidy

\* Each check puts right what it is for and leaves what earlier ones put right.
LEMMA CheckedTidy ==
    ASSUME HealthTypes, others \in Others, NEW n \in 1..17, TableTidy(mem, n), OthersTidy(others, n)
    PROVE  CheckTidy(Repair(HealthOrder[n]), n)
<1>1. n \in {1, 2, 3} \/ n = 4 \/ n = 5 \/ n = 6 \/ n = 7 \/ n = 8 \/ n = 9 \/ n = 10 \/ n = 11
      \/ n = 12 \/ n = 13 \/ n = 14 \/ n = 15 \/ n = 16 \/ n = 17
  OBVIOUS
<1>2. CASE n \in {1, 2, 3}
  <2> DEFINE defect == CASE n = 1 -> "annotated" [] n = 2 -> "mention" [] n = 3 -> "long"
  <2>1. Repair(HealthOrder[n]) = Rewritten(Defective(defect), defect)
    <3>1. CASE n = 1
      BY <3>1, OrderIs DEF Repair, MemoryAnnotation
    <3>2. CASE n = 2
      BY <3>2, OrderIs DEF Repair, DiscordMention
    <3>3. CASE n = 3
      BY <3>3, OrderIs DEF Repair, OversizedContent
    <3> QED
      BY <1>2, <3>1, <3>2, <3>3
  <2>2. CheckTidy(Rewritten(Defective(defect), defect), n)
    BY <1>2, TextChecksTidy
  <2> QED
    BY <2>1, <2>2
<1>3. CASE n = 4
  <2>1. Repair(HealthOrder[4]) = DuplicateContent
    BY OrderIs DEF Repair
  <2> QED
    BY <1>3, <2>1, DuplicateContentTidy
<1>4. CASE n = 5
  <2>1. Repair(HealthOrder[5]) = UnusableEmbedding
    BY OrderIs DEF Repair
  <2> QED
    BY <1>4, <2>1, UnusableEmbeddingTidy
<1>5. CASE n = 6
  <2>1. Repair(HealthOrder[6]) = DedupMsgIdIndex
    BY OrderIs DEF Repair
  <2> QED
    BY <1>5, <2>1, DedupTidy
<1>6. CASE n = 7
  <2>1. Repair(HealthOrder[7]) = Retouched(mem)
    BY OrderIs DEF Repair
  <2>2. Retouched(mem).mem = mem /\ Retouched(mem).others = others
    BY DEF Retouched, Leaves
  <2>3. CheckTidy(Retouched(mem), 7)
    BY <1>6, <2>2, TableStaysTidy, OthersStayTidy DEF CheckTidy
  <2> QED
    BY <1>6, <2>1, <2>3
<1>7. CASE n = 8
  <2>1. Repair(HealthOrder[8]) = InvalidJson
    BY OrderIs DEF Repair
  <2> QED
    BY <1>7, <2>1, InvalidJsonTidy
<1>8. CASE n = 9
  <2>1. Repair(HealthOrder[9]) = InvalidTimestamp
    BY OrderIs DEF Repair
  <2> QED
    BY <1>8, <2>1, InvalidTimestampTidy
<1>9. CASE n = 10
  <2>1. Repair(HealthOrder[10]) = FutureTimestamp
    BY OrderIs DEF Repair
  <2> QED
    BY <1>9, <2>1, FutureTimestampTidy
<1>10. CASE n = 12
  <2>1. Repair(HealthOrder[12]) = FormatDrift
    BY OrderIs DEF Repair
  <2> QED
    BY <1>10, <2>1, FormatDriftTidy
<1>11. CASE n = 16
  <2>1. Repair(HealthOrder[16]) = InvalidSourceType
    BY OrderIs DEF Repair
  <2> QED
    BY <1>11, <2>1, InvalidSourceTypeTidy
<1>12. CASE n = 15
  <2>1. Repair(HealthOrder[15]) = EmptyContent
    BY OrderIs DEF Repair
  <2> QED
    BY <1>12, <2>1, EmptyContentTidy
<1>13. CASE n = 11
  <2>1. Repair(HealthOrder[11]) = MissingEpisodeStartTime
    BY OrderIs DEF Repair
  <2> QED
    BY <1>13, <2>1, EpisodesTidy
<1>14. CASE n = 13
  <2>1. Repair(HealthOrder[13]) = EpisodeFormatDrift
    BY OrderIs DEF Repair
  <2> QED
    BY <1>14, <2>1, EpisodesTidy
<1>15. CASE n = 14
  <2>1. Repair(HealthOrder[14]) = FutureEpisodeTimestamp
    BY OrderIs DEF Repair
  <2> QED
    BY <1>15, <2>1, EpisodesTidy
<1>16. CASE n = 17
  <2>1. Repair(HealthOrder[17]) = OversizedProfile
    BY OrderIs DEF Repair
  <2> QED
    BY <1>16, <2>1, EpisodesTidy
<1> QED
  BY <1>1, <1>2, <1>3, <1>4, <1>5, <1>6, <1>7, <1>8, <1>9, <1>10, <1>11, <1>12, <1>13, <1>14, <1>15, <1>16

\* No step of a run creates an episode of another kind.
LEMMA OthersTyped ==
    ASSUME others \in Others, NEW name
    PROVE  Repair(name).others \in Others
<1>1. \A t, l, e : Leaves(t, l, e).others = others
  BY DEF Leaves
<1>2. \A t : Retouched(t).others = others
  BY <1>1 DEF Retouched
<1>3. \A S, d : Rewritten(S, d).others = others
  BY DEF Rewritten, Leaves
<1>4. \A g, l : Deleted(g, l).others = others
  BY <1>1 DEF Deleted
<1>5. ASSUME NEW o \in Others  PROVE OthersAs(o).others \in Others
  BY DEF OthersAs, Retouched, Leaves
<1>6. /\ MemoryAnnotation.others = others /\ DiscordMention.others = others /\ OversizedContent.others = others
      /\ DuplicateContent.others = others /\ EmptyContent.others = others /\ ShortContent.others = others
  BY <1>3, <1>4 DEF MemoryAnnotation, DiscordMention, OversizedContent, DuplicateContent, EmptyContent, ShortContent
<1>7. /\ UnusableEmbedding.others = others /\ DedupMsgIdIndex.others = others /\ InvalidJson.others = others
      /\ InvalidTimestamp.others = others /\ FutureTimestamp.others = others /\ FormatDrift.others = others
      /\ InvalidSourceType.others = others
  BY <1>2 DEF UnusableEmbedding, DedupMsgIdIndex, InvalidJson, InvalidTimestamp, FutureTimestamp, FormatDrift,
              InvalidSourceType, Patched
<1>8. MissingEpisodeStartTime.others \in Others
  <2>1. (IF others.start = "missing" /\ others.dated THEN [others EXCEPT !.start = "utc"] ELSE others) \in Others
    BY DEF Others, EpisodeStamps
  <2> QED
    BY <2>1, <1>5 DEF MissingEpisodeStartTime
<1>9. EpisodeFormatDrift.others \in Others
  <2>1. InUtc(others.start) \in EpisodeStamps /\ InUtc(others.end) \in EpisodeStamps
    BY DEF Others, InUtc, EpisodeStamps
  <2>2. [others EXCEPT !.start = InUtc(others.start), !.end = InUtc(others.end)] \in Others
    BY <2>1 DEF Others
  <2> QED
    BY <2>2, <1>5 DEF EpisodeFormatDrift
<1>10. FutureEpisodeTimestamp.others \in Others
  <2>1. NotAhead(others.start) \in EpisodeStamps /\ NotAhead(others.end) \in EpisodeStamps
    BY DEF Others, NotAhead, EpisodeStamps
  <2>2. [others EXCEPT !.start = NotAhead(others.start), !.end = NotAhead(others.end)] \in Others
    BY <2>1 DEF Others
  <2> QED
    BY <2>2, <1>5 DEF FutureEpisodeTimestamp
<1>11. OversizedProfile.others \in Others
  <2>1. [others EXCEPT !.profile_long = FALSE] \in Others
    BY DEF Others
  <2> QED
    BY <2>1, <1>5 DEF OversizedProfile
<1> QED
  BY <1>2, <1>6, <1>7, <1>8, <1>9, <1>10, <1>11 DEF Repair

LEMMA RunCheckTidy ==
    ASSUME HealthInv, TidyInv, RunCheck
    PROVE  TidyInv'
<1>1. PICK out : out = Repair(NextCheck)
  OBVIOUS
<1>2. /\ fixing.pc = "checks" /\ mem' = out.mem /\ others' = out.others /\ fixing' = Onward
  BY <1>1 DEF RunCheck
<1>3. fixing \in HealthRuns /\ HealthTypes /\ others \in Others
  BY DEF HealthInv, HealthTypes, TidyInv
<1>4. others' \in Others
  BY <1>1, <1>2, <1>3, OthersTyped
<1>5. /\ fixing'.order = fixing.order /\ fixing'.crashed = fixing.crashed /\ fixing'.at = fixing.at + 1
      /\ fixing'.pc = IF fixing.at = Len(fixing.order) THEN "commit" ELSE "checks"
  BY <1>2, <1>3 DEF Onward, Ended, HealthRuns
<1>6. ASSUME fixing.order = HealthOrder
      PROVE  fixing'.at \in (IF fixing'.pc = "checks" THEN 1..17 ELSE {18})
  <2>1. fixing.at \in 1..17
    BY <1>2, <1>6 DEF TidyInv
  <2> QED
    BY <2>1, <1>5, <1>6, OrderIs
<1>7. ASSUME fixing.order = HealthOrder, ~fixing.crashed
      PROVE  Tidy(mem', others', uniques', fixing'.at)
  <2> DEFINE n == fixing.at
  <2>1. n \in 1..17 /\ Tidy(mem, others, uniques, n)
    BY <1>2, <1>7 DEF TidyInv
  <2>2. TableTidy(mem, n) /\ OthersTidy(others, n) /\ IndexTidy(mem, uniques, n)
    BY <2>1 DEF Tidy
  <2>3. out = Repair(HealthOrder[n])
    BY <1>1, <1>7 DEF NextCheck
  <2>4. CheckTidy(out, n)
    BY <1>3, <2>1, <2>2, <2>3, CheckedTidy
  <2>5. IndexTidy(mem', uniques', n + 1)
    <3>1. CASE n = 6
      <4>1. NextCheck = "dedup_msg_id_index" /\ out = DedupMsgIdIndex
        BY <3>1, <1>7, <2>3, OrderIs DEF NextCheck, Repair
      <4>2. uniques' = uniques \cup {m \in {"msg_id"} : Creatable(m, out.mem)}
        BY <4>1, <1>1 DEF RunCheck
      <4> QED
        BY <3>1, <4>1, <4>2, <1>2, <1>3, <2>2, DedupTidy
    <3>2. CASE n = 7
      <4>1. NextCheck = "schema_objects" /\ out = Retouched(mem)
        BY <3>2, <1>7, <2>3, OrderIs DEF NextCheck, Repair
      <4>2. out.mem = mem
        BY <4>1 DEF Retouched, Leaves
      <4>3. uniques' = uniques \cup {m \in {"content", "msg_id"} : Creatable(m, mem)}
        BY <4>1, <4>2, <1>1 DEF RunCheck
      <4> QED
        BY <3>2, <4>2, <4>3, <1>2, <1>3, <2>2, SchemaTidy
    <3>3. CASE n # 6 /\ n # 7
      <4>1. NextCheck # "dedup_msg_id_index" /\ NextCheck # "schema_objects"
        <5>1. n = 1 \/ n = 2 \/ n = 3 \/ n = 4 \/ n = 5 \/ n = 8 \/ n = 9 \/ n = 10 \/ n = 11
              \/ n = 12 \/ n = 13 \/ n = 14 \/ n = 15 \/ n = 16 \/ n = 17
          BY <2>1, <3>3
        <5> QED
          BY <5>1, <1>7, OrderIs DEF NextCheck
      <4>2. uniques' = uniques
        BY <4>1 DEF RunCheck
      <4>3. SoundOutcome(out)
        BY <1>1, <1>3, RepairSound
      <4>4. LockedKept(mem, out.mem) /\ out.mem \in HealthTable /\ mem \in HealthTable
        BY <4>3, <1>3 DEF SoundOutcome, Inherits, LockedKept, HealthTypes
      <4>5. Lighter(mem, out.mem)
        BY <2>4 DEF CheckTidy
      <4>6. n \in Nat
        BY <2>1
      <4>7. IndexTidy(out.mem, uniques, n + 1)
        BY <2>2, <3>3, <4>4, <4>5, <4>6, IndexesStayTidy
      <4> QED
        BY <1>2, <4>2, <4>7
    <3> QED
      BY <3>1, <3>2, <3>3
  <2>6. TableTidy(mem', n + 1) /\ OthersTidy(others', n + 1)
    BY <1>2, <2>4 DEF CheckTidy
  <2> QED
    BY <1>5, <2>5, <2>6 DEF Tidy
<1> QED
  BY <1>4, <1>5, <1>6, <1>7, <1>2 DEF TidyInv

LEMMA SecondPassTidy ==
    ASSUME HealthInv, TidyInv, SecondPass
    PROVE  TidyInv'
<1>1. /\ fixing.pc = "embed" /\ fixing' = [fixing EXCEPT !.pc = "done"]
      /\ others' = others /\ uniques' = uniques
  BY DEF SecondPass
<1>2. fixing \in HealthRuns /\ mem \in HealthTable
  BY DEF HealthInv, HealthTypes
<1>3. /\ fixing'.pc = "done" /\ fixing'.order = fixing.order /\ fixing'.at = fixing.at
      /\ fixing'.crashed = fixing.crashed
  BY <1>1, <1>2 DEF HealthRuns
<1>4. ASSUME NEW i \in HealthIds
      PROVE  \/ mem'[i] = mem[i]
             \/ mem[i] \in Mem /\ mem[i] # NoMem /\ mem'[i] = [mem[i] EXCEPT !.vec = "good"]
  BY <1>2 DEF SecondPass, HealthTable
<1>5. ASSUME NEW r \in Mem
      PROVE  /\ [r EXCEPT !.vec = "good"] \in Mem
             /\ [r EXCEPT !.vec = "good"].vec = "good" /\ [r EXCEPT !.vec = "good"].text = r.text
             /\ [r EXCEPT !.vec = "good"].chan = r.chan /\ [r EXCEPT !.vec = "good"].locked = r.locked
             /\ [r EXCEPT !.vec = "good"].msg = r.msg /\ [r EXCEPT !.vec = "good"].stamp = r.stamp
             /\ [r EXCEPT !.vec = "good"].dated = r.dated /\ [r EXCEPT !.vec = "good"].source = r.source
             /\ [[r EXCEPT !.vec = "good"] EXCEPT !.vec = r.vec] = r
             /\ [r EXCEPT !.vec = r.vec] = r
  BY DEF Mem
<1>6. ASSUME NEW i \in HealthIds
      PROVE  /\ mem'[i] = NoMem <=> mem[i] = NoMem
             /\ mem[i] # NoMem =>
                  /\ mem'[i] \in Mem /\ mem'[i].text = mem[i].text /\ mem'[i].chan = mem[i].chan
                  /\ mem'[i].locked = mem[i].locked /\ mem'[i].msg = mem[i].msg
                  /\ [mem'[i] EXCEPT !.vec = mem[i].vec] = mem[i]
                  /\ \A n \in Nat : RowTidy(mem[i], n) => RowTidy(mem'[i], n)
  <2>1. CASE mem'[i] = mem[i]
    BY <2>1, <1>2, <1>5 DEF HealthTable
  <2>2. CASE mem[i] \in Mem /\ mem[i] # NoMem /\ mem'[i] = [mem[i] EXCEPT !.vec = "good"]
    <3>1. PICK q : q = [mem[i] EXCEPT !.vec = "good"]
      OBVIOUS
    <3>2. /\ q \in Mem /\ q.vec = "good" /\ q.text = mem[i].text /\ q.chan = mem[i].chan /\ q.locked = mem[i].locked
          /\ q.msg = mem[i].msg /\ q.stamp = mem[i].stamp /\ q.dated = mem[i].dated /\ q.source = mem[i].source
          /\ [q EXCEPT !.vec = mem[i].vec] = mem[i]
      BY <2>2, <3>1, <1>5
    <3>3. \A n \in Nat : RowTidy(mem[i], n) => RowTidy(q, n)
      BY <3>2 DEF RowTidy
    <3> QED
      BY <2>2, <3>1, <3>2, <3>3, NoMemAssumption
  <2> QED
    BY <1>4, <2>1, <2>2
<1>7. mem' \in HealthTable
  BY DEF HealthInv, SecondPass, HealthTypes, HealthTable, Mem
<1>8. SameTexts(mem, mem') /\ LockedKept(mem, mem') /\ Lighter(mem, mem')
  BY <1>6 DEF SameTexts, LockedKept, Lighter, MemIds
<1>9. ASSUME Tidy(mem, others, uniques, 18)
      PROVE  Tidy(mem', others', uniques', 18)
  <2>1. \A i \in MemIds(mem) : RowTidy(mem'[i], 18)
    BY <1>9, <1>6 DEF Tidy, TableTidy, MemIds
  <2>2. MemIds(mem') = MemIds(mem) /\ Unlocked(mem') = Unlocked(mem) /\ Unlocked(mem) \subseteq MemIds(mem)
    BY <1>6 DEF MemIds, Unlocked
  <2>3. \A i \in Unlocked(mem) : ~CoveredIn(mem, i)
    BY <1>9 DEF Tidy, TableTidy
  <2>4. \A i \in Unlocked(mem') : ~CoveredIn(mem', i)
    BY <2>2, <2>3, <1>8, CoveredBySame
  <2>5. TableTidy(mem', 18)
    BY <2>1, <2>2, <2>4 DEF TableTidy
  <2>6. IndexTidy(mem, uniques, 18)
    BY <1>9 DEF Tidy
  <2>7. IndexTidy(mem', uniques, 18 + 1)
    BY <2>6, <1>2, <1>7, <1>8, IndexesStayTidy
  <2>8. IndexTidy(mem', uniques, 18)
    BY <2>7 DEF IndexTidy
  <2> QED
    BY <1>1, <1>9, <2>5, <2>8 DEF Tidy
<1> QED
  BY <1>1, <1>3, <1>9 DEF TidyInv

LEMMA TidyStep ==
    ASSUME HealthInv, TidyInv, [HealthNext]_healthVars
    PROVE  TidyInv'
<1>0. fixing \in HealthRuns
  BY DEF HealthInv, HealthTypes
<1>1. CASE OpenStore
  <2>1. fixing' = fixing /\ fixing.pc = "idle"
    BY <1>1 DEF OpenStore
  <2>2. others' \in Others
    <3>1. NoOthers \in Others /\ AnyOthers \subseteq Others
      BY DEF NoOthers, AnyOthers, Others, EpisodeStamps
    <3> QED
      BY <1>1, <3>1 DEF OpenStore
  <2> QED
    BY <2>1, <2>2 DEF TidyInv
<1>2. ASSUME NEW order \in {HealthOrder, DeepOrder}, StartFix(order)  PROVE TidyInv'
  <2>1. /\ fixing'.pc = "checks" /\ fixing'.at = 1 /\ others' = others /\ ~fixing'.crashed
        /\ mem' = mem /\ uniques' = uniques
    BY <1>2 DEF StartFix, NoRun
  <2>2. TableTidy(mem, 1) /\ OthersTidy(others, 1) /\ IndexTidy(mem, uniques, 1)
    BY DEF TableTidy, RowTidy, OthersTidy, IndexTidy
  <2> QED
    BY <2>1, <2>2 DEF TidyInv, Tidy
<1>3. CASE RunCheck
  BY <1>3, RunCheckTidy
<1>4. CASE CheckCrashes
  <2>1. /\ fixing.pc = "checks" /\ fixing' = [Onward EXCEPT !.crashed = TRUE] /\ others' = others
    BY <1>4 DEF CheckCrashes
  <2>2. PICK pc : pc = IF fixing.at = Len(fixing.order) THEN "commit" ELSE "checks"
    OBVIOUS
  <2>3. Onward = [fixing EXCEPT !.at = fixing.at + 1, !.pc = pc]
    BY <2>2 DEF Onward, Ended
  <2>4. /\ fixing'.order = fixing.order /\ fixing'.crashed /\ fixing'.at = fixing.at + 1 /\ fixing'.pc = pc
    BY <1>0, <2>1, <2>3 DEF HealthRuns
  <2>5. ASSUME fixing.order = HealthOrder
        PROVE  fixing'.at \in (IF fixing'.pc = "checks" THEN 1..17 ELSE {18})
    <3>1. fixing.at \in 1..17
      BY <2>1, <2>5 DEF TidyInv
    <3> QED
      BY <3>1, <2>2, <2>4, <2>5, OrderIs
  <2> QED
    BY <2>1, <2>4, <2>5 DEF TidyInv
<1>5. CASE AfterRepairsCommit
  <2>1. PICK f : fixing' = [fixing EXCEPT !.pc = "embed", !.failed = f]
    BY <1>5 DEF AfterRepairsCommit
  <2>2. /\ fixing'.pc = "embed" /\ fixing'.order = fixing.order /\ fixing'.at = fixing.at
        /\ fixing'.crashed = fixing.crashed
    BY <1>0, <2>1 DEF HealthRuns
  <2>3. fixing.pc = "commit" /\ mem' = mem /\ others' = others /\ uniques' = uniques
    BY <1>5 DEF AfterRepairsCommit
  <2> QED
    BY <2>2, <2>3 DEF TidyInv
<1>6. CASE SecondPass
  BY <1>6, SecondPassTidy
<1>7. CASE UNCHANGED healthVars
  BY <1>7 DEF healthVars, TidyInv
<1> QED
  BY <1>1, <1>2, <1>3, <1>4, <1>5, <1>6, <1>7 DEF HealthNext

\* What is tidy no check of the run would repair.
LEMMA TidyIsConverged ==
    ASSUME HealthTypes, others \in Others, Tidy(mem, others, uniques, 18), NEW k \in 1..17
    PROVE  ~Repairable(HealthOrder[k])
<1>1. /\ mem \in HealthTable /\ mem = [i \in HealthIds |-> mem[i]]
      /\ \A i \in MemIds(mem) : mem[i] \in Mem /\ RowTidy(mem[i], 18)
  BY DEF HealthTypes, HealthTable, MemIds, Tidy, TableTidy
<1>2. \A t : Retouched(t).mem = t /\ Retouched(t).others = others
  BY DEF Retouched, Leaves
<1>3. ASSUME NEW defect \in {"annotated", "mention", "long"}
      PROVE  Rewritten(Defective(defect), defect).mem = mem /\ Rewritten(Defective(defect), defect).others = others
  <2>1. Defective(defect) = {}
    <3>1. \A i \in Unlocked(mem) : ~mem[i].text[defect]
      BY <1>1 DEF Unlocked, RowTidy
    <3> QED
      BY <3>1 DEF Defective
  <2>2. PICK S : S = Defective(defect)
    OBVIOUS
  <2>3. Rewritten(S, defect).others = others
    BY DEF Rewritten, Leaves
  <2>4. \A i \in HealthIds : Rewritten(S, defect).mem[i] = mem[i]
    BY <2>1, <2>2 DEF Rewritten, Leaves
  <2>5. Rewritten(S, defect).mem = [i \in HealthIds |-> Rewritten(S, defect).mem[i]]
    BY DEF Rewritten, Leaves
  <2> QED
    BY <2>2, <2>3, <2>4, <2>5, <1>1
<1>4. ASSUME NEW l  PROVE Deleted({}, l).mem = mem /\ Deleted({}, l).others = others
  BY <1>1 DEF Deleted, Leaves
<1>5. DuplicateContent.mem = mem /\ DuplicateContent.others = others
  <2>1. {i \in Unlocked(mem) : Covered(i)} = {}
    BY CoveredIsCoveredIn DEF Tidy, TableTidy
  <2>2. \E l : DuplicateContent = Deleted({}, l)
    BY <2>1 DEF DuplicateContent
  <2> QED
    BY <2>2, <1>4
<1>6. EmptyContent.mem = mem /\ EmptyContent.others = others
  <2>1. {i \in Unlocked(mem) : mem[i].text = Blank} = {}
    BY <1>1 DEF Unlocked, RowTidy
  <2> QED
    BY <2>1, <1>4 DEF EmptyContent
<1>7. UnusableEmbedding.mem = mem /\ UnusableEmbedding.others = others
  <2>1. {i \in MemIds(mem) : mem[i].vec = "bad"} = {}
    BY <1>1 DEF RowTidy
  <2> QED
    BY <2>1, <1>1, <1>2 DEF UnusableEmbedding, Patched
<1>8. InvalidJson.mem = mem /\ InvalidJson.others = others
  <2>1. {i \in Unlocked(mem) : mem[i].source = "broken"} = {}
    BY <1>1 DEF RowTidy, Unlocked
  <2> QED
    BY <2>1, <1>1, <1>2 DEF InvalidJson, Patched
<1>9. InvalidSourceType.mem = mem /\ InvalidSourceType.others = others
  <2>1. {i \in Unlocked(mem) : mem[i].source = "mappable"} = {}
    BY <1>1 DEF RowTidy, Unlocked
  <2> QED
    BY <2>1, <1>1, <1>2 DEF InvalidSourceType, Patched
<1>10. FutureTimestamp.mem = mem /\ FutureTimestamp.others = others
  <2>1. {i \in Unlocked(mem) : mem[i].stamp = "ahead" /\ mem[i].dated} = {}
    BY <1>1 DEF RowTidy, Unlocked
  <2> QED
    BY <2>1, <1>1, <1>2 DEF FutureTimestamp, Patched
<1>11. FormatDrift.mem = mem /\ FormatDrift.others = others
  <2>1. {i \in Unlocked(mem) : mem[i].stamp = "aware"} = {}
    BY <1>1 DEF RowTidy, Unlocked
  <2> QED
    BY <2>1, <1>1, <1>2 DEF FormatDrift, Patched
<1>12. InvalidTimestamp.mem = mem /\ InvalidTimestamp.others = others
  <2> DEFINE S == {i \in Unlocked(mem) : mem[i].stamp \in {"foreign", "foreign_ahead", "junk", "sql_only"}}
             u == [i \in HealthIds |-> IF i \in S THEN RestampedInvalid(mem[i]) ELSE mem[i]]
  <2>1. ASSUME NEW r \in Mem, RowTidy(r, 18), ~r.locked,
               r.stamp \in {"foreign", "foreign_ahead", "junk", "sql_only"}
        PROVE  RestampedInvalid(r) = r
    <3>1. r.stamp \in {"junk", "sql_only"} /\ ~r.dated
      BY <2>1 DEF RowTidy
    <3>2. RestampedInvalid(r) = [r EXCEPT !.stamp = r.stamp]
      BY <3>1 DEF RestampedInvalid
    <3> QED
      BY <3>2 DEF Mem
  <2>2. \A i \in S : RestampedInvalid(mem[i]) = mem[i]
    BY <2>1, <1>1 DEF Unlocked
  <2>3. u = mem
    BY <2>2, <1>1
  <2>4. InvalidTimestamp = Retouched(u)
    BY DEF InvalidTimestamp, Patched
  <2> QED
    BY <2>3, <2>4, <1>2
<1>13. DedupMsgIdIndex.mem = mem /\ DedupMsgIdIndex.others = others
  <2>1. CASE "msg_id" \in uniques
    BY <2>1, <1>2 DEF DedupMsgIdIndex
  <2>2. CASE "msg_id" \notin uniques
    <3>1. \A i \in Unlocked(mem) : ~mem[i].msg
      BY <2>2 DEF Tidy, IndexTidy
    <3>2. {i \in Messaged : ~mem[i].locked /\ i # MsgKeeper} = {}
      BY <3>1 DEF Messaged, Unlocked
    <3> QED
      BY <2>2, <3>2, <1>1, <1>2 DEF DedupMsgIdIndex, Patched
  <2> QED
    BY <2>1, <2>2
<1>14. /\ MissingEpisodeStartTime.mem = mem /\ MissingEpisodeStartTime.others = others
       /\ EpisodeFormatDrift.mem = mem /\ EpisodeFormatDrift.others = others
       /\ FutureEpisodeTimestamp.mem = mem /\ FutureEpisodeTimestamp.others = others
       /\ OversizedProfile.mem = mem /\ OversizedProfile.others = others
  <2>1. \A o : OthersAs(o).mem = mem /\ OthersAs(o).others = o
    BY DEF OthersAs, Retouched, Leaves
  <2>2. /\ others.start \in EpisodeStamps \ {"aware", "copy", "aware_ahead"}
        /\ others.end \in EpisodeStamps \ {"aware", "copy", "aware_ahead"}
        /\ ~(others.start = "missing" /\ others.dated) /\ ~others.profile_long /\ others.profile_long \in BOOLEAN
        /\ ~(others.start = "ahead" /\ others.dated) /\ ~(others.end = "ahead" /\ others.dated)
    BY DEF Tidy, OthersTidy, Others
  <2>3. /\ InUtc(others.start) = others.start /\ InUtc(others.end) = others.end
        /\ NotAhead(others.start) = others.start /\ NotAhead(others.end) = others.end
        /\ others.profile_long = FALSE
    BY <2>2 DEF InUtc, NotAhead, EpisodeStamps
  <2>4. [others EXCEPT !.start = others.start, !.end = others.end] = others /\ [others EXCEPT !.profile_long = others.profile_long] = others
    BY DEF Others
  <2> QED
    BY <2>1, <2>2, <2>3, <2>4 DEF MissingEpisodeStartTime, EpisodeFormatDrift, FutureEpisodeTimestamp, OversizedProfile
<1>15. /\ MemoryAnnotation.mem = mem /\ MemoryAnnotation.others = others
       /\ DiscordMention.mem = mem /\ DiscordMention.others = others
       /\ OversizedContent.mem = mem /\ OversizedContent.others = others
  BY <1>3 DEF MemoryAnnotation, DiscordMention, OversizedContent
<1>16. Repair(HealthOrder[k]).mem = mem /\ Repair(HealthOrder[k]).others = others
  <2>1. PICK name : name = HealthOrder[k]
    OBVIOUS
  <2>2. name # "short_content"
    <3>1. k = 1 \/ k = 2 \/ k = 3 \/ k = 4 \/ k = 5 \/ k = 6 \/ k = 7 \/ k = 8 \/ k = 9 \/ k = 10 \/ k = 11
          \/ k = 12 \/ k = 13 \/ k = 14 \/ k = 15 \/ k = 16 \/ k = 17
      OBVIOUS
    <3> QED
      BY <2>1, <3>1, OrderIs
  <2>3. Repair(name).mem = mem /\ Repair(name).others = others
    BY <2>2, <1>2, <1>5, <1>6, <1>7, <1>8, <1>9, <1>10, <1>11, <1>12, <1>13, <1>14, <1>15 DEF Repair
  <2> QED
    BY <2>1, <2>3
<1> QED
  BY <1>16 DEF Repairable

\* One health run is enough: after one in which no check crashed, none would repair
\* anything more, and a unique index is missing only where locked rows stand in its way
\* (the registry order of the checks): FixConverges, for any store.
THEOREM RunsConverge == HealthSpec => []FixConverges
<1>1. HealthInit => TidyInv
  <2>1. NoOthers \in Others
    BY DEF NoOthers, Others, EpisodeStamps
  <2> QED
    BY <2>1 DEF HealthInit, NoRun, TidyInv
<1>2. HealthInv /\ TidyInv /\ [HealthNext]_healthVars => TidyInv'
  BY TidyStep
<1>3. HealthInv /\ TidyInv => FixConverges
  <2> SUFFICES ASSUME HealthInv, TidyInv, fixing.pc = "done", fixing.order = HealthOrder, ~fixing.crashed
               PROVE  /\ \A k \in DOMAIN HealthOrder : ~Repairable(HealthOrder[k])
                      /\ \A n \in {"content", "msg_id"} \ uniques : ~Creatable(n, LockedPart(mem))
    BY DEF FixConverges, LockedPart
  <2>1. HealthTypes /\ others \in Others /\ fixing.at = 18 /\ Tidy(mem, others, uniques, 18)
    BY DEF HealthInv, TidyInv
  <2>2. DOMAIN HealthOrder = 1..17
    BY DEF HealthOrder
  <2>3. \A k \in 1..17 : ~Repairable(HealthOrder[k])
    BY <2>1, TidyIsConverged
  <2>4. IndexTidy(mem, uniques, 18)
    BY <2>1 DEF Tidy
  <2>5. \A n \in {"content", "msg_id"} \ uniques : ~Creatable(n, LockedPart(mem))
    BY <2>4 DEF IndexTidy, Creatable
  <2> QED
    BY <2>2, <2>3, <2>5
<1> QED
  BY <1>1, <1>2, <1>3, HealthKept, PTL DEF HealthSpec

----------------------------------------------------------------------------
(* Records carried between agents: tables and single records               *)

\* The columns of a record, and a table of records, deleted ones among them.
Columns == [kind : {"mem", "ep"}, agent : Agents, chan : Chans \cup {""},
            text : TransferTexts \cup {Cut(t) : t \in TransferTexts} \cup {"new"}, msg : Msgs \cup {"new"}]
Slot  == AnyRec \cup {NoRec}
Table == [recs : Seq(Slot), profile : [Agents -> Nat], entity : [Agents -> Entities],
          mentions : SUBSET Nat, ties : SUBSET (Nat \X Nat), folder : SUBSET Agents, filed : SUBSET Nat]

\* A record has its columns, an episode no message id; another agent's copy is a record.
LEMMA RecordFacts ==
    /\ NoRec \notin AnyRec
    /\ \A r \in AnyRec : r \in Columns /\ (r.kind = "ep" => r.msg = "")
    /\ \A r \in AnyRec, a \in Agents : [r EXCEPT !.agent = a] \in AnyRec
    /\ \A r \in Rec : [r EXCEPT !.text = Cut(@)] \in AnyRec
    /\ \A a \in Agents : Newcomer(a) \in AnyRec
<1> DEFINE Full == [kind : {"mem", "ep"}, agent : Agents, chan : Chans, text : TransferTexts, msg : Msgs]
<1>1. \A r \in Rec : r \in Full /\ (r.kind = "ep" => r.msg = "")
  BY DEF Rec
<1>2. \A r \in Full : (r.kind = "ep" => r.msg = "") => r \in Rec
  BY DEF Rec
<1>3. \A r \in AnyRec : \/ r \in Rec
                        \/ \E q \in Rec : r = [q EXCEPT !.text = Cut(@)]
                        \/ \E b \in Agents : r = Newcomer(b)
  BY DEF AnyRec
<1>4. \A r \in Rec : [r EXCEPT !.text = Cut(@)] \in AnyRec
  BY DEF AnyRec
<1>5. \A a \in Agents : Newcomer(a) \in AnyRec
  BY DEF AnyRec
<1>6. Full \subseteq Columns
  BY DEF Columns
<1>7. ASSUME NEW r \in AnyRec  PROVE r \in Columns /\ (r.kind = "ep" => r.msg = "")
  <2>1. CASE r \in Rec
    BY <1>1, <1>6, <2>1
  <2>2. ASSUME NEW q \in Rec, r = [q EXCEPT !.text = Cut(@)]
        PROVE  r \in Columns /\ (r.kind = "ep" => r.msg = "")
    <3>1. q \in Full /\ (q.kind = "ep" => q.msg = "") /\ Cut(q.text) \in {Cut(t) : t \in TransferTexts}
      BY <1>1
    <3> QED
      BY <2>2, <3>1 DEF Columns
  <2>3. ASSUME NEW b \in Agents, r = Newcomer(b)  PROVE r \in Columns /\ (r.kind = "ep" => r.msg = "")
    BY <2>3 DEF Newcomer, Columns
  <2> QED
    BY <1>3, <2>1, <2>2, <2>3
<1>8. ASSUME NEW r \in AnyRec, NEW a \in Agents  PROVE [r EXCEPT !.agent = a] \in AnyRec
  <2>1. \A q \in Rec : [q EXCEPT !.agent = a] \in Rec
    <3> TAKE q \in Rec
    <3>1. q \in Full /\ (q.kind = "ep" => q.msg = "")
      BY <1>1
    <3>2. [q EXCEPT !.agent = a] \in Full
          /\ [q EXCEPT !.agent = a].kind = q.kind /\ [q EXCEPT !.agent = a].msg = q.msg
      BY <3>1
    <3> HIDE DEF Full
    <3> QED
      BY <1>2, <3>1, <3>2
  <2>2. CASE r \in Rec
    BY <2>1, <2>2 DEF AnyRec
  <2>3. ASSUME NEW q \in Rec, r = [q EXCEPT !.text = Cut(@)]  PROVE [r EXCEPT !.agent = a] \in AnyRec
    <3>1. [q EXCEPT !.agent = a] \in Rec
      BY <2>1
    <3>2. q \in Full
      BY <1>1
    <3>3. [r EXCEPT !.agent = a] = [[q EXCEPT !.agent = a] EXCEPT !.text = Cut(@)]
      BY <2>3, <3>2
    <3> QED
      BY <1>4, <3>1, <3>3
  <2>4. ASSUME NEW b \in Agents, r = Newcomer(b)  PROVE [r EXCEPT !.agent = a] \in AnyRec
    <3> DEFINE New == [kind : {"mem"}, agent : Agents, chan : {""}, text : {"new"}, msg : {"new"}]
    <3>1. r \in New
      BY <2>4 DEF Newcomer
    <3>2. [r EXCEPT !.agent = a] \in New /\ [r EXCEPT !.agent = a].agent = a
      BY <3>1
    <3>3. ASSUME NEW q \in New  PROVE q = Newcomer(q.agent)
      <4>1. q = [kind |-> q.kind, agent |-> q.agent, chan |-> q.chan, text |-> q.text, msg |-> q.msg]
        OBVIOUS
      <4>2. q.kind = "mem" /\ q.chan = "" /\ q.text = "new" /\ q.msg = "new"
        OBVIOUS
      <4> HIDE DEF New
      <4> QED
        BY <4>1, <4>2, Zenon DEF Newcomer
    <3> QED
      BY <1>5, <3>2, <3>3
  <2> QED
    BY <1>3, <2>2, <2>3, <2>4
<1> QED
  BY <1>4, <1>5, <1>7, <1>8, TransferConstants

\* An agent's copy of a record.
CopyFor(r, a) == [r EXCEPT !.agent = a]

LEMMA CopyFacts ==
    ASSUME NEW r \in AnyRec, NEW a \in Agents
    PROVE  LET p == CopyFor(r, a)
           IN  /\ p \in AnyRec /\ p.agent = a /\ p.kind = r.kind /\ p.chan = r.chan /\ p.text = r.text /\ p.msg = r.msg
<1>1. r \in Columns
  BY RecordFacts
<1> QED
  BY <1>1, RecordFacts DEF Columns, CopyFor

\* The ids of a table are numbers up to its length.
LEMMA IdFacts ==
    ASSUME NEW c \in Table
    PROVE  /\ Len(c.recs) \in Nat /\ DOMAIN c.recs = 1..Len(c.recs)
           /\ Ids(c) \subseteq 1..Len(c.recs) /\ \A i \in Ids(c) : i \in Nat /\ c.recs[i] \in AnyRec
           /\ \A i \in 1..Len(c.recs) : c.recs[i] # NoRec => i \in Ids(c)
           /\ \A a : \A i : i \in RecsOf(c, a) <=> i \in Ids(c) /\ c.recs[i].agent = a
           /\ \A a, r : SameMsg(c, a, r) \subseteq RecsOf(c, a) /\ SameText(c, a, r) \subseteq RecsOf(c, a)
<1>1. c.recs \in Seq(Slot)
  BY DEF Table
<1>2. Len(c.recs) \in Nat /\ DOMAIN c.recs = 1..Len(c.recs) /\ \A i \in 1..Len(c.recs) : c.recs[i] \in Slot
  BY <1>1, LenProperties, ElementOfSeq
<1>3. Ids(c) \subseteq 1..Len(c.recs) /\ \A i \in Ids(c) : i \in Nat /\ c.recs[i] \in AnyRec
  BY <1>2 DEF Ids, Slot
<1>4. \A i \in 1..Len(c.recs) : c.recs[i] # NoRec => i \in Ids(c)
  BY <1>2 DEF Ids
<1>5. \A a : \A i : i \in RecsOf(c, a) <=> i \in Ids(c) /\ c.recs[i].agent = a
  BY DEF RecsOf
<1>6. \A a, r : SameMsg(c, a, r) \subseteq RecsOf(c, a) /\ SameText(c, a, r) \subseteq RecsOf(c, a)
  BY DEF SameMsg, SameText
<1> QED
  BY <1>2, <1>3, <1>4, <1>5, <1>6

\* The first of some ids is one of them.
LEMMA FirstIsOne == ASSUME NEW S, S \subseteq Nat, S # {} PROVE First(S) \in S
<1>1. \E i \in S : \A j \in S : i <= j
  BY LeastNumber
<1> QED
  BY <1>1 DEF First

\* A table with a record added.
Added(c, r) == [c EXCEPT !.recs = Append(@, r)]

\* It has the next id, and nothing else changes.
LEMMA AddedTable ==
    ASSUME NEW c \in Table, NEW r \in AnyRec, NEW d, d = Added(c, r)
    PROVE  /\ d \in Table /\ Len(d.recs) = Len(c.recs) + 1 /\ d.recs[Len(c.recs) + 1] = r
           /\ \A i \in 1..Len(c.recs) : d.recs[i] = c.recs[i]
           /\ d.profile = c.profile /\ d.entity = c.entity /\ d.mentions = c.mentions /\ d.ties = c.ties
           /\ d.folder = c.folder /\ d.filed = c.filed
<1> DEFINE N == Len(c.recs)
<1>1. c.recs \in Seq(Slot) /\ r \in Slot
  BY DEF Table, Slot
<1>2. Append(c.recs, r) \in Seq(Slot) /\ Len(Append(c.recs, r)) = N + 1 /\ N \in Nat
      /\ (\A i \in 1..N : Append(c.recs, r)[i] = c.recs[i]) /\ Append(c.recs, r)[N + 1] = r
  BY <1>1, AppendProperties, LenProperties
<1>3. /\ d.recs = Append(c.recs, r) /\ d.profile = c.profile /\ d.entity = c.entity /\ d.mentions = c.mentions
      /\ d.ties = c.ties /\ d.folder = c.folder /\ d.filed = c.filed
  BY DEF Table, Added
<1>4. d \in Table
  BY <1>2 DEF Table, Added
<1>5. /\ d.recs[N + 1] = r /\ Len(d.recs) = N + 1 /\ \A i \in 1..N : d.recs[i] = c.recs[i]
  BY <1>2, <1>3
<1> QED
  BY <1>3, <1>4, <1>5 DEF N

LEMMA AddedIds ==
    ASSUME NEW c \in Table, NEW r \in AnyRec, NEW d, d = Added(c, r)
    PROVE  /\ \A i : i \in Ids(d) <=> i \in Ids(c) \/ i = Len(c.recs) + 1
           /\ \A b, i : i \in RecsOf(d, b) <=> i \in RecsOf(c, b) \/ (r.agent = b /\ i = Len(c.recs) + 1)
           /\ Len(c.recs) + 1 \notin Ids(c) /\ \A i \in Ids(c) : d.recs[i] = c.recs[i]
<1> DEFINE N == Len(c.recs)
<1>1. N \in Nat /\ Len(d.recs) = N + 1 /\ d.recs[N + 1] = r /\ d \in Table
      /\ \A i \in 1..N : d.recs[i] = c.recs[i]
  BY AddedTable, IdFacts
<1>2. DOMAIN c.recs = 1..N /\ DOMAIN d.recs = 1..(N + 1) /\ r # NoRec
  BY <1>1, IdFacts, RecordFacts
<1> HIDE DEF N
<1>3. \A i : i \in 1..(N + 1) <=> i \in 1..N \/ i = N + 1
  BY <1>1
<1>4. N + 1 \notin 1..N
  BY <1>1
<1>5. \A i : i \in Ids(d) <=> i \in Ids(c) \/ i = N + 1
  BY <1>1, <1>2, <1>3 DEF Ids
<1>6. N + 1 \notin Ids(c) /\ \A i \in Ids(c) : d.recs[i] = c.recs[i]
  BY <1>1, <1>2, <1>4 DEF Ids
<1>7. \A b, i : i \in RecsOf(d, b) <=> i \in RecsOf(c, b) \/ (r.agent = b /\ i = N + 1)
  BY <1>1, <1>5, <1>6 DEF RecsOf
<1> QED
  BY <1>5, <1>6, <1>7 DEF N

\* What two records have in common that makes one superfluous.
SameId(q, r)    == q.kind = "mem" /\ q.msg # "" /\ r.kind = "mem" /\ r.msg = q.msg
SameWords(q, r) == r.kind = q.kind /\ r.chan = q.chan /\ r.text = q.text

LEMMA FoundBy ==
    ASSUME NEW c, NEW a, NEW q, NEW i
    PROVE  /\ i \in SameMsg(c, a, q) <=> i \in RecsOf(c, a) /\ SameId(q, c.recs[i])
           /\ i \in SameText(c, a, q) <=> i \in RecsOf(c, a) /\ SameWords(q, c.recs[i])
  BY DEF SameMsg, SameText, SameId, SameWords

\* What is found once a record is added.
LEMMA AddedFound ==
    ASSUME NEW c \in Table, NEW r \in AnyRec, NEW d, d = Added(c, r), NEW b, NEW q, NEW i
    PROVE  /\ i \in SameMsg(d, b, q) <=>
                 i \in SameMsg(c, b, q) \/ (i = Len(c.recs) + 1 /\ r.agent = b /\ SameId(q, r))
           /\ i \in SameText(d, b, q) <=>
                 i \in SameText(c, b, q) \/ (i = Len(c.recs) + 1 /\ r.agent = b /\ SameWords(q, r))
<1> DEFINE N == Len(c.recs)
<1>1. /\ i \in RecsOf(d, b) <=> i \in RecsOf(c, b) \/ (r.agent = b /\ i = N + 1)
      /\ N + 1 \notin Ids(c) /\ \A j \in Ids(c) : d.recs[j] = c.recs[j]
  BY AddedIds
<1>2. d.recs[N + 1] = r
  BY AddedTable
<1>3. RecsOf(c, b) \subseteq Ids(c)
  BY DEF RecsOf
<1>4. /\ i \in SameMsg(d, b, q) <=> i \in RecsOf(d, b) /\ SameId(q, d.recs[i])
      /\ i \in SameText(d, b, q) <=> i \in RecsOf(d, b) /\ SameWords(q, d.recs[i])
      /\ i \in SameMsg(c, b, q) <=> i \in RecsOf(c, b) /\ SameId(q, c.recs[i])
      /\ i \in SameText(c, b, q) <=> i \in RecsOf(c, b) /\ SameWords(q, c.recs[i])
  BY FoundBy
<1> HIDE DEF N
<1>5. i = N + 1 => i \notin RecsOf(c, b) /\ d.recs[i] = r
  BY <1>1, <1>2, <1>3
<1>6. i # N + 1 /\ i \in RecsOf(c, b) => d.recs[i] = c.recs[i]
  BY <1>1, <1>3
<1>7. i \in SameMsg(d, b, q) <=> i \in SameMsg(c, b, q) \/ (i = N + 1 /\ r.agent = b /\ SameId(q, r))
  BY <1>1, <1>4, <1>5, <1>6
<1>8. i \in SameText(d, b, q) <=> i \in SameText(c, b, q) \/ (i = N + 1 /\ r.agent = b /\ SameWords(q, r))
  BY <1>1, <1>4, <1>5, <1>6
<1> QED
  BY <1>7, <1>8 DEF N

LEMMA AddedFinds ==
    ASSUME NEW c \in Table, NEW r \in AnyRec, NEW q
    PROVE  /\ SameMsg(Added(c, r), r.agent, q) # {} <=> SameMsg(c, r.agent, q) # {} \/ SameId(q, r)
           /\ SameText(Added(c, r), r.agent, q) # {} <=> SameText(c, r.agent, q) # {} \/ SameWords(q, r)
<1> PICK d, b : d = Added(c, r) /\ b = r.agent
  OBVIOUS
<1>1. \A i : i \in SameMsg(d, b, q) <=> i \in SameMsg(c, b, q) \/ (i = Len(c.recs) + 1 /\ r.agent = b /\ SameId(q, r))
  BY AddedFound
<1>2. \A i : i \in SameText(d, b, q) <=>
                i \in SameText(c, b, q) \/ (i = Len(c.recs) + 1 /\ r.agent = b /\ SameWords(q, r))
  BY AddedFound
<1>3. SameMsg(d, b, q) # {} <=> SameMsg(c, b, q) # {} \/ SameId(q, r)
  BY <1>1
<1>4. SameText(d, b, q) # {} <=> SameText(c, b, q) # {} \/ SameWords(q, r)
  BY <1>2
<1> QED
  BY <1>3, <1>4



----------------------------------------------------------------------------
(* Records carried between agents: the order they are read in              *)

IdsBefore == {p \in Nat \X Nat : p[1] < p[2]}

\* Some ids in their order: each of them, once.
LEMMA InIdOrderFacts ==
    ASSUME NEW S, S \subseteq Nat, IsFiniteSet(S)
    PROVE  LET list == InIdOrder(S)
           IN  /\ list \in Seq(S) /\ Len(list) = Cardinality(S) /\ Cardinality(S) \in Nat
               /\ \A i \in S : \E n \in 1..Len(list) : list[n] = i
               /\ \A m, n \in 1..Len(list) : m # n => list[m] # list[n]
<1> DEFINE R == IdsBefore
           N == Cardinality(S)
           list == InIdOrder(S)
<1>1. \A x, y \in S : <<x, y>> \in R <=> x < y
  BY DEF IdsBefore
<1>2. IsStrictOrder(S, R)
  <2>1. \A x \in S : <<x, x>> \notin R
    BY <1>1
  <2>2. \A x, y, z \in S : <<x, y>> \in R /\ <<y, z>> \in R => <<x, z>> \in R
    <3> TAKE x, y, z \in S
    <3>1. x \in Nat /\ y \in Nat /\ z \in Nat
      OBVIOUS
    <3> QED
      BY <1>1, <3>1
  <2>3. \A x, y \in S : x = y \/ <<x, y>> \in R \/ <<y, x>> \in R
    <3> TAKE x, y \in S
    <3>1. x \in Nat /\ y \in Nat
      OBVIOUS
    <3> QED
      BY <1>1, <3>1
  <2> HIDE DEF R
  <2> QED
    BY <2>1, <2>2, <2>3 DEF IsStrictOrder
<1> HIDE DEF R
<1>3. list = InOrder(S, R)
  <2> DEFINE early(x) == Cardinality({y \in S : y < x})
  <2>1. \A x \in S : early(x) = PlaceOf(S, R, x)
    <3> TAKE x \in S
    <3>1. {y \in S : y < x} = Ahead(S, R, x)
      BY <1>1 DEF Ahead
    <3> QED
      BY <3>1 DEF PlaceOf
  <2>2. list = [k \in 1..N |-> CHOOSE x \in S : early(x) = k - 1]
    BY DEF InIdOrder
  <2>3. ASSUME NEW k
        PROVE  (CHOOSE x \in S : early(x) = k - 1) = CHOOSE x \in S : PlaceOf(S, R, x) = k - 1
    <3> HIDE DEF early
    <3> QED
      BY <2>1
  <2> QED
    BY <2>2, <2>3 DEF InOrder
<1> HIDE DEF list
<1>4. /\ N \in Nat /\ list \in [1..N -> S]
      /\ \A k \in 1..N : PlaceOf(S, R, list[k]) = k - 1
      /\ \A x \in S : \E k \in 1..N : list[k] = x
  BY <1>2, <1>3, InOrderFacts
<1> HIDE DEF N
<1>5. list \in Seq(S) /\ Len(list) = N
  BY <1>4, AsList
<1>6. ASSUME NEW m \in 1..N, NEW n \in 1..N, list[m] = list[n]  PROVE m = n
  <2>1. m - 1 = n - 1 /\ m \in Int /\ n \in Int
    BY <1>4, <1>6
  <2> QED
    BY <2>1
<1> QED
  BY <1>4, <1>5, <1>6 DEF list, N

\* An agent's records as they are read: each of them, once.
LEMMA ListedFacts ==
    ASSUME NEW c \in Table, NEW a
    PROVE  LET list == Listed(c, a)
           IN  /\ list \in Seq(RecsOf(c, a)) /\ list \in Seq(Nat) /\ Len(list) \in Nat /\ DOMAIN list = 1..Len(list)
               /\ \A n \in 1..Len(list) : list[n] \in RecsOf(c, a)
               /\ \A i \in RecsOf(c, a) : \E n \in 1..Len(list) : list[n] = i
               /\ \A m, n \in 1..Len(list) : m # n => list[m] # list[n]
<1> DEFINE S(k) == {i \in RecsOf(c, a) : c.recs[i].kind = k}
           mems == InIdOrder(S("mem"))
           eps  == InIdOrder(S("ep"))
           list == mems \o eps
<1>1. RecsOf(c, a) \subseteq 1..Len(c.recs) /\ Len(c.recs) \in Nat
      /\ \A i \in RecsOf(c, a) : c.recs[i].kind \in {"mem", "ep"}
  <2>1. /\ Len(c.recs) \in Nat /\ Ids(c) \subseteq 1..Len(c.recs)
        /\ \A i \in RecsOf(c, a) : i \in Ids(c) /\ c.recs[i] \in AnyRec
    BY IdFacts
  <2>2. \A r \in AnyRec : r.kind \in {"mem", "ep"}
    BY RecordFacts DEF Columns
  <2> QED
    BY <2>1, <2>2
<1>2. \A k : S(k) \subseteq Nat /\ S(k) \subseteq 1..Len(c.recs) /\ S(k) \subseteq RecsOf(c, a)
  BY <1>1
<1>3. \A k : IsFiniteSet(S(k))
  <2>1. IsFiniteSet(1..Len(c.recs))
    BY <1>1, FS_Interval
  <2> HIDE DEF S
  <2> QED
    BY <1>2, <2>1, FS_Subset
<1>4. Listed(c, a) = list
  BY DEF Listed
<1>5. /\ mems \in Seq(S("mem")) /\ \A i \in S("mem") : \E n \in 1..Len(mems) : mems[n] = i
      /\ \A m, n \in 1..Len(mems) : m # n => mems[m] # mems[n]
  <2> HIDE DEF S
  <2> QED
    BY <1>2, <1>3, InIdOrderFacts
<1>6. /\ eps \in Seq(S("ep")) /\ \A i \in S("ep") : \E n \in 1..Len(eps) : eps[n] = i
      /\ \A m, n \in 1..Len(eps) : m # n => eps[m] # eps[n]
  <2> HIDE DEF S
  <2> QED
    BY <1>2, <1>3, InIdOrderFacts
<1>7. \A i \in RecsOf(c, a) : i \in S("mem") \/ i \in S("ep")
  BY <1>1
<1>8. \A i \in S("mem") : i \notin S("ep")
  OBVIOUS
<1> HIDE DEF S, mems, eps
<1>9. mems \in Seq(RecsOf(c, a)) /\ eps \in Seq(RecsOf(c, a))
  BY <1>2, <1>5, <1>6, SeqMonotonic
<1>10. /\ list \in Seq(RecsOf(c, a)) /\ Len(list) = Len(mems) + Len(eps)
       /\ \A n \in 1..(Len(mems) + Len(eps)) : list[n] = IF n <= Len(mems) THEN mems[n] ELSE eps[n - Len(mems)]
  BY <1>9, ConcatProperties
<1>11. Len(mems) \in Nat /\ Len(eps) \in Nat
       /\ (\A n \in 1..Len(mems) : mems[n] \in S("mem")) /\ \A n \in 1..Len(eps) : eps[n] \in S("ep")
  BY <1>5, <1>6, LenProperties, ElementOfSeq
<1> HIDE DEF list
<1>12. DOMAIN list = 1..Len(list) /\ Len(list) \in Nat /\ \A n \in 1..Len(list) : list[n] \in RecsOf(c, a)
  BY <1>10, LenProperties, ElementOfSeq
<1>13. list \in Seq(Nat)
  BY <1>1, <1>10, SeqMonotonic
<1>14. ASSUME NEW i \in RecsOf(c, a)  PROVE \E n \in 1..Len(list) : list[n] = i
  <2>1. CASE i \in S("mem")
    <3>1. PICK n \in 1..Len(mems) : mems[n] = i
      BY <1>5, <2>1
    <3>2. n \in 1..Len(list) /\ list[n] = i
      BY <1>10, <1>11, <3>1
    <3> QED
      BY <3>2
  <2>2. CASE i \in S("ep")
    <3>1. PICK n \in 1..Len(eps) : eps[n] = i
      BY <1>6, <2>2
    <3>2. n + Len(mems) \in 1..Len(list) /\ ~(n + Len(mems) <= Len(mems)) /\ n + Len(mems) - Len(mems) = n
      BY <1>10, <1>11
    <3>3. list[n + Len(mems)] = i
      BY <1>10, <3>1, <3>2
    <3> QED
      BY <3>2, <3>3
  <2> QED
    BY <1>7, <2>1, <2>2
<1>15. ASSUME NEW m \in 1..Len(list), NEW n \in 1..Len(list), m # n  PROVE list[m] # list[n]
  <2> DEFINE M == Len(mems)
  <2>1. \A k \in 1..Len(list) : \/ k \in 1..M /\ list[k] = mems[k] /\ list[k] \in S("mem")
                                \/ k - M \in 1..Len(eps) /\ list[k] = eps[k - M] /\ list[k] \in S("ep")
    <3> TAKE k \in 1..Len(list)
    <3>1. CASE k <= M
      BY <1>10, <1>11, <3>1
    <3>2. CASE ~(k <= M)
      <4>1. k - M \in 1..Len(eps)
        BY <1>10, <1>11, <3>2
      <4> QED
        BY <1>10, <1>11, <3>2, <4>1
    <3> QED
      BY <3>1, <3>2
  <2>2. M \in Nat /\ m \in Int /\ n \in Int /\ m - M # n - M
    BY <1>11, <1>12, <1>15
  <2> HIDE DEF M
  <2> QED
    <3>1. CASE m \in 1..M /\ n \in 1..M /\ list[m] = mems[m] /\ list[n] = mems[n]
      BY <1>5, <1>15, <3>1 DEF M
    <3>2. CASE (list[m] \in S("mem") /\ list[n] \in S("ep")) \/ (list[n] \in S("mem") /\ list[m] \in S("ep"))
      BY <1>8, <3>2
    <3>3. CASE m - M \in 1..Len(eps) /\ n - M \in 1..Len(eps) /\ list[m] = eps[m - M] /\ list[n] = eps[n - M]
      BY <1>6, <2>2, <3>3
    <3> QED
      BY <2>1, <3>1, <3>2, <3>3
<1> QED
  BY <1>4, <1>10, <1>12, <1>13, <1>14, <1>15


----------------------------------------------------------------------------
(* Records carried between agents: taking one line                         *)

\* A line that is read: the id its record had, the record it would become, and whether a
\* blank one is counted as skipped.
Line == [id : Nat, rec : AnyRec, told : {0, 1}]

\* MergeRow and ImportLine are the same step, of a line.
Taken(s, dry, a, line) ==
    IF IsBlank(line.rec) THEN [s EXCEPT !.tally.skipped = @ + line.told]
    ELSE WriteRecord(s, dry, a, line.id, line.rec)

\* What the steps pass on.
TallyOf(m, copied, stored, skipped, msgs, texts) ==
    [map |-> m, copied |-> copied, stored |-> stored, skipped |-> skipped, seenMsg |-> msgs, seenText |-> texts]
StateOf(c, t) == [c |-> c, tally |-> t]

LEMMA StateReads ==
    ASSUME NEW c, NEW m, NEW cp, NEW st, NEW sk, NEW ms, NEW ts, NEW s,
           s = StateOf(c, TallyOf(m, cp, st, sk, ms, ts))
    PROVE  /\ s.c = c /\ s.tally.map = m /\ s.tally.copied = cp /\ s.tally.stored = st /\ s.tally.skipped = sk
           /\ s.tally.seenMsg = ms /\ s.tally.seenText = ts
  BY DEF StateOf, TallyOf

\* One part of it changed.
LEMMA TableSet ==
    ASSUME NEW c, NEW t, NEW s, s = StateOf(c, t), NEW x
    PROVE  [s EXCEPT !.c.recs = x] = StateOf([c EXCEPT !.recs = x], t)
  BY DEF StateOf

LEMMA MapSet ==
    ASSUME NEW c, NEW m, NEW cp, NEW st, NEW sk, NEW ms, NEW ts, NEW s,
           s = StateOf(c, TallyOf(m, cp, st, sk, ms, ts)), NEW x
    PROVE  [s EXCEPT !.tally.map = x] = StateOf(c, TallyOf(x, cp, st, sk, ms, ts))
<1> DEFINE t == TallyOf(m, cp, st, sk, ms, ts)
<1>1. [t EXCEPT !.map = x] = TallyOf(x, cp, st, sk, ms, ts)
  BY DEF TallyOf
<1>2. s = [c |-> c, tally |-> t]
  BY DEF StateOf
<1> HIDE DEF t
<1>3. [s EXCEPT !.tally.map = x] = [c |-> c, tally |-> [t EXCEPT !.map = x]]
  BY <1>2
<1> QED
  BY <1>1, <1>3 DEF StateOf

LEMMA CopiedSet ==
    ASSUME NEW c, NEW m, NEW cp, NEW st, NEW sk, NEW ms, NEW ts, NEW s,
           s = StateOf(c, TallyOf(m, cp, st, sk, ms, ts)), NEW x
    PROVE  [s EXCEPT !.tally.copied = x] = StateOf(c, TallyOf(m, x, st, sk, ms, ts))
<1> DEFINE t == TallyOf(m, cp, st, sk, ms, ts)
<1>1. [t EXCEPT !.copied = x] = TallyOf(m, x, st, sk, ms, ts)
  BY DEF TallyOf
<1>2. s = [c |-> c, tally |-> t]
  BY DEF StateOf
<1> HIDE DEF t
<1>3. [s EXCEPT !.tally.copied = x] = [c |-> c, tally |-> [t EXCEPT !.copied = x]]
  BY <1>2
<1> QED
  BY <1>1, <1>3 DEF StateOf

LEMMA StoredSet ==
    ASSUME NEW c, NEW m, NEW cp, NEW st, NEW sk, NEW ms, NEW ts, NEW s,
           s = StateOf(c, TallyOf(m, cp, st, sk, ms, ts)), NEW x
    PROVE  [s EXCEPT !.tally.stored = x] = StateOf(c, TallyOf(m, cp, x, sk, ms, ts))
<1> DEFINE t == TallyOf(m, cp, st, sk, ms, ts)
<1>1. [t EXCEPT !.stored = x] = TallyOf(m, cp, x, sk, ms, ts)
  BY DEF TallyOf
<1>2. s = [c |-> c, tally |-> t]
  BY DEF StateOf
<1> HIDE DEF t
<1>3. [s EXCEPT !.tally.stored = x] = [c |-> c, tally |-> [t EXCEPT !.stored = x]]
  BY <1>2
<1> QED
  BY <1>1, <1>3 DEF StateOf

LEMMA SkippedSet ==
    ASSUME NEW c, NEW m, NEW cp, NEW st, NEW sk, NEW ms, NEW ts, NEW s,
           s = StateOf(c, TallyOf(m, cp, st, sk, ms, ts)), NEW x
    PROVE  [s EXCEPT !.tally.skipped = x] = StateOf(c, TallyOf(m, cp, st, x, ms, ts))
<1> DEFINE t == TallyOf(m, cp, st, sk, ms, ts)
<1>1. [t EXCEPT !.skipped = x] = TallyOf(m, cp, st, x, ms, ts)
  BY DEF TallyOf
<1>2. s = [c |-> c, tally |-> t]
  BY DEF StateOf
<1> HIDE DEF t
<1>3. [s EXCEPT !.tally.skipped = x] = [c |-> c, tally |-> [t EXCEPT !.skipped = x]]
  BY <1>2
<1> QED
  BY <1>1, <1>3 DEF StateOf

LEMMA MsgsSet ==
    ASSUME NEW c, NEW m, NEW cp, NEW st, NEW sk, NEW ms, NEW ts, NEW s,
           s = StateOf(c, TallyOf(m, cp, st, sk, ms, ts)), NEW x
    PROVE  [s EXCEPT !.tally.seenMsg = x] = StateOf(c, TallyOf(m, cp, st, sk, x, ts))
<1> DEFINE t == TallyOf(m, cp, st, sk, ms, ts)
<1>1. [t EXCEPT !.seenMsg = x] = TallyOf(m, cp, st, sk, x, ts)
  BY DEF TallyOf
<1>2. s = [c |-> c, tally |-> t]
  BY DEF StateOf
<1> HIDE DEF t
<1>3. [s EXCEPT !.tally.seenMsg = x] = [c |-> c, tally |-> [t EXCEPT !.seenMsg = x]]
  BY <1>2
<1> QED
  BY <1>1, <1>3 DEF StateOf

LEMMA TextsSet ==
    ASSUME NEW c, NEW m, NEW cp, NEW st, NEW sk, NEW ms, NEW ts, NEW s,
           s = StateOf(c, TallyOf(m, cp, st, sk, ms, ts)), NEW x
    PROVE  [s EXCEPT !.tally.seenText = x] = StateOf(c, TallyOf(m, cp, st, sk, ms, x))
<1> DEFINE t == TallyOf(m, cp, st, sk, ms, ts)
<1>1. [t EXCEPT !.seenText = x] = TallyOf(m, cp, st, sk, ms, x)
  BY DEF TallyOf
<1>2. s = [c |-> c, tally |-> t]
  BY DEF StateOf
<1> HIDE DEF t
<1>3. [s EXCEPT !.tally.seenText = x] = [c |-> c, tally |-> [t EXCEPT !.seenText = x]]
  BY <1>2
<1> QED
  BY <1>1, <1>3 DEF StateOf

StateOK(s) ==
    \E c \in Table, stored \in Nat, skipped \in Nat : \E m, copied, msgs, texts :
        s = StateOf(c, TallyOf(m, copied, stored, skipped, msgs, texts))

LEMMA StateTypes ==
    ASSUME NEW s, StateOK(s)
    PROVE  /\ s.c \in Table /\ s.tally.stored \in Nat /\ s.tally.skipped \in Nat
           /\ s = StateOf(s.c, TallyOf(s.tally.map, s.tally.copied, s.tally.stored, s.tally.skipped,
                                       s.tally.seenMsg, s.tally.seenText))
<1>1. PICK c \in Table, stored \in Nat, skipped \in Nat : \E m, copied, msgs, texts :
         s = StateOf(c, TallyOf(m, copied, stored, skipped, msgs, texts))
  BY DEF StateOK
<1>2. PICK m, copied, msgs, texts : s = StateOf(c, TallyOf(m, copied, stored, skipped, msgs, texts))
  BY <1>1
<1>3. /\ s.c = c /\ s.tally.map = m /\ s.tally.copied = copied /\ s.tally.stored = stored
      /\ s.tally.skipped = skipped /\ s.tally.seenMsg = msgs /\ s.tally.seenText = texts
  BY <1>2, StateReads
<1> QED
  BY <1>2, <1>3

\* What a dry run remembers of a record.
WithMsg(S, a, r) == S \cup (IF r.msg = "" THEN {} ELSE {<<a, r.msg>>})
WithOne(S, x) == S \cup {x}
TextKey(a, r) == <<r.kind, a, r.chan, r.text>>

\* A record the step finds at the target, by its message or by its text.
MsgFound(s, a, r)  == SameMsg(s.c, a, r) # {}
TextFound(s, a, r) == SameText(s.c, a, r) # {}
\* ... or in a dry run, there or seen.
MsgSeen(s, a, r)  == MsgFound(s, a, r) \/ (r.msg # "" /\ <<a, r.msg>> \in s.tally.seenMsg)
TextSeen(s, a, r) == TextFound(s, a, r) \/ TextKey(a, r) \in s.tally.seenText
MsgKnown(s, dry, a, r)  == IF dry THEN MsgSeen(s, a, r) ELSE MsgFound(s, a, r)
TextKnown(s, dry, a, r) == IF dry THEN TextSeen(s, a, r) ELSE TextFound(s, a, r)

\* t is s with a line not counted, counted as skipped, as written, or as seen.
PassedOver(s, t, n) ==
    t = StateOf(s.c, TallyOf(s.tally.map, s.tally.copied, s.tally.stored, s.tally.skipped + n,
                             s.tally.seenMsg, s.tally.seenText))
SkippedAs(s, t, old, twins) ==
    t = StateOf(s.c, TallyOf(WithKnown(s.tally.map, old, IF twins = {} THEN old ELSE First(twins)), s.tally.copied,
                             s.tally.stored, s.tally.skipped + 1, s.tally.seenMsg, s.tally.seenText))
WrittenAs(s, t, old, r) ==
    t = StateOf(Added(s.c, r),
                TallyOf(WithKnown(s.tally.map, old, Len(s.c.recs) + 1), WithOne(s.tally.copied, old),
                        s.tally.stored + 1, s.tally.skipped, s.tally.seenMsg, s.tally.seenText))
SeenAs(s, t, a, old, r) ==
    t = StateOf(s.c, TallyOf(WithKnown(s.tally.map, old, old), s.tally.copied, s.tally.stored + 1, s.tally.skipped,
                             WithMsg(s.tally.seenMsg, a, r), WithOne(s.tally.seenText, TextKey(a, r))))

LEMMA SkipFacts ==
    ASSUME NEW s, StateOK(s), NEW old, NEW twins
    PROVE  SkippedAs(s, Skip(s, old, twins), old, twins)
<1> DEFINE m == s.tally.map
           cp == s.tally.copied
           st == s.tally.stored
           sk == s.tally.skipped
           ms == s.tally.seenMsg
           ts == s.tally.seenText
           known == WithKnown(m, old, IF twins = {} THEN old ELSE First(twins))
           u == [s EXCEPT !.tally.skipped = sk + 1]
<1>1. s = StateOf(s.c, TallyOf(m, cp, st, sk, ms, ts))
  BY StateTypes
<1>2. u = StateOf(s.c, TallyOf(m, cp, st, sk + 1, ms, ts))
  <2> HIDE DEF m, cp, st, sk, ms, ts
  <2> QED
    BY <1>1, SkippedSet
<1>3. u.tally.map = m
  <2> HIDE DEF m, cp, st, sk, ms, ts, u
  <2> QED
    BY <1>2, StateReads
<1>4. Skip(s, old, twins) = [u EXCEPT !.tally.map = known]
  BY <1>3 DEF Skip
<1>5. [u EXCEPT !.tally.map = known] = StateOf(s.c, TallyOf(known, cp, st, sk + 1, ms, ts))
  <2> HIDE DEF m, cp, st, sk, ms, ts, u, known
  <2> QED
    BY <1>2, MapSet
<1> QED
  BY <1>4, <1>5 DEF SkippedAs

LEMMA WriteFacts ==
    ASSUME NEW s, StateOK(s), NEW dry \in BOOLEAN, NEW a, NEW old, NEW r
    PROVE  LET t == WriteRecord(s, dry, a, old, r)
           IN  /\ MsgKnown(s, dry, a, r) => SkippedAs(s, t, old, SameMsg(s.c, a, r))
               /\ ~MsgKnown(s, dry, a, r) /\ TextKnown(s, dry, a, r) => SkippedAs(s, t, old, SameText(s.c, a, r))
               /\ ~MsgKnown(s, dry, a, r) /\ ~TextKnown(s, dry, a, r) /\ dry => SeenAs(s, t, a, old, r)
               /\ ~MsgKnown(s, dry, a, r) /\ ~TextKnown(s, dry, a, r) /\ ~dry
                     => WrittenAs(s, t, old, CopyFor(r, a))
<1> DEFINE t == WriteRecord(s, dry, a, old, r)
           m == s.tally.map
           cp == s.tally.copied
           st == s.tally.stored
           sk == s.tally.skipped
           ms == s.tally.seenMsg
           ts == s.tally.seenText
<1>1. s = StateOf(s.c, TallyOf(m, cp, st, sk, ms, ts))
  BY StateTypes
<1>2. MsgKnown(s, dry, a, r) => t = Skip(s, old, SameMsg(s.c, a, r))
  BY DEF WriteRecord, MsgKnown, MsgFound, MsgSeen
<1>3. ~MsgKnown(s, dry, a, r) /\ TextKnown(s, dry, a, r) => t = Skip(s, old, SameText(s.c, a, r))
  BY DEF WriteRecord, MsgKnown, TextKnown, MsgFound, TextFound, MsgSeen, TextSeen, TextKey
<1>4. ASSUME ~MsgKnown(s, dry, a, r), ~TextKnown(s, dry, a, r), dry
      PROVE  SeenAs(s, t, a, old, r)
  <2> DEFINE known == WithKnown(m, old, old)
             newMs == WithMsg(ms, a, r)
             newTs == WithOne(ts, TextKey(a, r))
             u1 == [s EXCEPT !.tally.stored = st + 1]
             u2 == [u1 EXCEPT !.tally.map = known]
             u3 == [u2 EXCEPT !.tally.seenMsg = newMs]
             u4 == [u3 EXCEPT !.tally.seenText = newTs]
  <2>1. u1 = StateOf(s.c, TallyOf(m, cp, st + 1, sk, ms, ts))
    <3> HIDE DEF m, cp, st, sk, ms, ts
    <3> QED
      BY <1>1, StoredSet
  <2>2. u1.tally.map = m
    <3> HIDE DEF m, cp, st, sk, ms, ts, u1
    <3> QED
      BY <2>1, StateReads
  <2>3. u2 = StateOf(s.c, TallyOf(known, cp, st + 1, sk, ms, ts))
    <3> HIDE DEF m, cp, st, sk, ms, ts, u1, known
    <3> QED
      BY <2>1, MapSet
  <2>4. u2.tally.seenMsg = ms
    <3> HIDE DEF m, cp, st, sk, ms, ts, u1, u2, known
    <3> QED
      BY <2>3, StateReads
  <2>5. u3 = StateOf(s.c, TallyOf(known, cp, st + 1, sk, newMs, ts))
    <3> HIDE DEF m, cp, st, sk, ms, ts, u1, u2, known, newMs
    <3> QED
      BY <2>3, MsgsSet
  <2>6. u3.tally.seenText = ts
    <3> HIDE DEF m, cp, st, sk, ms, ts, u1, u2, u3, known, newMs
    <3> QED
      BY <2>5, StateReads
  <2>7. u4 = StateOf(s.c, TallyOf(known, cp, st + 1, sk, newMs, newTs))
    <3> HIDE DEF m, cp, st, sk, ms, ts, u1, u2, u3, known, newMs, newTs
    <3> QED
      BY <2>5, TextsSet
  <2>8. t = u4
    BY <1>4 DEF WriteRecord, MsgKnown, TextKnown, MsgFound, TextFound, MsgSeen, TextSeen, TextKey, WithMsg, WithOne
  <2> HIDE DEF t, u4
  <2> QED
    BY <2>7, <2>8 DEF SeenAs
<1>5. ASSUME ~MsgKnown(s, dry, a, r), ~TextKnown(s, dry, a, r), ~dry
      PROVE  WrittenAs(s, t, old, CopyFor(r, a))
  <2> DEFINE q == CopyFor(r, a)
             known == WithKnown(m, old, Len(s.c.recs) + 1)
             longer == Append(s.c.recs, q)
             more == WithOne(cp, old)
             d  == [s.c EXCEPT !.recs = longer]
             u1 == [s EXCEPT !.c.recs = longer]
             u2 == [u1 EXCEPT !.tally.copied = more]
             u3 == [u2 EXCEPT !.tally.stored = st + 1]
             u4 == [u3 EXCEPT !.tally.map = known]
  <2>1. u1 = StateOf(d, TallyOf(m, cp, st, sk, ms, ts))
    <3> DEFINE v == TallyOf(m, cp, st, sk, ms, ts)
               c0 == s.c
    <3>1. s = StateOf(c0, v)
      BY <1>1
    <3> HIDE DEF longer, v, c0
    <3>2. [s EXCEPT !.c.recs = longer] = StateOf([c0 EXCEPT !.recs = longer], v)
      BY <3>1, TableSet
    <3> QED
      BY <3>2 DEF c0, v
  <2>2. u1.tally.copied = cp
    <3> HIDE DEF m, cp, st, sk, ms, ts, u1, d
    <3> QED
      BY <2>1, StateReads
  <2>3. u2 = StateOf(d, TallyOf(m, more, st, sk, ms, ts))
    <3> HIDE DEF m, cp, st, sk, ms, ts, u1, d, more
    <3> QED
      BY <2>1, CopiedSet
  <2>4. u2.tally.stored = st
    <3> HIDE DEF m, cp, st, sk, ms, ts, u1, u2, d, more
    <3> QED
      BY <2>3, StateReads
  <2>5. u3 = StateOf(d, TallyOf(m, more, st + 1, sk, ms, ts))
    <3> HIDE DEF m, cp, st, sk, ms, ts, u1, u2, d, more
    <3> QED
      BY <2>3, StoredSet
  <2>6. u3.tally.map = m
    <3> HIDE DEF m, cp, st, sk, ms, ts, u1, u2, u3, d, more
    <3> QED
      BY <2>5, StateReads
  <2>7. u4 = StateOf(d, TallyOf(known, more, st + 1, sk, ms, ts))
    <3> HIDE DEF m, cp, st, sk, ms, ts, u1, u2, u3, d, more, known
    <3> QED
      BY <2>5, MapSet
  <2>8. t = [[[[s EXCEPT !.c.recs = Append(@, q)] EXCEPT !.tally.copied = WithOne(@, old)]
                EXCEPT !.tally.stored = @ + 1] EXCEPT !.tally.map = WithKnown(@, old, Len(s.c.recs) + 1)]
    BY <1>5, ZenonT(60) DEF WriteRecord, MsgKnown, TextKnown, MsgFound, TextFound, MsgSeen, TextSeen, TextKey, WithOne, CopyFor
  <2>9. t = u4
    BY <2>2, <2>4, <2>6, <2>8
  <2>10. d = Added(s.c, q)
    BY DEF Added
  <2> HIDE DEF t, u4, d
  <2> QED
    BY <2>7, <2>9, <2>10 DEF WrittenAs
<1> HIDE DEF t
<1> QED
  BY <1>2, <1>3, <1>4, <1>5, SkipFacts DEF t


----------------------------------------------------------------------------
(* Records carried between agents: taking all lines                        *)

Lines(L) == L \in Seq(Line) /\ \A m, n \in 1..Len(L) : m # n => L[m].id # L[n].id
ApartBy(L) ==
    \A m, n \in 1..Len(L) :
        m # n /\ L[m].rec.kind = "mem" /\ L[n].rec.kind = "mem" /\ L[m].rec.msg # "" => L[m].rec.msg # L[n].rec.msg
Real(L, n) == {k \in 1..n : ~IsBlank(L[k].rec)}

\* d is c with records added at its end.
Longer(d, c) ==
    /\ d \in Table /\ c \in Table /\ Len(c.recs) <= Len(d.recs) /\ \A i \in 1..Len(c.recs) : d.recs[i] = c.recs[i]
    /\ d.profile = c.profile /\ d.entity = c.entity /\ d.mentions = c.mentions /\ d.ties = c.ties
    /\ d.folder = c.folder /\ d.filed = c.filed

LEMMA WithKnownFacts ==
    ASSUME NEW f, NEW i, NEW j
    PROVE  /\ (\A x : x \in DOMAIN WithKnown(f, i, j) <=> x \in DOMAIN f \/ x = i) /\ WithKnown(f, i, j)[i] = j
           /\ \A x \in DOMAIN f : x # i => WithKnown(f, i, j)[x] = f[x]
  BY DEF WithKnown

\* One more line, which is real or not.
LEMMA RealFacts ==
    ASSUME NEW L, Lines(L), NEW n \in 1..Len(L)
    PROVE  /\ L[n] \in Line /\ L[n].id \in Nat /\ L[n].rec \in AnyRec /\ L[n].told \in {0, 1}
           /\ n \in Nat /\ n - 1 \in Nat
           /\ \A k : k \in Real(L, n) <=> k \in Real(L, n - 1) \/ (k = n /\ ~IsBlank(L[n].rec))
           /\ \A k \in Real(L, n - 1) : k \in 1..Len(L) /\ k # n /\ L[k].id # L[n].id /\ L[k].rec \in AnyRec /\ L[k].id \in Nat
<1>1. L \in Seq(Line) /\ Len(L) \in Nat /\ DOMAIN L = 1..Len(L)
  BY LenProperties DEF Lines
<1>2. \A k \in 1..Len(L) : L[k] \in Line
  BY <1>1, ElementOfSeq
<1>3. \A k \in 1..Len(L) : L[k].id \in Nat /\ L[k].rec \in AnyRec /\ L[k].told \in {0, 1}
  BY <1>2 DEF Line
<1>4. n \in Nat /\ n - 1 \in Nat /\ 1..n = (1..(n - 1)) \cup {n}
  BY <1>1
<1>5. \A k : k \in Real(L, n) <=> k \in Real(L, n - 1) \/ (k = n /\ ~IsBlank(L[n].rec))
  BY <1>4 DEF Real
<1>6. \A k \in Real(L, n - 1) : k \in 1..Len(L) /\ k # n
  BY <1>1, <1>4 DEF Real
<1>7. \A k \in Real(L, n - 1) : L[k].id # L[n].id
  BY <1>6 DEF Lines
<1> QED
  BY <1>2, <1>3, <1>4, <1>5, <1>6, <1>7

LEMMA LongerSelf == \A c \in Table : Longer(c, c)
  BY IdFacts DEF Longer

LEMMA LongerGrows ==
    ASSUME NEW d, NEW c, Longer(d, c), NEW r \in AnyRec
    PROVE  Longer(Added(d, r), c)
<1> DEFINE e == Added(d, r)
<1>1. d \in Table /\ c \in Table /\ Len(d.recs) \in Nat /\ Len(c.recs) \in Nat
  BY IdFacts DEF Longer
<1>2. /\ e \in Table /\ Len(e.recs) = Len(d.recs) + 1
      /\ \A i \in 1..Len(d.recs) : e.recs[i] = d.recs[i]
      /\ e.profile = d.profile /\ e.entity = d.entity /\ e.mentions = d.mentions /\ e.ties = d.ties
      /\ e.folder = d.folder /\ e.filed = d.filed
  BY <1>1, AddedTable
<1> HIDE DEF e
<1>3. Len(c.recs) <= Len(e.recs) /\ \A i \in 1..Len(c.recs) : i \in 1..Len(d.recs)
  BY <1>1, <1>2 DEF Longer
<1>4. Longer(e, c)
  BY <1>2, <1>3 DEF Longer
<1> QED
  BY <1>4 DEF e


----------------------------------------------------------------------------
(* Records carried between agents: the dry run                             *)

\* A dry run d and a run s of the same lines, from table c: alike in what they count and in
\* what each would find at the target.
Alike(d, s, c, a) ==
    /\ StateOK(d) /\ StateOK(s) /\ d.c = c /\ Longer(s.c, c)
    /\ d.tally.stored = s.tally.stored /\ d.tally.skipped = s.tally.skipped
    /\ \A r \in AnyRec : /\ MsgSeen(d, a, r) <=> MsgFound(s, a, r)
                         /\ TextSeen(d, a, r) <=> TextFound(s, a, r)

\* A blank line, and a record skipped, in any run.
LEMMA BlankFacts ==
    ASSUME NEW s, StateOK(s), NEW dry, NEW a, NEW line \in Line, IsBlank(line.rec)
    PROVE  LET t == Taken(s, dry, a, line)
           IN  StateOK(t) /\ PassedOver(s, t, line.told)
<1> DEFINE t == Taken(s, dry, a, line)
           told == line.told
<1>1. s.c \in Table /\ s.tally.skipped \in Nat /\ s.tally.stored \in Nat
      /\ s = StateOf(s.c, TallyOf(s.tally.map, s.tally.copied, s.tally.stored, s.tally.skipped,
                                 s.tally.seenMsg, s.tally.seenText))
  BY StateTypes
<1>2. t = [s EXCEPT !.tally.skipped = s.tally.skipped + told]
  BY DEF Taken
<1>3. told \in Nat /\ s.tally.skipped + told \in Nat
  BY <1>1 DEF Line
<1> HIDE DEF t, told
<1>4. PassedOver(s, t, told)
  BY <1>1, <1>2, SkippedSet DEF PassedOver
<1>5. StateOK(t)
  BY <1>1, <1>3, <1>4 DEF StateOK, PassedOver
<1> QED
  BY <1>4, <1>5 DEF t, told

LEMMA SkippedFacts ==
    ASSUME NEW s, StateOK(s), NEW old, NEW twins, NEW t, SkippedAs(s, t, old, twins)
    PROVE  /\ StateOK(t) /\ t.c = s.c /\ t.tally.stored = s.tally.stored /\ t.tally.skipped = s.tally.skipped + 1
           /\ t.tally.map = WithKnown(s.tally.map, old, IF twins = {} THEN old ELSE First(twins))
           /\ t.tally.copied = s.tally.copied
           /\ t.tally.seenMsg = s.tally.seenMsg /\ t.tally.seenText = s.tally.seenText
<1>1. s.c \in Table /\ s.tally.skipped \in Nat /\ s.tally.stored \in Nat /\ s.tally.skipped + 1 \in Nat
  BY StateTypes
<1> DEFINE known == WithKnown(s.tally.map, old, IF twins = {} THEN old ELSE First(twins))
<1>2. t = StateOf(s.c, TallyOf(known, s.tally.copied, s.tally.stored, s.tally.skipped + 1,
                               s.tally.seenMsg, s.tally.seenText))
  BY DEF SkippedAs
<1> HIDE DEF known
<1>3. StateOK(t)
  BY <1>1, <1>2 DEF StateOK
<1> QED
  BY <1>2, <1>3, StateReads, SMTT(30) DEF known

\* A record written, and one a dry run has seen.
LEMMA WrittenFacts ==
    ASSUME NEW s, StateOK(s), NEW old, NEW r \in AnyRec, NEW t, WrittenAs(s, t, old, r)
    PROVE  /\ StateOK(t) /\ t.c = Added(s.c, r)
           /\ t.tally.stored = s.tally.stored + 1 /\ t.tally.skipped = s.tally.skipped
           /\ t.tally.map = WithKnown(s.tally.map, old, Len(s.c.recs) + 1)
           /\ t.tally.copied = WithOne(s.tally.copied, old)
<1> DEFINE known == WithKnown(s.tally.map, old, Len(s.c.recs) + 1)
           more == WithOne(s.tally.copied, old)
<1>1. s.c \in Table /\ s.tally.skipped \in Nat /\ s.tally.stored \in Nat /\ s.tally.stored + 1 \in Nat
  BY StateTypes
<1>2. Added(s.c, r) \in Table
  BY <1>1, AddedTable
<1>3. t = StateOf(Added(s.c, r), TallyOf(known, more, s.tally.stored + 1, s.tally.skipped,
                                         s.tally.seenMsg, s.tally.seenText))
  BY DEF WrittenAs
<1> HIDE DEF known, more
<1>4. StateOK(t)
  BY <1>1, <1>2, <1>3 DEF StateOK
<1>5. /\ t.c = Added(s.c, r) /\ t.tally.stored = s.tally.stored + 1 /\ t.tally.skipped = s.tally.skipped
      /\ t.tally.map = known /\ t.tally.copied = more
  BY <1>3, StateReads
<1> QED
  BY <1>4, <1>5 DEF known, more

LEMMA SeenFacts ==
    ASSUME NEW s, StateOK(s), NEW a, NEW old, NEW r, NEW t, SeenAs(s, t, a, old, r)
    PROVE  /\ StateOK(t) /\ t.c = s.c /\ t.tally.stored = s.tally.stored + 1 /\ t.tally.skipped = s.tally.skipped
           /\ t.tally.seenMsg = WithMsg(s.tally.seenMsg, a, r)
           /\ t.tally.seenText = WithOne(s.tally.seenText, TextKey(a, r))
<1> DEFINE known == WithKnown(s.tally.map, old, old)
           msgs == WithMsg(s.tally.seenMsg, a, r)
           texts == WithOne(s.tally.seenText, TextKey(a, r))
<1>1. s.c \in Table /\ s.tally.skipped \in Nat /\ s.tally.stored \in Nat /\ s.tally.stored + 1 \in Nat
  BY StateTypes
<1>2. t = StateOf(s.c, TallyOf(known, s.tally.copied, s.tally.stored + 1, s.tally.skipped, msgs, texts))
  BY DEF SeenAs
<1> HIDE DEF known, msgs, texts
<1>3. StateOK(t)
  BY <1>1, <1>2 DEF StateOK
<1>4. /\ t.c = s.c /\ t.tally.stored = s.tally.stored + 1 /\ t.tally.skipped = s.tally.skipped
      /\ t.tally.seenMsg = msgs /\ t.tally.seenText = texts
  BY <1>2, StateReads
<1> QED
  BY <1>3, <1>4 DEF msgs, texts

\* What a run knows after a record is written, and a dry run after it has seen one.
LEMMA KnownOnceWritten ==
    ASSUME NEW s, s.c \in Table, NEW t, NEW a, NEW r \in AnyRec, r.agent = a, t.c = Added(s.c, r), NEW q \in AnyRec
    PROVE  /\ MsgFound(t, a, q) <=> MsgFound(s, a, q) \/ SameId(q, r)
           /\ TextFound(t, a, q) <=>
                 TextFound(s, a, q) \/ SameWords(q, r)
  BY AddedFinds DEF MsgFound, TextFound

LEMMA KnownOnceSeen ==
    ASSUME NEW s, NEW t, NEW a, NEW r \in AnyRec, t.c = s.c,
           t.tally.seenMsg = WithMsg(s.tally.seenMsg, a, r),
           t.tally.seenText = WithOne(s.tally.seenText, TextKey(a, r)), NEW q \in AnyRec
    PROVE  /\ MsgSeen(t, a, q) <=> MsgSeen(s, a, q) \/ SameId(q, r)
           /\ TextSeen(t, a, q) <=>
                 TextSeen(s, a, q) \/ SameWords(q, r)
<1>1. \A x \in AnyRec : x.msg # "" => x.kind = "mem"
  BY RecordFacts DEF Columns
<1>2. q.msg # "" => (<<a, q.msg>> \in t.tally.seenMsg <=> <<a, q.msg>> \in s.tally.seenMsg \/ q.msg = r.msg)
  BY DEF WithMsg
<1>3. SameId(q, r) <=> q.msg # "" /\ q.msg = r.msg
  BY <1>1 DEF SameId
<1>4. TextKey(a, q) = TextKey(a, r) <=> SameWords(q, r)
  BY DEF TextKey, SameWords
<1>5. TextKey(a, q) \in t.tally.seenText <=> TextKey(a, q) \in s.tally.seenText \/ TextKey(a, q) = TextKey(a, r)
  BY DEF WithOne
<1>6. SameMsg(t.c, a, q) = SameMsg(s.c, a, q) /\ SameText(t.c, a, q) = SameText(s.c, a, q)
  OBVIOUS
<1>7. MsgSeen(t, a, q) <=> MsgSeen(s, a, q) \/ SameId(q, r)
  BY <1>2, <1>3, <1>6 DEF MsgSeen, MsgFound
<1>8. TextSeen(t, a, q) <=> TextSeen(s, a, q) \/ SameWords(q, r)
  BY <1>4, <1>5, <1>6 DEF TextSeen, TextFound
<1> QED
  BY <1>7, <1>8

\* One more line leaves the two alike: a blank one, one skipped, and one written.
LEMMA AlikeBlank ==
    ASSUME NEW c, NEW a, NEW d, NEW s, Alike(d, s, c, a), NEW e, NEW t, NEW n,
           StateOK(e), PassedOver(d, e, n), StateOK(t), PassedOver(s, t, n)
    PROVE  Alike(e, t, c, a)
<1>1. /\ e.c = d.c /\ e.tally.stored = d.tally.stored /\ e.tally.skipped = d.tally.skipped + n
      /\ e.tally.seenMsg = d.tally.seenMsg /\ e.tally.seenText = d.tally.seenText
  BY StateReads, SMTT(30) DEF PassedOver
<1>2. t.c = s.c /\ t.tally.stored = s.tally.stored /\ t.tally.skipped = s.tally.skipped + n
  BY StateReads DEF PassedOver
<1>3. \A q \in AnyRec : /\ MsgSeen(e, a, q) <=> MsgFound(t, a, q)
                        /\ TextSeen(e, a, q) <=> TextFound(t, a, q)
  BY <1>1, <1>2 DEF Alike, MsgFound, TextFound, MsgSeen, TextSeen
<1> QED
  BY <1>1, <1>2, <1>3 DEF Alike

LEMMA AlikeSkipped ==
    ASSUME NEW c, NEW a, NEW d, NEW s, Alike(d, s, c, a), NEW e, NEW t, NEW old, NEW twins, NEW peers,
           SkippedAs(d, e, old, twins), SkippedAs(s, t, old, peers)
    PROVE  Alike(e, t, c, a)
<1>1. StateOK(d) /\ StateOK(s)
  BY DEF Alike
<1>2. /\ StateOK(e) /\ e.c = d.c /\ e.tally.stored = d.tally.stored /\ e.tally.skipped = d.tally.skipped + 1
      /\ e.tally.seenMsg = d.tally.seenMsg /\ e.tally.seenText = d.tally.seenText
  BY <1>1, SkippedFacts
<1>3. StateOK(t) /\ t.c = s.c /\ t.tally.stored = s.tally.stored /\ t.tally.skipped = s.tally.skipped + 1
  BY <1>1, SkippedFacts
<1>4. \A q \in AnyRec : /\ MsgSeen(e, a, q) <=> MsgFound(t, a, q)
                        /\ TextSeen(e, a, q) <=> TextFound(t, a, q)
  BY <1>2, <1>3 DEF Alike, MsgFound, TextFound, MsgSeen, TextSeen
<1> QED
  BY <1>2, <1>3, <1>4 DEF Alike

LEMMA AlikeWritten ==
    ASSUME NEW c, NEW a, NEW d, NEW s, Alike(d, s, c, a), NEW e, NEW t, NEW old, NEW r \in AnyRec, NEW p \in AnyRec,
           p.agent = a, p.kind = r.kind, p.chan = r.chan, p.text = r.text, p.msg = r.msg,
           SeenAs(d, e, a, old, r), WrittenAs(s, t, old, p)
    PROVE  Alike(e, t, c, a)
<1>1. StateOK(d) /\ StateOK(s) /\ Longer(s.c, c) /\ s.c \in Table
  BY StateTypes DEF Alike
<1>2. StateOK(t) /\ t.c = Added(s.c, p) /\ t.tally.stored = s.tally.stored + 1 /\ t.tally.skipped = s.tally.skipped
  BY <1>1, WrittenFacts
<1>3. /\ StateOK(e) /\ e.c = d.c /\ e.tally.stored = d.tally.stored + 1 /\ e.tally.skipped = d.tally.skipped
      /\ e.tally.seenMsg = WithMsg(d.tally.seenMsg, a, r)
      /\ e.tally.seenText = WithOne(d.tally.seenText, TextKey(a, r))
  BY <1>1, SeenFacts
<1>4. ASSUME NEW q \in AnyRec
      PROVE  /\ MsgSeen(e, a, q) <=> MsgFound(t, a, q)
             /\ TextSeen(e, a, q) <=> TextFound(t, a, q)
  <2>1. /\ MsgFound(t, a, q) <=> MsgFound(s, a, q) \/ SameId(q, p)
        /\ TextFound(t, a, q) <=>
              TextFound(s, a, q) \/ SameWords(q, p)
    BY <1>1, <1>2, KnownOnceWritten
  <2>2. /\ MsgSeen(e, a, q) <=> MsgSeen(d, a, q) \/ SameId(q, r)
        /\ TextSeen(e, a, q) <=>
              TextSeen(d, a, q) \/ SameWords(q, r)
    BY <1>3, KnownOnceSeen
  <2>3. (SameId(q, r) <=> SameId(q, p)) /\ (SameWords(q, r) <=> SameWords(q, p))
    BY DEF SameId, SameWords
  <2> QED
    BY <2>1, <2>2, <2>3 DEF Alike
<1>5. Longer(t.c, c)
  BY <1>1, <1>2, LongerGrows
<1> QED
  BY <1>2, <1>3, <1>4, <1>5 DEF Alike

LEMMA AlikeStep ==
    ASSUME NEW c, NEW a \in Agents, NEW d, NEW s, Alike(d, s, c, a), NEW line \in Line
    PROVE  Alike(Taken(d, TRUE, a, line), Taken(s, FALSE, a, line), c, a)
<1> DEFINE e == Taken(d, TRUE, a, line)
           t == Taken(s, FALSE, a, line)
           r == line.rec
           old == line.id
<1>1. StateOK(d) /\ StateOK(s) /\ r \in AnyRec
  BY DEF Alike, Line
<1>2. /\ MsgSeen(d, a, r) <=> MsgFound(s, a, r)
      /\ TextSeen(d, a, r) <=> TextFound(s, a, r)
  BY <1>1 DEF Alike
<1>3. IsBlank(r) => StateOK(e) /\ PassedOver(d, e, line.told) /\ StateOK(t) /\ PassedOver(s, t, line.told)
  BY <1>1, BlankFacts
<1>4. ~IsBlank(r) => e = WriteRecord(d, TRUE, a, old, r) /\ t = WriteRecord(s, FALSE, a, old, r)
  BY DEF Taken
<1> HIDE DEF e, t, r, old
<1>5. IsBlank(r) => Alike(e, t, c, a)
  BY <1>3, AlikeBlank
<1>6. ASSUME ~IsBlank(r), MsgFound(s, a, r)  PROVE Alike(e, t, c, a)
  <2>1. SkippedAs(s, t, old, SameMsg(s.c, a, r)) /\ SkippedAs(d, e, old, SameMsg(d.c, a, r))
    BY <1>1, <1>2, <1>4, <1>6, WriteFacts DEF MsgKnown, TextKnown
  <2> QED
    BY <2>1, AlikeSkipped
<1>7. ASSUME ~IsBlank(r), ~MsgFound(s, a, r), TextFound(s, a, r)  PROVE Alike(e, t, c, a)
  <2>1. SkippedAs(s, t, old, SameText(s.c, a, r)) /\ SkippedAs(d, e, old, SameText(d.c, a, r))
    BY <1>1, <1>2, <1>4, <1>7, WriteFacts DEF MsgKnown, TextKnown
  <2> QED
    BY <2>1, AlikeSkipped
<1>8. ASSUME ~IsBlank(r), ~MsgFound(s, a, r), ~TextFound(s, a, r)  PROVE Alike(e, t, c, a)
  <2>1. SeenAs(d, e, a, old, r) /\ WrittenAs(s, t, old, CopyFor(r, a))
    BY <1>1, <1>2, <1>4, <1>8, WriteFacts DEF MsgKnown, TextKnown
  <2> QED
    BY <1>1, <2>1, AlikeWritten, CopyFacts
<1>9. Alike(e, t, c, a)
  BY <1>5, <1>6, <1>7, <1>8
<1> QED
  BY <1>9 DEF e, t


----------------------------------------------------------------------------
(* Records carried between agents: the lines one after the other           *)

Start(c) == [c |-> c, tally |-> NoTally]

\* A merge takes the records of the source one after the other, an import the lines of the file.
LEMMA MergeIsRun ==
    ASSUME NEW c \in Table, NEW dry
    PROVE  LET ids == Listed(c, "src")
           IN  \E w : /\ w[0] = Start(c)
                      /\ \A n \in 1..Len(ids) : w[n] = MergeRow(w[n - 1], dry, ids[n])
                      /\ MergedRows(c, dry) = w[Len(ids)]
<1> DEFINE ids == Listed(c, "src")
           start == Start(c)
           step(s, n) == MergeRow(s, dry, ids[n])
           N == Len(ids)
           IsWalk(w, m) == w = [n \in 0..m |-> IF n = 0 THEN start ELSE step(w[n - 1], n)]
           walked == {m \in 0..N : \E w : IsWalk(w, m)}
           theWalk == CHOOSE w : IsWalk(w, N)
<1>1. N \in Nat
  BY ListedFacts
<1>2. MergedRows(c, dry) = theWalk[N]
  BY DEF MergedRows, Start
<1> HIDE DEF ids, start, step, N
<1>3. 0 \in walked
  <2> DEFINE w == [n \in 0..0 |-> start]
  <2>1. \A n \in 0..0 : n = 0
    OBVIOUS
  <2>2. IsWalk(w, 0)
    BY <2>1
  <2> HIDE DEF w, IsWalk
  <2>3. 0 \in 0..N
    BY <1>1
  <2> QED
    BY <2>2, <2>3
<1>4. ASSUME NEW m \in 1..N, m - 1 \in walked  PROVE m \in walked
  <2>1. PICK w : IsWalk(w, m - 1)
    BY <1>4
  <2> DEFINE v == [n \in 0..m |-> IF n = m THEN step(w[m - 1], m) ELSE w[n]]
             u == [n \in 0..m |-> IF n = 0 THEN start ELSE step(v[n - 1], n)]
  <2>2. m \in Nat /\ m # 0
    BY <1>1
  <2>3. \A n \in 0..(m - 1) : w[n] = IF n = 0 THEN start ELSE step(w[n - 1], n)
    BY <2>1
  <2>4. ASSUME NEW n \in 0..m  PROVE v[n] = IF n = 0 THEN start ELSE step(v[n - 1], n)
    <3>1. n # 0 => n - 1 \in 0..m /\ n - 1 # m /\ v[n - 1] = w[n - 1]
      BY <2>2
    <3>2. CASE n = m
      <4>1. v[n] = step(w[n - 1], n) /\ n # 0
        BY <2>2, <3>2
      <4> HIDE DEF v
      <4> QED
        BY <3>1, <4>1
    <3>3. CASE n # m
      <4>1. n \in 0..(m - 1) /\ v[n] = w[n]
        BY <2>2, <3>3
      <4> HIDE DEF v
      <4> QED
        BY <2>3, <3>1, <4>1
    <3> QED
      BY <3>2, <3>3
  <2>5. v = u
    BY <2>4
  <2>6. IsWalk(v, m)
    BY <2>5
  <2> HIDE DEF v, IsWalk
  <2>7. m \in 0..N
    BY <1>1
  <2> QED
    BY <2>6, <2>7
<1>5. N \in walked
  <2> HIDE DEF walked
  <2>1. \A m \in 0..N : m \in walked
    BY <1>1, <1>3, <1>4, StepByStep
  <2> QED
    BY <1>1, <2>1
<1>6. IsWalk(theWalk, N)
  BY <1>5
<1> HIDE DEF theWalk
<1>7. theWalk[0] = start /\ \A n \in 1..N : theWalk[n] = step(theWalk[n - 1], n)
  <2>1. \A n \in 0..N : theWalk[n] = IF n = 0 THEN start ELSE step(theWalk[n - 1], n)
    BY <1>6
  <2>2. 0 \in 0..N /\ \A n \in 1..N : n \in 0..N /\ n # 0
    BY <1>1
  <2> QED
    BY <2>1, <2>2
<1> QED
  BY <1>2, <1>7 DEF N, start, step, ids

ImportRun(w, c, dry, f, a) ==
    /\ w[0] = Start(c) /\ \A n \in 1..Len(f.lines) : w[n] = ImportLine(w[n - 1], dry, a, f.lines[n])
    /\ ImportedLines(c, dry, f, a) = w[Len(f.lines)]

LEMMA ImportIsRun ==
    ASSUME NEW c, NEW dry, NEW f, Len(f.lines) \in Nat, NEW a
    PROVE  \E w : ImportRun(w, c, dry, f, a)
<1> DEFINE lines == f.lines
           start == Start(c)
           step(s, n) == ImportLine(s, dry, a, lines[n])
           N == Len(lines)
           IsWalk(w, m) == w = [n \in 0..m |-> IF n = 0 THEN start ELSE step(w[n - 1], n)]
           walked == {m \in 0..N : \E w : IsWalk(w, m)}
           theWalk == CHOOSE w : IsWalk(w, N)
<1>1. N \in Nat
  OBVIOUS
<1>2. ImportedLines(c, dry, f, a) = theWalk[N]
  BY DEF ImportedLines, Start
<1> HIDE DEF lines, start, step, N
<1>3. 0 \in walked
  <2> DEFINE w == [n \in 0..0 |-> start]
  <2>1. \A n \in 0..0 : n = 0
    OBVIOUS
  <2>2. IsWalk(w, 0)
    BY <2>1
  <2> HIDE DEF w, IsWalk
  <2>3. 0 \in 0..N
    BY <1>1
  <2> QED
    BY <2>2, <2>3
<1>4. ASSUME NEW m \in 1..N, m - 1 \in walked  PROVE m \in walked
  <2>1. PICK w : IsWalk(w, m - 1)
    BY <1>4
  <2> DEFINE v == [n \in 0..m |-> IF n = m THEN step(w[m - 1], m) ELSE w[n]]
             u == [n \in 0..m |-> IF n = 0 THEN start ELSE step(v[n - 1], n)]
  <2>2. m \in Nat /\ m # 0
    BY <1>1
  <2>3. \A n \in 0..(m - 1) : w[n] = IF n = 0 THEN start ELSE step(w[n - 1], n)
    BY <2>1
  <2>4. ASSUME NEW n \in 0..m  PROVE v[n] = IF n = 0 THEN start ELSE step(v[n - 1], n)
    <3>1. n # 0 => n - 1 \in 0..m /\ n - 1 # m /\ v[n - 1] = w[n - 1]
      BY <2>2
    <3>2. CASE n = m
      <4>1. v[n] = step(w[n - 1], n) /\ n # 0
        BY <2>2, <3>2
      <4> HIDE DEF v
      <4> QED
        BY <3>1, <4>1
    <3>3. CASE n # m
      <4>1. n \in 0..(m - 1) /\ v[n] = w[n]
        BY <2>2, <3>3
      <4> HIDE DEF v
      <4> QED
        BY <2>3, <3>1, <4>1
    <3> QED
      BY <3>2, <3>3
  <2>5. v = u
    BY <2>4
  <2>6. IsWalk(v, m)
    BY <2>5
  <2> HIDE DEF v, IsWalk
  <2>7. m \in 0..N
    BY <1>1
  <2> QED
    BY <2>6, <2>7
<1>5. N \in walked
  <2> HIDE DEF walked
  <2>1. \A m \in 0..N : m \in walked
    BY <1>1, <1>3, <1>4, StepByStep
  <2> QED
    BY <1>1, <2>1
<1>6. IsWalk(theWalk, N)
  BY <1>5
<1> HIDE DEF theWalk
<1>7. theWalk[0] = start /\ \A n \in 1..N : theWalk[n] = step(theWalk[n - 1], n)
  <2>1. \A n \in 0..N : theWalk[n] = IF n = 0 THEN start ELSE step(theWalk[n - 1], n)
    BY <1>6
  <2>2. 0 \in 0..N /\ \A n \in 1..N : n \in 0..N /\ n # 0
    BY <1>1
  <2> QED
    BY <2>1, <2>2
<1> QED
  BY <1>2, <1>7 DEF N, start, step, lines, ImportRun


\* What the two read, as lines.
MergeLines(c) ==
    LET ids == Listed(c, "src") IN [n \in 1..Len(ids) |-> [id |-> ids[n], rec |-> c.recs[ids[n]], told |-> 0]]
FileLine == [id : Nat, rec : Rec]
ReadAs(line) == [id |-> line.id, rec |-> [line.rec EXCEPT !.text = Cut(@)],
                 told |-> IF line.rec.kind = "mem" THEN 1 ELSE 0]
ImportLines(f) == [n \in 1..Len(f.lines) |-> ReadAs(f.lines[n])]

LEMMA StartFacts ==
    ASSUME NEW c \in Table
    PROVE  LET s == Start(c)
           IN  /\ StateOK(s) /\ s.c = c /\ s.tally.stored = 0 /\ s.tally.skipped = 0
               /\ s.tally.map = <<>> /\ s.tally.copied = {} /\ s.tally.seenMsg = {} /\ s.tally.seenText = {}
<1> DEFINE s == Start(c)
<1>1. s = StateOf(c, TallyOf(<<>>, {}, 0, 0, {}, {}))
  BY DEF Start, NoTally, StateOf, TallyOf
<1> HIDE DEF s
<1>2. StateOK(s)
  BY <1>1 DEF StateOK
<1>3. /\ s.c = c /\ s.tally.stored = 0 /\ s.tally.skipped = 0
      /\ s.tally.map = <<>> /\ s.tally.copied = {} /\ s.tally.seenMsg = {} /\ s.tally.seenText = {}
  BY <1>1, StateReads
<1> QED
  BY <1>2, <1>3 DEF s

LEMMA AlikeStart ==
    ASSUME NEW c \in Table, NEW a
    PROVE  Alike(Start(c), Start(c), c, a)
<1>1. /\ StateOK(Start(c)) /\ Start(c).c = c /\ Start(c).tally.seenMsg = {} /\ Start(c).tally.seenText = {}
  BY StartFacts
<1>2. \A r : (MsgSeen(Start(c), a, r) <=> MsgFound(Start(c), a, r)) /\ (TextSeen(Start(c), a, r) <=> TextFound(Start(c), a, r))
  BY <1>1 DEF MsgSeen, TextSeen
<1>3. Longer(c, c)
  BY LongerSelf
<1> QED
  BY <1>1, <1>2, <1>3 DEF Alike

LEMMA MergeLineFacts ==
    ASSUME NEW c \in Table
    PROVE  LET L == MergeLines(c)
               ids == Listed(c, "src")
           IN  /\ Lines(L) /\ Len(L) \in Nat /\ Len(L) = Len(ids)
               /\ \A n \in 1..Len(L) : /\ L[n] \in Line /\ L[n].id = ids[n] /\ L[n].rec = c.recs[ids[n]] /\ L[n].told = 0
                                       /\ ids[n] \in RecsOf(c, "src")
<1> DEFINE L == MergeLines(c)
           ids == Listed(c, "src")
           N == Len(ids)
<1>1. /\ N \in Nat /\ \A n \in 1..N : ids[n] \in RecsOf(c, "src")
      /\ \A m, n \in 1..N : m # n => ids[m] # ids[n]
  BY ListedFacts
<1>2. \A i \in RecsOf(c, "src") : i \in Nat /\ c.recs[i] \in AnyRec
  BY IdFacts
<1>3. L = [n \in 1..N |-> [id |-> ids[n], rec |-> c.recs[ids[n]], told |-> 0]]
  BY DEF MergeLines
<1> HIDE DEF L, ids, N
<1>4. \A n \in 1..N : L[n] = [id |-> ids[n], rec |-> c.recs[ids[n]], told |-> 0]
  BY <1>3
<1>5. \A n \in 1..N : L[n] \in Line /\ L[n].id = ids[n] /\ L[n].rec = c.recs[ids[n]] /\ L[n].told = 0
  <2> TAKE n \in 1..N
  <2>1. ids[n] \in Nat /\ c.recs[ids[n]] \in AnyRec /\ L[n] = [id |-> ids[n], rec |-> c.recs[ids[n]], told |-> 0]
    BY <1>1, <1>2, <1>4
  <2> QED
    BY <2>1 DEF Line
<1>6. L \in [1..N -> Line]
  BY <1>3, <1>5
<1>7. L \in Seq(Line) /\ Len(L) = N
  BY <1>1, <1>6, AsList
<1>8. Lines(L)
  BY <1>1, <1>5, <1>7 DEF Lines
<1> QED
  BY <1>1, <1>5, <1>7, <1>8 DEF L, ids, N

\* A step of a merge takes its line: the record is where it was when the merge began.
LEMMA MergeTakes ==
    ASSUME NEW c \in Table, NEW s, StateOK(s), Longer(s.c, c), NEW dry, NEW n \in 1..Len(Listed(c, "src"))
    PROVE  MergeRow(s, dry, Listed(c, "src")[n]) = Taken(s, dry, "tgt", MergeLines(c)[n])
<1> DEFINE line == MergeLines(c)[n]
           i == Listed(c, "src")[n]
<1>1. line.id = i /\ line.rec = c.recs[i] /\ line.told = 0 /\ i \in RecsOf(c, "src")
  BY MergeLineFacts
<1>2. s.c.recs[i] = c.recs[i]
  <2>1. i \in 1..Len(c.recs)
    BY <1>1, IdFacts
  <2> QED
    BY <2>1 DEF Longer
<1> HIDE DEF line, i
<1>3. [s EXCEPT !.tally.skipped = @ + 0] = s
  <2>1. s.tally.skipped \in Nat
        /\ s = StateOf(s.c, TallyOf(s.tally.map, s.tally.copied, s.tally.stored, s.tally.skipped,
                                    s.tally.seenMsg, s.tally.seenText))
    BY StateTypes
  <2>2. s.tally.skipped + 0 = s.tally.skipped
    BY <2>1
  <2>3. [s EXCEPT !.tally.skipped = s.tally.skipped] = s
    BY <2>1, SkippedSet
  <2> QED
    BY <2>2, <2>3
<1>4. MergeRow(s, dry, i) = IF IsBlank(s.c.recs[i]) THEN s ELSE WriteRecord(s, dry, "tgt", i, s.c.recs[i])
  BY DEF MergeRow
<1>5. Taken(s, dry, "tgt", line) = IF IsBlank(line.rec) THEN [s EXCEPT !.tally.skipped = @ + line.told]
                                   ELSE WriteRecord(s, dry, "tgt", line.id, line.rec)
  BY DEF Taken
<1>6. MergeRow(s, dry, i) = Taken(s, dry, "tgt", line)
  <2>1. CASE IsBlank(c.recs[i])
    <3>1. Taken(s, dry, "tgt", line) = [s EXCEPT !.tally.skipped = @ + 0]
      BY <1>1, <1>5, <2>1
    <3> QED
      BY <1>2, <1>3, <1>4, <2>1, <3>1
  <2>2. CASE ~IsBlank(c.recs[i])
    BY <1>1, <1>2, <1>4, <1>5, <2>2
  <2> QED
    BY <2>1, <2>2
<1> QED
  BY <1>6 DEF line, i

LEMMA ReadAsFacts ==
    ASSUME NEW line \in FileLine
    PROVE  /\ ReadAs(line) \in Line /\ ReadAs(line).id = line.id /\ ReadAs(line).rec = [line.rec EXCEPT !.text = Cut(@)]
           /\ ReadAs(line).told = IF line.rec.kind = "mem" THEN 1 ELSE 0
           /\ ReadAs(line).rec.kind = line.rec.kind /\ ReadAs(line).rec.msg = line.rec.msg
<1>1. line.rec \in Rec /\ line.id \in Nat
  BY DEF FileLine
<1>2. [line.rec EXCEPT !.text = Cut(@)] \in AnyRec
  BY <1>1, RecordFacts
<1>3. ReadAs(line) = [id |-> line.id, rec |-> [line.rec EXCEPT !.text = Cut(@)],
                      told |-> IF line.rec.kind = "mem" THEN 1 ELSE 0]
  BY DEF ReadAs
<1> DEFINE r == [line.rec EXCEPT !.text = Cut(@)]
<1>4. r.kind = line.rec.kind /\ r.msg = line.rec.msg
  <2>1. \A q \in Rec : q \in [kind : {"mem", "ep"}, agent : Agents, chan : Chans, text : TransferTexts, msg : Msgs]
    BY DEF Rec
  <2> QED
    BY <1>1, <2>1
<1> HIDE DEF r
<1>5. ReadAs(line) = [id |-> line.id, rec |-> r, told |-> IF line.rec.kind = "mem" THEN 1 ELSE 0]
  BY <1>3 DEF r
<1>6. r \in AnyRec
  BY <1>2 DEF r
<1>7. /\ ReadAs(line) \in Line /\ ReadAs(line).id = line.id /\ ReadAs(line).rec = r
      /\ ReadAs(line).told = IF line.rec.kind = "mem" THEN 1 ELSE 0
  BY <1>1, <1>5, <1>6 DEF Line
<1> QED
  BY <1>4, <1>7 DEF r

LEMMA ImportTakes ==
    ASSUME NEW s, StateOK(s), NEW dry, NEW a, NEW line \in FileLine
    PROVE  ImportLine(s, dry, a, line) = Taken(s, dry, a, ReadAs(line))
<1> DEFINE r == [line.rec EXCEPT !.text = Cut(@)]
           l == ReadAs(line)
<1>1. l.id = line.id /\ l.rec = r /\ l.told = (IF line.rec.kind = "mem" THEN 1 ELSE 0) /\ r.kind = line.rec.kind
  BY ReadAsFacts
<1>2. ImportLine(s, dry, a, line) =
         IF IsBlank(r) THEN [s EXCEPT !.tally.skipped = IF r.kind = "mem" THEN @ + 1 ELSE @]
         ELSE WriteRecord(s, dry, a, line.id, r)
  BY DEF ImportLine
<1> HIDE DEF r, l
<1>3. s.tally.skipped \in Nat
  BY StateTypes
<1>4. s.tally.skipped + l.told = IF r.kind = "mem" THEN s.tally.skipped + 1 ELSE s.tally.skipped
  BY <1>1, <1>3
<1>5. Taken(s, dry, a, l) = IF IsBlank(r) THEN [s EXCEPT !.tally.skipped = s.tally.skipped + l.told]
                            ELSE WriteRecord(s, dry, a, line.id, r)
  BY <1>1 DEF Taken
<1>6. ImportLine(s, dry, a, line) = Taken(s, dry, a, l)
  <2>1. CASE IsBlank(r)
    BY <1>2, <1>4, <1>5, <2>1
  <2>2. CASE ~IsBlank(r)
    BY <1>2, <1>5, <2>2
  <2> QED
    BY <2>1, <2>2
<1> QED
  BY <1>6 DEF l

\* The dry run of a merge counts what the merge does, and that of an import.
LEMMA MergeCountsAgree ==
    ASSUME NEW c \in Table
    PROVE  /\ MergedRows(c, TRUE).tally.stored = MergedRows(c, FALSE).tally.stored
           /\ MergedRows(c, TRUE).tally.skipped = MergedRows(c, FALSE).tally.skipped
<1> DEFINE ids == Listed(c, "src")
           N == Len(ids)
           L == MergeLines(c)
<1>1. N \in Nat /\ \A n \in 1..N : L[n] \in Line
  BY ListedFacts, MergeLineFacts
<1>2. PICK v : v[0] = Start(c) /\ (\A n \in 1..N : v[n] = MergeRow(v[n - 1], TRUE, ids[n])) /\ MergedRows(c, TRUE) = v[N]
  BY MergeIsRun
<1>3. PICK w : w[0] = Start(c) /\ (\A n \in 1..N : w[n] = MergeRow(w[n - 1], FALSE, ids[n])) /\ MergedRows(c, FALSE) = w[N]
  BY MergeIsRun
<1> DEFINE alike == {n \in 0..N : Alike(v[n], w[n], c, "tgt")}
<1>4. 0 \in alike
  BY <1>1, <1>2, <1>3, AlikeStart
<1>5. ASSUME NEW n \in 1..N, n - 1 \in alike  PROVE n \in alike
  <2>1. Alike(v[n - 1], w[n - 1], c, "tgt") /\ L[n] \in Line /\ "tgt" \in Agents
    BY <1>1, <1>5 DEF Agents
  <2>2. StateOK(v[n - 1]) /\ StateOK(w[n - 1]) /\ v[n - 1].c = c /\ Longer(w[n - 1].c, c)
    BY <2>1 DEF Alike
  <2>3. Longer(v[n - 1].c, c)
    BY <2>2, LongerSelf
  <2>4. v[n] = MergeRow(v[n - 1], TRUE, ids[n]) /\ w[n] = MergeRow(w[n - 1], FALSE, ids[n])
    BY <1>2, <1>3
  <2>7. MergeRow(v[n - 1], TRUE, ids[n]) = Taken(v[n - 1], TRUE, "tgt", L[n])
    BY <2>2, <2>3, MergeTakes
  <2>8. MergeRow(w[n - 1], FALSE, ids[n]) = Taken(w[n - 1], FALSE, "tgt", L[n])
    BY <2>2, <2>3, MergeTakes
  <2> HIDE DEF L
  <2>5. Alike(v[n], w[n], c, "tgt")
    BY <2>1, <2>4, <2>7, <2>8, AlikeStep
  <2>6. n \in 0..N
    BY <1>1
  <2> QED
    BY <2>5, <2>6
<1>6. N \in alike
  <2> HIDE DEF alike, N
  <2>1. \A n \in 0..N : n \in alike
    BY <1>1, <1>4, <1>5, StepByStep
  <2> QED
    BY <1>1, <2>1
<1> QED
  BY <1>2, <1>3, <1>6 DEF Alike

LEMMA ImportCountsAgree ==
    ASSUME NEW c \in Table, NEW f, f.lines \in Seq(FileLine), NEW a \in Agents
    PROVE  /\ ImportedLines(c, TRUE, f, a).tally.stored = ImportedLines(c, FALSE, f, a).tally.stored
           /\ ImportedLines(c, TRUE, f, a).tally.skipped = ImportedLines(c, FALSE, f, a).tally.skipped
<1> DEFINE N == Len(f.lines)
<1>1. N \in Nat /\ \A n \in 1..N : f.lines[n] \in FileLine
  BY LenProperties, ElementOfSeq
<1>2. PICK v : ImportRun(v, c, TRUE, f, a)
  BY <1>1, ImportIsRun
<1>3. PICK w : ImportRun(w, c, FALSE, f, a)
  BY <1>1, ImportIsRun
<1>4. /\ v[0] = Start(c) /\ (\A n \in 1..N : v[n] = ImportLine(v[n - 1], TRUE, a, f.lines[n]))
       /\ ImportedLines(c, TRUE, f, a) = v[N]
       /\ w[0] = Start(c) /\ (\A n \in 1..N : w[n] = ImportLine(w[n - 1], FALSE, a, f.lines[n]))
       /\ ImportedLines(c, FALSE, f, a) = w[N]
  BY <1>2, <1>3 DEF ImportRun
<1> HIDE DEF N
<1> DEFINE alike == {n \in 0..N : Alike(v[n], w[n], c, a)}
<1>5. 0 \in alike
  BY <1>1, <1>4, AlikeStart
<1>6. ASSUME NEW n \in 1..N, n - 1 \in alike  PROVE n \in alike
  <2>1. Alike(v[n - 1], w[n - 1], c, a) /\ f.lines[n] \in FileLine
    BY <1>1, <1>6
  <2>2. StateOK(v[n - 1]) /\ StateOK(w[n - 1])
    BY <2>1 DEF Alike
  <2>3. v[n] = Taken(v[n - 1], TRUE, a, ReadAs(f.lines[n])) /\ w[n] = Taken(w[n - 1], FALSE, a, ReadAs(f.lines[n]))
    <3>1. v[n] = ImportLine(v[n - 1], TRUE, a, f.lines[n]) /\ w[n] = ImportLine(w[n - 1], FALSE, a, f.lines[n])
      BY <1>4
    <3>2. ImportLine(v[n - 1], TRUE, a, f.lines[n]) = Taken(v[n - 1], TRUE, a, ReadAs(f.lines[n]))
      BY <2>1, <2>2, ImportTakes
    <3>3. ImportLine(w[n - 1], FALSE, a, f.lines[n]) = Taken(w[n - 1], FALSE, a, ReadAs(f.lines[n]))
      BY <2>1, <2>2, ImportTakes
    <3> QED
      BY <3>1, <3>2, <3>3
  <2>4. ReadAs(f.lines[n]) \in Line
    BY <2>1, ReadAsFacts
  <2>5. Alike(v[n], w[n], c, a)
    BY <2>1, <2>3, <2>4, AlikeStep
  <2>6. n \in 0..N
    BY <1>1
  <2> QED
    BY <2>5, <2>6
<1>7. N \in alike
  <2> HIDE DEF alike
  <2>1. \A n \in 0..N : n \in alike
    BY <1>1, <1>5, <1>6, StepByStep
  <2> QED
    BY <1>1, <2>1
<1> QED
  BY <1>7, <1>4 DEF Alike


----------------------------------------------------------------------------
(* Records carried between agents: what is true throughout                 *)

\* What the file, and the history of the last handler, are made of.
FileOf(lines, profile, d, header) == [lines |-> lines, profile |-> profile, d |-> d, header |-> header]
FileShape(f) == \E lines \in Seq(FileLine) : \E profile, d, header : f = FileOf(lines, profile, d, header)
Heard(op, was, tally, ok) == [op |-> op, before |-> was, tally |-> tally, ok |-> ok]
HeardAt(op, was, tally, ok, to) == [op |-> op, before |-> was, tally |-> tally, ok |-> ok, to |-> to]
HeardShape(l)   == \E op, was, tally, ok : l = Heard(op, was, tally, ok)
HeardAtShape(l) == \E op, was, tally, ok, to : l = HeardAt(op, was, tally, ok, to)

LEMMA HeardOp ==
    ASSUME NEW l, HeardShape(l), NEW x, NEW m, m = [l EXCEPT !.op = x]
    PROVE  HeardShape(m) /\ m.op = x /\ m.before = l.before /\ m.tally = l.tally /\ m.ok = l.ok
<1>1. PICK op, was, tally, ok : l = Heard(op, was, tally, ok)
  BY DEF HeardShape
<1>2. m = Heard(x, was, tally, ok)
  BY <1>1 DEF Heard
<1> QED
  BY <1>1, <1>2 DEF HeardShape, Heard

LEMMA HeardBefore ==
    ASSUME NEW l, HeardShape(l), NEW x, NEW m, m = [l EXCEPT !.before = x]
    PROVE  HeardShape(m) /\ m.op = l.op /\ m.before = x /\ m.tally = l.tally /\ m.ok = l.ok
<1>1. PICK op, was, tally, ok : l = Heard(op, was, tally, ok)
  BY DEF HeardShape
<1>2. m = Heard(op, x, tally, ok)
  BY <1>1 DEF Heard
<1> QED
  BY <1>1, <1>2 DEF HeardShape, Heard

LEMMA HeardOk ==
    ASSUME NEW l, HeardShape(l), NEW x, NEW m, m = [l EXCEPT !.ok = x]
    PROVE  HeardShape(m) /\ m.op = l.op /\ m.before = l.before /\ m.tally = l.tally /\ m.ok = x
<1>1. PICK op, was, tally, ok : l = Heard(op, was, tally, ok)
  BY DEF HeardShape
<1>2. m = Heard(op, was, tally, x)
  BY <1>1 DEF Heard
<1> QED
  BY <1>1, <1>2 DEF HeardShape, Heard

LEMMA HeardAtOk ==
    ASSUME NEW l, HeardAtShape(l), NEW x, NEW m, m = [l EXCEPT !.ok = x]
    PROVE  HeardAtShape(m) /\ m.op = l.op /\ m.before = l.before /\ m.tally = l.tally /\ m.ok = x /\ m.to = l.to
<1>1. PICK op, was, tally, ok, to : l = HeardAt(op, was, tally, ok, to)
  BY DEF HeardAtShape
<1>2. m = HeardAt(op, was, tally, x, to)
  BY <1>1 DEF HeardAt
<1> QED
  BY <1>1, <1>2 DEF HeardAtShape, HeardAt

LEMMA FileFields ==
    ASSUME NEW f, FileShape(f)
    PROVE  f.lines \in Seq(FileLine) /\ f = FileOf(f.lines, f.profile, f.d, f.header)
<1>1. PICK lines \in Seq(FileLine) : \E profile, d, header : f = FileOf(lines, profile, d, header)
  BY DEF FileShape
<1>2. PICK profile, d, header : f = FileOf(lines, profile, d, header)
  BY <1>1
<1>3. f.lines = lines /\ f.profile = profile /\ f.d = d /\ f.header = header
  BY <1>2 DEF FileOf
<1> QED
  BY <1>2, <1>3

\* Before a merge or an import the tables are in order, and what is exported are records;
\* afterwards the history tells what was counted.
TransferInv ==
    /\ FileShape(export)
    /\ \/ last.op \in {"none", "export", "damage", "copy", "move"} /\ HeardShape(last)
       \/ last.op = "import" /\ HeardAtShape(last) /\ last.to \in Agents
    /\ last.op \in {"none", "export", "damage"} => corpus \in Table
    /\ last.op = "none" => \A i \in Ids(corpus) : corpus.recs[i] \in Rec
    /\ last.op \in {"copy", "move"} => last.before \in Table /\ last.tally = MergedRows(last.before, FALSE).tally
    /\ last.op = "import" =>
          last.before \in Table /\ last.tally = ImportedLines(last.before, FALSE, export, last.to).tally

LEMMA NothingFacts == Nothing \in Table /\ Ids(Nothing) = {}
<1>1. <<>> \in Seq(Slot) /\ Len(<<>>) = 0
  BY EmptySeq
<1>2. NoEntity \in Entities
  BY DEF NoEntity, Entities
<1>3. Nothing \in Table
  BY <1>1, <1>2 DEF Nothing, Table
<1>4. Nothing.recs = <<>>
  BY DEF Nothing
<1> QED
  BY <1>3, <1>4 DEF Ids

LEMMA TransferInvInit == TransferInit => TransferInv
<1> SUFFICES ASSUME TransferInit  PROVE TransferInv
  OBVIOUS
<1>1. corpus = Nothing /\ export = NoExport /\ last = NoLast
  BY DEF TransferInit
<1>2. FileShape(export)
  <2>1. export = FileOf(<<>>, 0, <<>>, <<>>)
    BY <1>1 DEF NoExport, FileOf
  <2>2. <<>> \in Seq(FileLine)
    BY EmptySeq
  <2> QED
    BY <2>1, <2>2 DEF FileShape
<1>3. last.op = "none" /\ HeardShape(last)
  <2>1. last = Heard("none", Nothing, NoTally, TRUE)
    BY <1>1 DEF NoLast, Heard
  <2> QED
    BY <2>1 DEF HeardShape, Heard
<1> QED
  BY <1>1, <1>2, <1>3, NothingFacts DEF TransferInv

LEMMA OpenKeepsInv == ASSUME TransferInv, OpenCorpus PROVE TransferInv'
<1>1. PICK recs \in UNION {[1..n -> Rec] : n \in 1..3}, declared \in BOOLEAN, rival \in BOOLEAN :
         corpus' = Opened(recs, {i \in DOMAIN recs : recs[i].agent = "src"}, declared, rival)
  BY DEF OpenCorpus
<1> DEFINE src == {i \in DOMAIN recs : recs[i].agent = "src"}
           profile == [a \in Agents |-> IF a = "src" \/ rival THEN 1 ELSE 0]
           entity == [a \in Agents |->
                        IF a = "src" /\ declared THEN [named |-> TRUE, alias |-> "own"]
                        ELSE IF a = "tgt" /\ rival THEN [named |-> FALSE, alias |-> "rival"] ELSE NoEntity]
           mentions == IF declared THEN src ELSE {}
           ties == IF declared THEN {t \in src \X src : t[1] < t[2]} ELSE {}
           folder == IF declared THEN {"src"} ELSE {}
<1>2. corpus' = [recs |-> recs, profile |-> profile, entity |-> entity, mentions |-> mentions, ties |-> ties,
                 folder |-> folder, filed |-> mentions]
  <2>1. corpus' = [Nothing EXCEPT !.recs = recs, !.profile = profile, !.entity = entity, !.mentions = mentions,
                                  !.ties = ties, !.folder = folder, !.filed = mentions]
    BY <1>1 DEF Opened
  <2> HIDE DEF src, profile, entity, mentions, ties, folder
  <2> QED
    BY <2>1 DEF Nothing
<1>3. PICK n \in 1..3 : recs \in [1..n -> Rec]
  BY <1>1
<1>4. recs \in Seq(Rec) /\ DOMAIN recs = 1..n /\ n \in Nat
  BY <1>3, AsList
<1>5. Rec \subseteq Slot
  BY DEF Slot, AnyRec
<1>6. recs \in Seq(Slot)
  BY <1>4, <1>5, SeqMonotonic
<1>7. src \subseteq Nat /\ mentions \subseteq Nat /\ ties \subseteq Nat \X Nat /\ folder \subseteq Agents
  BY <1>4 DEF Agents
<1>8. profile \in [Agents -> Nat]
  OBVIOUS
<1>9. entity \in [Agents -> Entities]
  BY DEF Entities, NoEntity
<1> HIDE DEF src, profile, entity, mentions, ties, folder
<1>10. corpus' \in Table /\ corpus'.recs = recs
  BY <1>2, <1>6, <1>7, <1>8, <1>9 DEF Table
<1>11. \A i \in Ids(corpus') : corpus'.recs[i] \in Rec
  BY <1>3, <1>4, <1>10 DEF Ids
<1>12. last = NoLast /\ UNCHANGED <<export, last>>
  BY DEF OpenCorpus
<1>13. last.op = "none"
  BY <1>12 DEF NoLast
<1>14. (\A i \in Ids(corpus) : corpus.recs[i] \in Rec)'
  BY <1>11 DEF Ids
<1> QED
  BY <1>10, <1>12, <1>13, <1>14 DEF TransferInv

LEMMA MergeKeepsInv == ASSUME TransferInv, NEW mode \in {"copy", "move"}, DoMerge(mode) PROVE TransferInv'
<1>1. last.op = "none" /\ export' = export /\ last' = Heard(mode, corpus, MergedRows(corpus, FALSE).tally, TRUE)
  BY DEF DoMerge, Heard
<1>2. HeardShape(last')
  BY <1>1 DEF HeardShape
<1>3. last'.op = mode /\ last'.before = corpus /\ last'.tally = MergedRows(corpus, FALSE).tally
  BY <1>1 DEF Heard
<1>4. corpus \in Table
  BY <1>1 DEF TransferInv
<1>5. last'.before \in Table /\ last'.tally = MergedRows(last'.before, FALSE).tally
  BY <1>3, <1>4
<1> QED
  BY <1>1, <1>2, <1>3, <1>5 DEF TransferInv

LEMMA ExportKeepsInv == ASSUME TransferInv, DoExport PROVE TransferInv'
<1> DEFINE ids == Listed(corpus, "src")
           lines == [n \in DOMAIN ids |-> [id |-> ids[n], rec |-> corpus.recs[ids[n]]]]
<1>1. last.op = "none" /\ UNCHANGED corpus /\ last' = [last EXCEPT !.op = "export", !.before = corpus]
  BY DEF DoExport
<1>2. corpus \in Table /\ HeardShape(last) /\ \A i \in Ids(corpus) : corpus.recs[i] \in Rec
  BY <1>1 DEF TransferInv
<1>3. \E header : export' = [[NoExport EXCEPT !.lines = lines, !.profile = corpus.profile["src"],
                                             !.d = DeclaredOf(corpus, "src")] EXCEPT !.header = header]
  BY DEF DoExport
<1>4. lines \in Seq(FileLine)
  <2>1. Len(ids) \in Nat /\ DOMAIN ids = 1..Len(ids) /\ \A n \in 1..Len(ids) : ids[n] \in RecsOf(corpus, "src")
    BY <1>2, ListedFacts
  <2>2. \A i \in RecsOf(corpus, "src") : i \in Nat /\ corpus.recs[i] \in Rec
    BY <1>2, IdFacts
  <2> HIDE DEF ids
  <2>3. \A n \in 1..Len(ids) : [id |-> ids[n], rec |-> corpus.recs[ids[n]]] \in FileLine
    BY <2>1, <2>2 DEF FileLine
  <2>4. lines \in [1..Len(ids) -> FileLine]
    BY <2>1, <2>3
  <2> HIDE DEF lines
  <2> QED
    BY <2>1, <2>4, AsList
<1> HIDE DEF lines
<1>5. \E profile, d, header : export' = FileOf(lines, profile, d, header)
  <2>1. PICK header : export' = [[NoExport EXCEPT !.lines = lines, !.profile = corpus.profile["src"],
                                             !.d = DeclaredOf(corpus, "src")] EXCEPT !.header = header]
    BY <1>3
  <2> DEFINE p == corpus.profile["src"]
             d == DeclaredOf(corpus, "src")
  <2> HIDE DEF p, d
  <2>2. export' = [[NoExport EXCEPT !.lines = lines, !.profile = p, !.d = d] EXCEPT !.header = header]
    BY <2>1 DEF p, d
  <2>3. export' = FileOf(lines, p, d, header)
    BY <2>2 DEF FileOf, NoExport
  <2> QED
    BY <2>3
<1>6. FileShape(export')
  BY <1>4, <1>5 DEF FileShape
<1>7. HeardShape(last') /\ last'.op = "export"
  <2> DEFINE l == [last EXCEPT !.op = "export"]
  <2>1. HeardShape(l) /\ l.op = "export"
    <3>1. l = [last EXCEPT !.op = "export"]
      OBVIOUS
    <3> HIDE DEF l
    <3> QED
      BY <1>2, <3>1, HeardOp
  <2>2. last' = [l EXCEPT !.before = corpus]
    BY <1>1
  <2> HIDE DEF l
  <2> QED
    BY <2>1, <2>2, HeardBefore
<1> QED
  BY <1>1, <1>2, <1>6, <1>7 DEF TransferInv

\* A file that lost a line.
LEMMA RemoveAtFacts ==
    ASSUME NEW S, NEW s \in Seq(S), NEW n \in 1..Len(s)
    PROVE  RemoveAt(s, n) \in Seq(S)
<1>1. Len(s) \in Nat /\ \A i \in 1..Len(s) : s[i] \in S
  BY LenProperties, ElementOfSeq
<1>2. SubSeq(s, 1, n - 1) \in Seq(S) /\ SubSeq(s, n + 1, Len(s)) \in Seq(S)
  BY <1>1, SubSeqProperties
<1> QED
  BY <1>2, ConcatProperties DEF RemoveAt

LEMMA DamageKeepsInv == ASSUME TransferInv, DamageFile PROVE TransferInv'
<1>1. last.op = "export" /\ UNCHANGED corpus /\ last' = [last EXCEPT !.op = "damage"]
  BY DEF DamageFile
<1>2. corpus \in Table /\ HeardShape(last) /\ FileShape(export)
  BY <1>1 DEF TransferInv
<1>3. HeardShape(last') /\ last'.op = "damage"
  BY <1>1, <1>2, HeardOp
<1>4. export.lines \in Seq(FileLine) /\ export = FileOf(export.lines, export.profile, export.d, export.header)
  BY <1>2, FileFields
<1>5. FileShape(export')
  <2>1. ASSUME NEW n \in DOMAIN export.lines, export' = [export EXCEPT !.lines = RemoveAt(@, n)]
        PROVE  FileShape(export')
    <3> DEFINE lines == RemoveAt(export.lines, n)
    <3>1. n \in 1..Len(export.lines)
      BY <1>4, <2>1, LenProperties
    <3>2. lines \in Seq(FileLine)
      BY <1>4, <3>1, RemoveAtFacts
    <3> HIDE DEF lines
    <3>3. export' = [export EXCEPT !.lines = lines]
      BY <2>1 DEF lines
    <3>4. export' = FileOf(lines, export.profile, export.d, export.header)
      BY <1>4, <3>3 DEF FileOf
    <3> QED
      BY <3>2, <3>4 DEF FileShape
  <2>2. ASSUME NEW i, export' = [export EXCEPT !.d.filed = @ \ {i}]
        PROVE  FileShape(export')
    <3> DEFINE d == [export.d EXCEPT !.filed = @ \ {i}]
    <3>1. export' = [export EXCEPT !.d = d]
      BY <1>4, <2>2 DEF FileOf
    <3> HIDE DEF d
    <3>2. export' = FileOf(export.lines, export.profile, d, export.header)
      BY <1>4, <3>1 DEF FileOf
    <3> QED
      BY <1>4, <3>2 DEF FileShape
  <2>3. ASSUME export' = [export EXCEPT !.header = <<>>]
        PROVE  FileShape(export')
    <3>1. export' = FileOf(export.lines, export.profile, export.d, <<>>)
      BY <1>4, <2>3 DEF FileOf
    <3> QED
      BY <1>4, <3>1 DEF FileShape
  <2> QED
    BY <2>1, <2>2, <2>3 DEF DamageFile
<1> QED
  BY <1>1, <1>2, <1>3, <1>5 DEF TransferInv

LEMMA LoseKeepsInv == ASSUME TransferInv, LoseSource PROVE TransferInv'
<1>1. last.op \in {"export", "damage"} /\ UNCHANGED <<export, last>>
  BY DEF LoseSource
<1>2. corpus \in Table
  BY <1>1 DEF TransferInv
<1> DEFINE gone == RecsOf(corpus, "src")
<1>3. ASSUME corpus' = [WithoutRecs(corpus, gone) EXCEPT
                          !.profile["src"] = 0, !.entity["src"] = [named |-> FALSE, alias |-> "none"],
                          !.folder = @ \ {"src"}]
      PROVE  corpus' \in Table
  <2> DEFINE recs == [i \in DOMAIN corpus.recs |-> IF i \in gone THEN NoRec ELSE corpus.recs[i]]
             ties == {t \in corpus.ties : t[1] \notin gone /\ t[2] \notin gone}
             profile == [corpus.profile EXCEPT !["src"] = 0]
             entity == [corpus.entity EXCEPT !["src"] = [named |-> FALSE, alias |-> "none"]]
             mentions == corpus.mentions \ gone
             filed == corpus.filed \ gone
             folder == corpus.folder \ {"src"}
             rest == WithoutRecs(corpus, gone)
  <2>1. /\ rest.recs = recs /\ rest.profile = corpus.profile /\ rest.entity = corpus.entity
        /\ rest.mentions = mentions /\ rest.ties = ties /\ rest.folder = corpus.folder /\ rest.filed = filed
        /\ DOMAIN rest = {"recs", "profile", "entity", "mentions", "ties", "folder", "filed"}
    <3> HIDE DEF gone
    <3> QED
      BY <1>2 DEF WithoutRecs, Table
  <2>2. recs \in Seq(Slot)
    <3>1. Len(corpus.recs) \in Nat /\ DOMAIN corpus.recs = 1..Len(corpus.recs)
          /\ \A i \in 1..Len(corpus.recs) : corpus.recs[i] \in Slot
      BY <1>2, IdFacts, ElementOfSeq DEF Table
    <3>2. recs \in [1..Len(corpus.recs) -> Slot]
      BY <3>1 DEF Slot
    <3> HIDE DEF recs
    <3> QED
      BY <3>1, <3>2, AsList
  <2>3. /\ corpus.profile \in [Agents -> Nat] /\ corpus.entity \in [Agents -> Entities] /\ corpus.mentions \subseteq Nat
        /\ corpus.ties \subseteq Nat \X Nat /\ corpus.folder \subseteq Agents /\ corpus.filed \subseteq Nat
    BY <1>2 DEF Table
  <2>4. /\ profile \in [Agents -> Nat] /\ mentions \subseteq Nat /\ ties \subseteq Nat \X Nat /\ folder \subseteq Agents
        /\ filed \subseteq Nat
    BY <2>3
  <2>5. entity \in [Agents -> Entities]
    BY <2>3 DEF Entities
  <2> HIDE DEF rest, recs, ties, gone, mentions, filed
  <2>6. corpus' = [[[rest EXCEPT !.profile["src"] = 0] EXCEPT !.entity["src"] = [named |-> FALSE, alias |-> "none"]]
                      EXCEPT !.folder = @ \ {"src"}]
    BY <1>3 DEF rest
  <2>7. corpus' = [recs |-> recs, profile |-> profile, entity |-> entity, mentions |-> mentions, ties |-> ties,
                   folder |-> folder, filed |-> filed]
    BY <2>1, <2>6
  <2> HIDE DEF profile, entity, folder
  <2> QED
    BY <2>2, <2>4, <2>5, <2>7 DEF Table
<1>4. ASSUME corpus' = [corpus EXCEPT !.profile["src"] = 2]  PROVE corpus' \in Table
  BY <1>2, <1>4 DEF Table
<1>5. corpus' \in Table
  BY <1>3, <1>4 DEF LoseSource
<1> QED
  BY <1>1, <1>5 DEF TransferInv

LEMMA ImportKeepsInv == ASSUME TransferInv, NEW a \in Agents, DoImport(a) PROVE TransferInv'
<1>1. last.op \in {"export", "damage"} /\ UNCHANGED export
      /\ \E ok : last' = HeardAt("import", corpus, ImportedLines(corpus, FALSE, export, a).tally, ok, a)
  <2>1. Imported(corpus, export, a).tally = ImportedLines(corpus, FALSE, export, a).tally
    BY DEF Imported
  <2> QED
    BY <2>1 DEF DoImport, HeardAt
<1>2. corpus \in Table
  BY <1>1 DEF TransferInv
<1>3. /\ HeardAtShape(last') /\ last'.op = "import" /\ last'.before = corpus /\ last'.to = a
      /\ last'.tally = ImportedLines(corpus, FALSE, export, a).tally
  <2> PICK x : x = ImportedLines(corpus, FALSE, export, a).tally
    OBVIOUS
  <2>1. PICK ok : last' = HeardAt("import", corpus, x, ok, a)
    BY <1>1
  <2> QED
    BY <2>1 DEF HeardAtShape, HeardAt
<1>4. last'.tally = ImportedLines(last'.before, FALSE, export', last'.to).tally
  BY <1>1, <1>3
<1> QED
  BY <1>1, <1>2, <1>3, <1>4 DEF TransferInv

LEMMA PostKeepsInv == ASSUME TransferInv, Post PROVE TransferInv'
<1>1. UNCHANGED <<corpus, export>> /\ (UNCHANGED last \/ last' = [last EXCEPT !.ok = FALSE])
  BY DEF Post
<1>2. CASE UNCHANGED last
  BY <1>1, <1>2 DEF TransferInv
<1>3. CASE last' = [last EXCEPT !.ok = FALSE]
  <2>1. CASE last.op = "import" /\ HeardAtShape(last) /\ last.to \in Agents
    <3>1. /\ HeardAtShape(last') /\ last'.op = last.op /\ last'.before = last.before /\ last'.tally = last.tally
          /\ last'.to = last.to
      BY <1>3, <2>1, HeardAtOk
    <3> QED
      BY <1>1, <2>1, <3>1 DEF TransferInv
  <2>2. CASE last.op \in {"none", "export", "damage", "copy", "move"} /\ HeardShape(last)
    <3>1. HeardShape(last') /\ last'.op = last.op /\ last'.before = last.before /\ last'.tally = last.tally
      BY <1>3, <2>2, HeardOk
    <3> QED
      BY <1>1, <2>2, <3>1 DEF TransferInv
  <2> QED
    BY <2>1, <2>2 DEF TransferInv
<1> QED
  BY <1>1, <1>2, <1>3

LEMMA TransferInvStep == TransferInv /\ [TransferNext]_transferVars => TransferInv'
<1> SUFFICES ASSUME TransferInv, [TransferNext]_transferVars  PROVE TransferInv'
  OBVIOUS
<1>1. CASE \E a \in Agents : StoreMeanwhile(a)
  <2>1. last.op \in {"copy", "move"} /\ UNCHANGED <<export, last>>
    BY <1>1 DEF StoreMeanwhile
  <2> QED
    BY <2>1 DEF TransferInv
<1>2. CASE UNCHANGED transferVars
  BY <1>2 DEF TransferInv, transferVars
<1> QED
  BY <1>1, <1>2, OpenKeepsInv, MergeKeepsInv, ExportKeepsInv, DamageKeepsInv, LoseKeepsInv, ImportKeepsInv, PostKeepsInv
     DEF TransferNext

LEMMA TransferInvariant == TransferSpec => []TransferInv
  BY TransferInvInit, TransferInvStep, PTL DEF TransferSpec

\* What a dry run of a merge or an import reports (records written and skipped) is what the
\* run does, whatever the tables and the file hold (merge_memories and import_memories with
\* dry_run, and what _MergeTally and _ImportTally remember in its stead).
THEOREM DryRunsTellTrue == TransferSpec => []DryRunPredicts
<1>1. TransferInv => DryRunPredicts
  <2> SUFFICES ASSUME TransferInv  PROVE DryRunPredicts
    OBVIOUS
  <2>1. ASSUME last.op \in {"copy", "move"}
        PROVE  /\ MergedRows(Before, TRUE).tally.stored = last.tally.stored
               /\ MergedRows(Before, TRUE).tally.skipped = last.tally.skipped
    BY <2>1, MergeCountsAgree DEF TransferInv, Before
  <2>2. ASSUME last.op = "import"
        PROVE  /\ ImportedLines(Before, TRUE, export, last.to).tally.stored = last.tally.stored
               /\ ImportedLines(Before, TRUE, export, last.to).tally.skipped = last.tally.skipped
    <3>1. export.lines \in Seq(FileLine) /\ Before \in Table /\ last.to \in Agents
          /\ last.tally = ImportedLines(Before, FALSE, export, last.to).tally
      BY <2>2, FileFields DEF TransferInv, Before
    <3> PICK c, f, a : c = Before /\ f = export /\ a = last.to
      OBVIOUS
    <3>2. /\ ImportedLines(c, TRUE, f, a).tally.stored = ImportedLines(c, FALSE, f, a).tally.stored
          /\ ImportedLines(c, TRUE, f, a).tally.skipped = ImportedLines(c, FALSE, f, a).tally.skipped
      BY <3>1, ImportCountsAgree
    <3> QED
      BY <3>1, <3>2
  <2> QED
    BY <2>1, <2>2 DEF DryRunPredicts
<1> QED
  BY <1>1, TransferInvariant, PTL

----------------------------------------------------------------------------
(* Records carried between agents: where each line's record is             *)

\* The record that makes r superfluous: one of its message, or else of its text.
TwinOf(c, a, r) == IF SameMsg(c, a, r) # {} THEN First(SameMsg(c, a, r)) ELSE First(SameText(c, a, r))

\* The record of a line taken: under its message or its text; at the table's end and its copy
\* if it was written; and where the messages are apart, the one a second reading would find.
Placed(s, c, a, line, apart) ==
    /\ \/ s.tally.map[line.id] \in SameMsg(s.c, a, line.rec)
       \/ s.tally.map[line.id] \in SameText(s.c, a, line.rec)
    /\ line.id \in s.tally.copied =>
          s.tally.map[line.id] > Len(c.recs) /\ s.c.recs[s.tally.map[line.id]] = CopyFor(line.rec, a)
    /\ apart => s.tally.map[line.id] = TwinOf(s.c, a, line.rec)

\* After n lines each that is not blank has its record, and each record added has its line.
Wet(s, c, a, L, n) ==
    /\ StateOK(s) /\ Longer(s.c, c)
    /\ \A i : i \in DOMAIN s.tally.map <=> \E k \in Real(L, n) : L[k].id = i
    /\ s.tally.copied \subseteq DOMAIN s.tally.map
    /\ \A k \in Real(L, n) : Placed(s, c, a, L[k], ApartBy(L))
    /\ \A j \in 1..Len(s.c.recs) : j > Len(c.recs) =>
          \E k \in Real(L, n) : L[k].id \in s.tally.copied /\ s.tally.map[L[k].id] = j

\* The record a skipped line stands for.
LEMMA TwinFacts ==
    ASSUME NEW c \in Table, NEW a, NEW r, SameMsg(c, a, r) # {} \/ SameText(c, a, r) # {}
    PROVE  TwinOf(c, a, r) \in SameMsg(c, a, r) \/ TwinOf(c, a, r) \in SameText(c, a, r)
<1>1. SameMsg(c, a, r) \subseteq Nat /\ SameText(c, a, r) \subseteq Nat
  BY IdFacts
<1> QED
  BY <1>1, FirstIsOne DEF TwinOf

\* One more line: a blank one ...
LEMMA WetBlank ==
    ASSUME NEW c, NEW a, NEW L, Lines(L), NEW n \in 1..Len(L), NEW s, Wet(s, c, a, L, n - 1), IsBlank(L[n].rec),
           NEW t, StateOK(t), PassedOver(s, t, L[n].told)
    PROVE  Wet(t, c, a, L, n)
<1>1. t.c = s.c /\ t.tally.map = s.tally.map /\ t.tally.copied = s.tally.copied
  BY StateReads DEF PassedOver
<1>2. \A k : k \in Real(L, n) <=> k \in Real(L, n - 1)
  BY RealFacts
<1> QED
  BY <1>1, <1>2, SMTT(60) DEF Wet, Placed

\* ... one skipped ...
LEMMA WetSkipped ==
    ASSUME NEW c, NEW a, NEW L, Lines(L), NEW n \in 1..Len(L), NEW s, Wet(s, c, a, L, n - 1), ~IsBlank(L[n].rec),
           NEW twins, twins # {}, First(twins) = TwinOf(s.c, a, L[n].rec),
           SameMsg(s.c, a, L[n].rec) # {} \/ SameText(s.c, a, L[n].rec) # {},
           NEW t, SkippedAs(s, t, L[n].id, twins)
    PROVE  Wet(t, c, a, L, n)
<1> DEFINE id == L[n].id
           m == s.tally.map
           there == TwinOf(s.c, a, L[n].rec)
<1>1. StateOK(s) /\ s.c \in Table
  BY StateTypes DEF Wet
<1>2. StateOK(t) /\ t.c = s.c /\ t.tally.map = WithKnown(m, id, there) /\ t.tally.copied = s.tally.copied
  BY <1>1, SkippedFacts
<1>3. there \in SameMsg(s.c, a, L[n].rec) \/ there \in SameText(s.c, a, L[n].rec)
  BY <1>1, TwinFacts
<1>4. (\A k : k \in Real(L, n) <=> k \in Real(L, n - 1) \/ k = n) /\ \A k \in Real(L, n - 1) : L[k].id # id
  BY RealFacts
<1> HIDE DEF m, there, id
<1>5. (\A i : i \in DOMAIN m <=> \E k \in Real(L, n - 1) : L[k].id = i) /\ s.tally.copied \subseteq DOMAIN m
  BY DEF Wet, m
<1>6. id \notin DOMAIN m
  BY <1>4, <1>5
<1>7. (\A x : x \in DOMAIN t.tally.map <=> x \in DOMAIN m \/ x = id) /\ t.tally.map[id] = there
      /\ \A x \in DOMAIN m : x # id => t.tally.map[x] = m[x]
  BY <1>2, WithKnownFacts
<1>8. \A i : i \in DOMAIN t.tally.map <=> \E k \in Real(L, n) : L[k].id = i
  BY <1>4, <1>5, <1>7 DEF id
<1>9. id \notin t.tally.copied /\ t.tally.copied \subseteq DOMAIN t.tally.map
  BY <1>2, <1>5, <1>6, <1>7
<1>10. \A k \in Real(L, n - 1) : t.tally.map[L[k].id] = m[L[k].id]
  BY <1>4, <1>5, <1>7
<1>11. Placed(t, c, a, L[n], ApartBy(L))
  BY <1>2, <1>3, <1>7, <1>9 DEF Placed, id, there
<1>12. \A k \in Real(L, n - 1) : Placed(t, c, a, L[k], ApartBy(L))
  <2> TAKE k \in Real(L, n - 1)
  <2>1. Placed(s, c, a, L[k], ApartBy(L)) /\ t.tally.map[L[k].id] = s.tally.map[L[k].id]
    BY <1>10 DEF Wet, m
  <2> QED
    BY <1>2, <2>1 DEF Placed
<1>13. ASSUME NEW j \in 1..Len(t.c.recs), j > Len(c.recs)
       PROVE  \E k \in Real(L, n) : L[k].id \in t.tally.copied /\ t.tally.map[L[k].id] = j
  <2>1. PICK k \in Real(L, n - 1) : L[k].id \in s.tally.copied /\ m[L[k].id] = j
    BY <1>2, <1>13 DEF Wet, m
  <2> QED
    BY <1>2, <1>4, <1>10, <2>1
<1>14. Longer(t.c, c)
  BY <1>2 DEF Wet
<1> QED
  BY <1>2, <1>4, <1>8, <1>9, <1>11, <1>12, <1>13, <1>14 DEF Wet

\* ... and one written, whose record is the last.
LEMMA TwinKept ==
    ASSUME NEW c \in Table, NEW r \in AnyRec, NEW d, d = Added(c, r), NEW a, NEW q,
           SameMsg(c, a, q) # {} \/ SameText(c, a, q) # {},
           ~SameId(q, r)
    PROVE  TwinOf(d, a, q) = TwinOf(c, a, q)
<1>1. \A i : /\ i \in SameMsg(d, a, q) <=> i \in SameMsg(c, a, q)
             /\ i \in SameText(d, a, q) <=>
                   i \in SameText(c, a, q) \/ (i = Len(c.recs) + 1 /\ r.agent = a /\ SameWords(q, r))
  BY AddedFound
<1>2. SameMsg(d, a, q) = SameMsg(c, a, q)
  BY <1>1
<1>3. ASSUME SameText(c, a, q) # {}  PROVE First(SameText(d, a, q)) = First(SameText(c, a, q))
  <2> DEFINE S == SameText(c, a, q)
             T == SameText(d, a, q)
             N == Len(c.recs)
  <2>1. N \in Nat /\ S \subseteq 1..N
    BY IdFacts
  <2>2. \A i : i \in T <=> i \in S \/ (i = N + 1 /\ r.agent = a /\ SameWords(q, r))
    BY <1>1
  <2> HIDE DEF S, T, N
  <2>3. S \subseteq Nat
    BY <2>1
  <2>4. First(S) \in S /\ \A j \in S : First(S) <= j
    <3>1. \E i \in S : \A j \in S : i <= j
      BY <1>3, <2>3, LeastNumber DEF S
    <3> QED
      BY <3>1 DEF First
  <2> DEFINE x == First(S)
  <2>5. x \in 1..N /\ x \in S /\ \A j \in S : x <= j
    BY <2>1, <2>4
  <2> HIDE DEF x
  <2>6. x \in T /\ T \subseteq Nat /\ \A j \in T : x <= j
    <3>1. x \in T /\ x \in Nat
      BY <2>1, <2>2, <2>5
    <3>2. ASSUME NEW j \in T  PROVE j \in Nat /\ x <= j
      <4>1. CASE j \in S
        BY <2>3, <2>5, <4>1
      <4>2. CASE j = N + 1
        BY <2>1, <2>5, <4>2
      <4> QED
        BY <2>2, <4>1, <4>2
    <3> QED
      BY <3>1, <3>2
  <2>7. \A i \in T : (\A j \in T : i <= j) => i = x
    <3> TAKE i \in T
    <3> HAVE \A j \in T : i <= j
    <3>1. i <= x /\ x <= i /\ i \in Nat /\ x \in Nat
      BY <2>6
    <3> QED
      BY <3>1
  <2>8. First(T) = x
    BY <2>6, <2>7 DEF First
  <2> QED
    BY <2>8 DEF S, T, x
<1> QED
  BY <1>2, <1>3 DEF TwinOf

LEMMA FirstOfOne == \A x \in Nat : First({x}) = x
  BY DEF First

LEMMA WetWritten ==
    ASSUME NEW c, NEW a, NEW L, Lines(L), NEW n \in 1..Len(L), NEW s, Wet(s, c, a, L, n - 1), ~IsBlank(L[n].rec),
           SameMsg(s.c, a, L[n].rec) = {}, SameText(s.c, a, L[n].rec) = {}, a \in Agents,
           NEW t, WrittenAs(s, t, L[n].id, CopyFor(L[n].rec, a))
    PROVE  Wet(t, c, a, L, n)
<1> DEFINE id == L[n].id
           m == s.tally.map
           p == CopyFor(L[n].rec, a)
           N == Len(s.c.recs)
<1>1. StateOK(s) /\ s.c \in Table /\ N \in Nat /\ Longer(s.c, c) /\ Len(c.recs) <= N /\ Len(c.recs) \in Nat
  BY StateTypes, IdFacts DEF Wet, Longer
<1>2. /\ p \in AnyRec /\ p.agent = a /\ p.kind = L[n].rec.kind /\ p.chan = L[n].rec.chan
      /\ p.text = L[n].rec.text /\ p.msg = L[n].rec.msg
  BY RealFacts, CopyFacts
<1>3. (\A k : k \in Real(L, n) <=> k \in Real(L, n - 1) \/ k = n) /\ \A k \in Real(L, n - 1) : L[k].id # id /\ k # n /\ k \in 1..Len(L)
  BY RealFacts
<1> HIDE DEF m, id, p, N
<1>4. WrittenAs(s, t, id, p)
  BY DEF id, p
<1>5. StateOK(t) /\ t.c = Added(s.c, p) /\ t.tally.map = WithKnown(m, id, N + 1)
      /\ t.tally.copied = WithOne(s.tally.copied, id)
  BY <1>1, <1>2, <1>4, WrittenFacts DEF m, N
<1>6. (\A i : i \in DOMAIN m <=> \E k \in Real(L, n - 1) : L[k].id = i) /\ s.tally.copied \subseteq DOMAIN m
  BY DEF Wet, m
<1>7. (\A x : x \in DOMAIN t.tally.map <=> x \in DOMAIN m \/ x = id) /\ t.tally.map[id] = N + 1
      /\ \A x \in DOMAIN m : x # id => t.tally.map[x] = m[x]
  BY <1>5, WithKnownFacts
<1>8. \A i : i \in DOMAIN t.tally.map <=> \E k \in Real(L, n) : L[k].id = i
  BY <1>3, <1>6, <1>7 DEF id
<1>9. t.tally.copied \subseteq DOMAIN t.tally.map /\ \A x : x \in t.tally.copied <=> x \in s.tally.copied \/ x = id
  BY <1>5, <1>6, <1>7 DEF WithOne
<1>10. \A k \in Real(L, n - 1) : t.tally.map[L[k].id] = m[L[k].id]
  BY <1>3, <1>6, <1>7
<1>11. t.c.recs[N + 1] = p /\ Len(t.c.recs) = N + 1 /\ \A i \in 1..N : t.c.recs[i] = s.c.recs[i]
  <2> PICK sc, x : sc = s.c /\ x = t.c
    OBVIOUS
  <2>1. sc \in Table /\ p \in AnyRec /\ x = Added(sc, p)
    BY <1>1, <1>2, <1>5
  <2>2. /\ Len(x.recs) = Len(sc.recs) + 1 /\ x.recs[Len(sc.recs) + 1] = p
        /\ \A i \in 1..Len(sc.recs) : x.recs[i] = sc.recs[i]
    BY <2>1, AddedTable
  <2> QED
    BY <2>2 DEF N
<1>12. \A q, i : /\ i \in SameMsg(t.c, a, q) <=>
                       i \in SameMsg(s.c, a, q) \/ (i = N + 1 /\ p.agent = a /\ SameId(q, p))
                 /\ i \in SameText(t.c, a, q) <=>
                       i \in SameText(s.c, a, q) \/ (i = N + 1 /\ p.agent = a /\ SameWords(q, p))
  BY <1>1, <1>2, <1>5, AddedFound DEF N
<1>13. Placed(t, c, a, L[n], ApartBy(L))
  <2> DEFINE r == L[n].rec
  <2>1. SameWords(r, p)
    BY <1>2 DEF SameWords
  <2>2. \A i : (i \in SameText(t.c, a, r) <=> i = N + 1) /\ (i \in SameMsg(t.c, a, r) => i = N + 1)
    BY <1>2, <1>12, <2>1
  <2> HIDE DEF r
  <2>3. SameText(t.c, a, r) = {N + 1} /\ (SameMsg(t.c, a, r) # {} => SameMsg(t.c, a, r) = {N + 1})
    BY <2>2
  <2>4. N + 1 \in Nat /\ N + 1 > Len(c.recs)
    BY <1>1
  <2>5. TwinOf(t.c, a, r) = N + 1
    BY <2>3, <2>4, FirstOfOne DEF TwinOf
  <2>6. N + 1 \in SameText(t.c, a, r)
    BY <2>3
  <2> QED
    BY <1>7, <1>11, <2>4, <2>5, <2>6 DEF Placed, id, p, r
<1>14. \A k \in Real(L, n - 1) : Placed(t, c, a, L[k], ApartBy(L))
  <2> TAKE k \in Real(L, n - 1)
  <2> DEFINE r == L[k].rec
             j == t.tally.map[L[k].id]
  <2>1. Placed(s, c, a, L[k], ApartBy(L)) /\ j = s.tally.map[L[k].id]
    BY <1>10 DEF Wet, m
  <2>2. j \in SameMsg(s.c, a, r) \/ j \in SameText(s.c, a, r)
    BY <2>1 DEF Placed
  <2>3. j \in SameMsg(t.c, a, r) \/ j \in SameText(t.c, a, r)
    BY <1>12, <2>2
  <2>4. j \in 1..N
    BY <1>1, <2>2, IdFacts DEF N
  <2>5. L[k].id # id
    BY <1>3
  <2>6. L[k].id \in t.tally.copied => j > Len(c.recs) /\ t.c.recs[j] = CopyFor(r, a)
    BY <1>9, <1>11, <2>1, <2>4, <2>5 DEF Placed
  <2>7. ASSUME ApartBy(L)  PROVE j = TwinOf(t.c, a, r)
    <3>1. ~SameId(r, p)
      <4>1. k \in 1..Len(L) /\ n \in 1..Len(L) /\ k # n
        BY <1>3
      <4> QED
        BY <1>2, <2>7, <4>1 DEF ApartBy, SameId
    <3>2. TwinOf(t.c, a, r) = TwinOf(s.c, a, r)
      <4> HIDE DEF r
      <4> QED
        BY <1>1, <1>2, <1>5, <2>2, <3>1, TwinKept
    <3> QED
      BY <2>1, <2>7, <3>2 DEF Placed
  <2> QED
    BY <2>3, <2>6, <2>7 DEF Placed
<1>15. ASSUME NEW j \in 1..Len(t.c.recs), j > Len(c.recs)
       PROVE  \E k \in Real(L, n) : L[k].id \in t.tally.copied /\ t.tally.map[L[k].id] = j
  <2>1. CASE j = N + 1
    BY <1>3, <1>7, <1>9, <2>1 DEF id
  <2>2. CASE j # N + 1
    <3>1. j \in 1..N
      BY <1>1, <1>11, <2>2
    <3>2. PICK k \in Real(L, n - 1) : L[k].id \in s.tally.copied /\ m[L[k].id] = j
      BY <1>15, <3>1 DEF Wet, m, N
    <3> QED
      BY <1>3, <1>9, <1>10, <3>2
  <2> QED
    BY <2>1, <2>2
<1>16. Longer(t.c, c)
  BY <1>1, <1>2, <1>5, LongerGrows
<1>17. \A k \in Real(L, n) : Placed(t, c, a, L[k], ApartBy(L))
  BY <1>3, <1>13, <1>14
<1> QED
  BY <1>5, <1>8, <1>9, <1>15, <1>16, <1>17 DEF Wet

LEMMA WetStep ==
    ASSUME NEW c, NEW a \in Agents, NEW L, Lines(L), NEW n \in 1..Len(L), NEW s, Wet(s, c, a, L, n - 1)
    PROVE  Wet(Taken(s, FALSE, a, L[n]), c, a, L, n)
<1> DEFINE t == Taken(s, FALSE, a, L[n])
           r == L[n].rec
           old == L[n].id
<1>1. StateOK(s) /\ L[n] \in Line /\ s.c \in Table
  BY RealFacts, StateTypes DEF Wet
<1>2. IsBlank(r) => StateOK(t) /\ PassedOver(s, t, L[n].told)
  BY <1>1, BlankFacts
<1>3. ~IsBlank(r) => t = WriteRecord(s, FALSE, a, old, r)
  BY DEF Taken
<1> HIDE DEF t
<1>4. IsBlank(r) => Wet(t, c, a, L, n)
  BY <1>2, WetBlank
<1>5. ASSUME ~IsBlank(r), SameMsg(s.c, a, r) # {}  PROVE Wet(t, c, a, L, n)
  <2>1. SkippedAs(s, t, old, SameMsg(s.c, a, r))
    BY <1>1, <1>3, <1>5, WriteFacts DEF MsgKnown, MsgFound
  <2>2. First(SameMsg(s.c, a, r)) = TwinOf(s.c, a, r)
    BY <1>5 DEF TwinOf
  <2> QED
    BY <1>5, <2>1, <2>2, WetSkipped
<1>6. ASSUME ~IsBlank(r), SameMsg(s.c, a, r) = {}, SameText(s.c, a, r) # {}  PROVE Wet(t, c, a, L, n)
  <2>1. SkippedAs(s, t, old, SameText(s.c, a, r))
    BY <1>1, <1>3, <1>6, WriteFacts DEF MsgKnown, MsgFound, TextKnown, TextFound
  <2>2. First(SameText(s.c, a, r)) = TwinOf(s.c, a, r)
    BY <1>6 DEF TwinOf
  <2> QED
    BY <1>6, <2>1, <2>2, WetSkipped
<1>7. ASSUME ~IsBlank(r), SameMsg(s.c, a, r) = {}, SameText(s.c, a, r) = {}  PROVE Wet(t, c, a, L, n)
  <2>1. WrittenAs(s, t, old, CopyFor(r, a))
    BY <1>1, <1>3, <1>7, WriteFacts DEF MsgKnown, MsgFound, TextKnown, TextFound
  <2> QED
    BY <1>7, <2>1, WetWritten
<1>8. Wet(t, c, a, L, n)
  BY <1>4, <1>5, <1>6, <1>7
<1> QED
  BY <1>8 DEF t

LEMMA WetStart ==
    ASSUME NEW c \in Table, NEW a, NEW L
    PROVE  Wet(Start(c), c, a, L, 0)
<1>1. StateOK(Start(c)) /\ Start(c).c = c /\ Start(c).tally.map = <<>> /\ Start(c).tally.copied = {}
  BY StartFacts
<1>2. Real(L, 0) = {}
  BY DEF Real
<1>3. Longer(c, c) /\ Len(c.recs) \in Nat
  BY LongerSelf, IdFacts
<1>4. DOMAIN <<>> = {}
  OBVIOUS
<1>5. \A j \in 1..Len(c.recs) : ~(j > Len(c.recs))
  BY <1>3
<1> QED
  BY <1>1, <1>2, <1>3, <1>4, <1>5 DEF Wet

\* All lines taken.
LEMMA MergeIsWet ==
    ASSUME NEW c \in Table
    PROVE  Wet(MergedRows(c, FALSE), c, "tgt", MergeLines(c), Len(MergeLines(c)))
<1> DEFINE ids == Listed(c, "src")
           N == Len(ids)
           L == MergeLines(c)
<1>1. N \in Nat /\ Lines(L) /\ Len(L) = N
  BY ListedFacts, MergeLineFacts
<1>2. PICK w : w[0] = Start(c) /\ (\A n \in 1..N : w[n] = MergeRow(w[n - 1], FALSE, ids[n])) /\ MergedRows(c, FALSE) = w[N]
  BY MergeIsRun
<1> DEFINE wet == {n \in 0..N : Wet(w[n], c, "tgt", L, n)}
<1>3. 0 \in wet
  BY <1>1, <1>2, WetStart
<1>4. ASSUME NEW n \in 1..N, n - 1 \in wet  PROVE n \in wet
  <2>1. Wet(w[n - 1], c, "tgt", L, n - 1) /\ "tgt" \in Agents
    BY <1>1, <1>4 DEF Agents
  <2>2. StateOK(w[n - 1]) /\ Longer(w[n - 1].c, c)
    BY <2>1 DEF Wet
  <2>3. w[n] = MergeRow(w[n - 1], FALSE, ids[n])
    BY <1>2
  <2>4. MergeRow(w[n - 1], FALSE, ids[n]) = Taken(w[n - 1], FALSE, "tgt", L[n])
    BY <2>2, MergeTakes
  <2> HIDE DEF L, ids
  <2>5. Wet(w[n], c, "tgt", L, n)
    BY <1>1, <2>1, <2>3, <2>4, WetStep
  <2>6. n \in 0..N
    BY <1>1
  <2> QED
    BY <2>5, <2>6
<1>5. N \in wet
  <2> HIDE DEF wet, N
  <2>1. \A n \in 0..N : n \in wet
    BY <1>1, <1>3, <1>4, StepByStep
  <2> QED
    BY <1>1, <2>1
<1>6. Wet(w[N], c, "tgt", L, N)
  BY <1>5
<1> QED
  BY <1>1, <1>2, <1>6

LEMMA ImportLineFacts ==
    ASSUME NEW f, f.lines \in Seq(FileLine), \A m, n \in DOMAIN f.lines : m # n => f.lines[m].id # f.lines[n].id
    PROVE  /\ Lines(ImportLines(f)) /\ Len(ImportLines(f)) = Len(f.lines) /\ Len(f.lines) \in Nat
           /\ DOMAIN f.lines = 1..Len(f.lines)
           /\ \A n \in 1..Len(f.lines) : ImportLines(f)[n] = ReadAs(f.lines[n]) /\ f.lines[n] \in FileLine
           /\ MessagesApart(f.lines) => ApartBy(ImportLines(f))
<1> DEFINE L == ImportLines(f)
           N == Len(f.lines)
<1>1. N \in Nat /\ DOMAIN f.lines = 1..N /\ \A n \in 1..N : f.lines[n] \in FileLine
  BY LenProperties, ElementOfSeq
<1>2. L = [n \in 1..N |-> ReadAs(f.lines[n])]
  BY DEF ImportLines
<1> HIDE DEF L, N
<1>3. \A n \in 1..N : /\ L[n] = ReadAs(f.lines[n]) /\ L[n] \in Line /\ L[n].id = f.lines[n].id
                      /\ L[n].rec.kind = f.lines[n].rec.kind /\ L[n].rec.msg = f.lines[n].rec.msg
  BY <1>1, <1>2, ReadAsFacts
<1>4. L \in [1..N -> Line]
  BY <1>2, <1>3
<1>5. L \in Seq(Line) /\ Len(L) = N
  BY <1>1, <1>4, AsList
<1>6. Lines(L)
  BY <1>1, <1>3, <1>5 DEF Lines
<1>7. ASSUME MessagesApart(f.lines)  PROVE ApartBy(L)
  <2>1. ASSUME NEW m \in 1..N, NEW n \in 1..N,
               m # n /\ L[m].rec.kind = "mem" /\ L[n].rec.kind = "mem" /\ L[m].rec.msg # ""
        PROVE  L[m].rec.msg # L[n].rec.msg
    <3>1. m \in DOMAIN f.lines /\ n \in DOMAIN f.lines
      BY <1>1
    <3>2. /\ L[m].rec.kind = f.lines[m].rec.kind /\ L[m].rec.msg = f.lines[m].rec.msg
          /\ L[n].rec.kind = f.lines[n].rec.kind /\ L[n].rec.msg = f.lines[n].rec.msg
      BY <1>3
    <3> QED
      BY <1>7, <2>1, <3>1, <3>2 DEF MessagesApart
  <2> QED
    BY <1>5, <2>1 DEF ApartBy
<1> QED
  BY <1>1, <1>3, <1>5, <1>6, <1>7 DEF L, N

LEMMA ImportIsWet ==
    ASSUME NEW c \in Table, NEW a \in Agents, NEW f, f.lines \in Seq(FileLine),
           \A m, n \in DOMAIN f.lines : m # n => f.lines[m].id # f.lines[n].id
    PROVE  Wet(ImportedLines(c, FALSE, f, a), c, a, ImportLines(f), Len(f.lines))
<1> DEFINE N == Len(f.lines)
           L == ImportLines(f)
<1>1. /\ N \in Nat /\ Lines(L) /\ Len(L) = N
      /\ \A n \in 1..N : L[n] = ReadAs(f.lines[n]) /\ f.lines[n] \in FileLine
  BY ImportLineFacts
<1>2. PICK w : ImportRun(w, c, FALSE, f, a)
  BY <1>1, ImportIsRun
<1>3. /\ w[0] = Start(c) /\ (\A n \in 1..N : w[n] = ImportLine(w[n - 1], FALSE, a, f.lines[n]))
      /\ ImportedLines(c, FALSE, f, a) = w[N]
  BY <1>2 DEF ImportRun
<1> HIDE DEF N, L
<1> DEFINE wet == {n \in 0..N : Wet(w[n], c, a, L, n)}
<1>4. 0 \in wet
  BY <1>1, <1>3, WetStart
<1>5. ASSUME NEW n \in 1..N, n - 1 \in wet  PROVE n \in wet
  <2>1. Wet(w[n - 1], c, a, L, n - 1)
    BY <1>1, <1>5
  <2>2. StateOK(w[n - 1])
    BY <2>1 DEF Wet
  <2>3. w[n] = Taken(w[n - 1], FALSE, a, L[n])
    <3>1. f.lines[n] \in FileLine /\ L[n] = ReadAs(f.lines[n]) /\ w[n] = ImportLine(w[n - 1], FALSE, a, f.lines[n])
      BY <1>1, <1>3
    <3> PICK line, dry, st : line = f.lines[n] /\ dry = FALSE /\ st = w[n - 1]
      OBVIOUS
    <3>2. ImportLine(st, dry, a, line) = Taken(st, dry, a, ReadAs(line))
      BY <2>2, <3>1, ImportTakes
    <3> QED
      BY <3>1, <3>2
  <2>4. Wet(w[n], c, a, L, n)
    BY <1>1, <2>1, <2>3, WetStep, ZenonT(60)
  <2>5. n \in 0..N
    BY <1>1
  <2> QED
    BY <2>4, <2>5
<1>6. N \in wet
  <2> HIDE DEF wet
  <2>1. \A n \in 0..N : n \in wet
    BY <1>1, <1>4, <1>5, StepByStep
  <2> QED
    BY <1>1, <2>1
<1>7. Wet(w[N], c, a, L, N)
  BY <1>6
<1> QED
  BY <1>3, <1>7 DEF N, L

----------------------------------------------------------------------------
(* Records carried between agents: what is declared about them             *)

TableWith(recs, profile, entity, mentions, ties, folder, filed) ==
    [recs |-> recs, profile |-> profile, entity |-> entity, mentions |-> mentions, ties |-> ties,
     folder |-> folder, filed |-> filed]

\* What a table declares once the declarations d have been carried to agent a.
Here(c, map, a, i) == i \in DOMAIN map /\ map[i] \in RecsOf(c, a)
EntityTo(c, d, a) ==
    LET own == d.entity.alias = "own" /\ c.entity[a].alias # "rival"
    IN  [c.entity EXCEPT ![a] = [named |-> c.entity[a].named \/ d.entity.named,
                                 alias |-> IF own THEN "own" ELSE c.entity[a].alias]]
MentionsTo(c, d, map, a) == c.mentions \cup {map[i] : i \in {j \in d.mentions : Here(c, map, a, j)}}
TiesTo(c, d, map, a) ==
    c.ties \cup {<<map[t[1]], map[t[2]]>> : t \in {u \in d.ties : Here(c, map, a, u[1]) /\ Here(c, map, a, u[2])}}
FolderTo(c, d, a)     == IF d.folder THEN c.folder \cup {a} ELSE c.folder
FiledTo(c, d, map, a) == c.filed \cup {map[i] : i \in {j \in d.filed : Here(c, map, a, j) /\ map[j] \notin c.filed}}
CarriedOnto(c, d, map, a) == CarryFolders(CarryGraph(c, d, map, a).c, d, map, a).c

LEMMA TableReads ==
    ASSUME NEW r, NEW p, NEW e, NEW m, NEW t, NEW o, NEW l, NEW c, c = TableWith(r, p, e, m, t, o, l)
    PROVE  c.recs = r /\ c.profile = p /\ c.entity = e /\ c.mentions = m /\ c.ties = t /\ c.folder = o /\ c.filed = l
  BY DEF TableWith

LEMMA TableShape ==
    ASSUME NEW c \in Table
    PROVE  c = TableWith(c.recs, c.profile, c.entity, c.mentions, c.ties, c.folder, c.filed)
  BY DEF Table, TableWith

\* What is found depends on the records alone.
LEMMA RecsDecide ==
    ASSUME NEW c, NEW d, d.recs = c.recs
    PROVE  /\ Ids(d) = Ids(c) /\ \A a : RecsOf(d, a) = RecsOf(c, a)
           /\ \A a, r : SameMsg(d, a, r) = SameMsg(c, a, r) /\ SameText(d, a, r) = SameText(c, a, r)
<1>1. Ids(d) = Ids(c)
  BY DEF Ids
<1>2. \A a : RecsOf(d, a) = RecsOf(c, a)
  BY <1>1 DEF RecsOf
<1>3. ASSUME NEW a, NEW r  PROVE SameMsg(d, a, r) = SameMsg(c, a, r) /\ SameText(d, a, r) = SameText(c, a, r)
  <2>1. RecsOf(d, a) = RecsOf(c, a)
    BY <1>2
  <2> QED
    BY <2>1 DEF SameMsg, SameText
<1> QED
  BY <1>1, <1>2, <1>3

LEMMA CarriedFields ==
    ASSUME NEW c \in Table, NEW d, NEW map, NEW a
    PROVE  CarriedOnto(c, d, map, a) =
              TableWith(c.recs, c.profile, EntityTo(c, d, a), MentionsTo(c, d, map, a), TiesTo(c, d, map, a),
                      FolderTo(c, d, a), FiledTo(c, d, map, a))
<1> DEFINE g == CarryGraph(c, d, map, a).c
           entity == EntityTo(c, d, a)
           mentions == MentionsTo(c, d, map, a)
           ties == TiesTo(c, d, map, a)
           folder == FolderTo(c, d, a)
           filed == FiledTo(c, d, map, a)
<1>1. c = TableWith(c.recs, c.profile, c.entity, c.mentions, c.ties, c.folder, c.filed)
  BY TableShape
<1>2. g = TableWith(c.recs, c.profile, entity, mentions, ties, c.folder, c.filed)
  <2> DEFINE here(i) == i \in DOMAIN map /\ map[i] \in RecsOf(c, a)
             kept == {i \in d.mentions : here(i)}
             tied == {t \in d.ties : here(t[1]) /\ here(t[2])}
             taken == d.entity.alias = "own" /\ c.entity[a].alias = "rival"
             one == [named |-> c.entity[a].named \/ d.entity.named,
                     alias |-> IF d.entity.alias = "own" /\ ~taken THEN "own" ELSE c.entity[a].alias]
             e == [c.entity EXCEPT ![a] = one]
             m == c.mentions \cup {map[i] : i \in kept}
             t == c.ties \cup {<<map[x[1]], map[x[2]]>> : x \in tied}
  <2>1. g = [[[c EXCEPT !.entity[a] = one] EXCEPT !.mentions = @ \cup {map[i] : i \in kept}]
                EXCEPT !.ties = @ \cup {<<map[x[1]], map[x[2]]>> : x \in tied}]
    BY DEF CarryGraph
  <2>2. e = entity
    BY DEF EntityTo
  <2>3. m = mentions
    BY DEF MentionsTo, Here
  <2>4. t = ties
    BY DEF TiesTo, Here
  <2> DEFINE c1 == [c EXCEPT !.entity[a] = one]
             c2 == [c1 EXCEPT !.mentions = @ \cup {map[i] : i \in kept}]
  <2>5. c1 = TableWith(c.recs, c.profile, e, c.mentions, c.ties, c.folder, c.filed)
    <3> HIDE DEF one
    <3> QED
      BY <1>1 DEF TableWith
  <2> HIDE DEF e, one, c1, kept, tied
  <2>6. c2 = TableWith(c.recs, c.profile, e, m, c.ties, c.folder, c.filed)
    <3>1. c1.mentions = c.mentions
      BY <2>5, TableReads
    <3>2. c2 = [c1 EXCEPT !.mentions = m]
      BY <3>1
    <3> HIDE DEF m
    <3> QED
      BY <2>5, <3>2 DEF TableWith
  <2> HIDE DEF m, c2
  <2>7. g = [c2 EXCEPT !.ties = t]
    <3>1. c2.ties = c.ties
      BY <2>6, TableReads
    <3>2. g = [c2 EXCEPT !.ties = @ \cup {<<map[x[1]], map[x[2]]>> : x \in tied}]
      BY <2>1 DEF c2, c1
    <3> QED
      BY <3>1, <3>2
  <2> HIDE DEF t, g
  <2>8. g = TableWith(c.recs, c.profile, e, m, t, c.folder, c.filed)
    BY <2>6, <2>7 DEF TableWith
  <2> HIDE DEF entity, mentions, ties
  <2> QED
    BY <2>2, <2>3, <2>4, <2>8
<1> HIDE DEF g, entity, mentions, ties
<1>3. g.recs = c.recs /\ g.folder = c.folder /\ g.filed = c.filed
  BY <1>2, TableReads
<1>4. CarryFolders(g, d, map, a).c = TableWith(c.recs, c.profile, entity, mentions, ties, folder, filed)
  <2> DEFINE lands == {i \in d.filed : i \in DOMAIN map /\ map[i] \in RecsOf(g, a) \ g.filed}
             c1 == [g EXCEPT !.folder = IF d.folder THEN @ \cup {a} ELSE @]
  <2>1. CarryFolders(g, d, map, a).c = [c1 EXCEPT !.filed = @ \cup {map[i] : i \in lands}]
    BY DEF CarryFolders
  <2>2. c1 = [g EXCEPT !.folder = folder]
    BY <1>3 DEF FolderTo
  <2> HIDE DEF c1, folder
  <2>3. c1 = TableWith(c.recs, c.profile, entity, mentions, ties, folder, c.filed)
    BY <1>2, <2>2 DEF TableWith
  <2>4. c.filed \cup {map[i] : i \in lands} = filed
    <3>1. RecsOf(g, a) = RecsOf(c, a)
      BY <1>3, RecsDecide
    <3>2. lands = {j \in d.filed : Here(c, map, a, j) /\ map[j] \notin c.filed}
      BY <1>3, <3>1 DEF Here
    <3> QED
      BY <3>2 DEF FiledTo
  <2>5. c1.filed = c.filed
    BY <2>3, TableReads
  <2>6. CarryFolders(g, d, map, a).c = [c1 EXCEPT !.filed = filed]
    BY <2>1, <2>4, <2>5
  <2> HIDE DEF filed
  <2> QED
    BY <2>3, <2>6 DEF TableWith
<1> QED
  BY <1>4 DEF CarriedOnto, g, entity, mentions, ties, folder, filed

LEMMA EntityCarried ==
    ASSUME NEW c \in Table, NEW d, NEW a \in Agents
    PROVE  EntityTo(c, d, a) \in [Agents -> Entities]
<1>1. c.entity \in [Agents -> Entities]
  BY DEF Table
<1>2. c.entity[a].named \in BOOLEAN /\ c.entity[a].alias \in {"none", "own", "rival"}
  BY <1>1 DEF Entities
<1> DEFINE own == d.entity.alias = "own" /\ c.entity[a].alias # "rival"
           alias == IF own THEN "own" ELSE c.entity[a].alias
           named == c.entity[a].named \/ d.entity.named
<1>3. alias \in {"none", "own", "rival"} /\ named \in BOOLEAN
  BY <1>2
<1> HIDE DEF alias, named
<1>4. [named |-> named, alias |-> alias] \in Entities
  BY <1>3 DEF Entities
<1> QED
  BY <1>1, <1>4 DEF EntityTo, named, alias

LEMMA CarriedTable ==
    ASSUME NEW c \in Table, NEW d, NEW map, NEW a \in Agents, NEW t, t = CarriedOnto(c, d, map, a)
    PROVE  /\ t \in Table /\ t.recs = c.recs /\ t.profile = c.profile /\ t.entity = EntityTo(c, d, a)
           /\ t.mentions = MentionsTo(c, d, map, a) /\ t.ties = TiesTo(c, d, map, a)
           /\ t.folder = FolderTo(c, d, a) /\ t.filed = FiledTo(c, d, map, a)
<1> DEFINE entity == EntityTo(c, d, a)
           mentions == MentionsTo(c, d, map, a)
           ties == TiesTo(c, d, map, a)
           folder == FolderTo(c, d, a)
           filed == FiledTo(c, d, map, a)
<1>1. t = TableWith(c.recs, c.profile, entity, mentions, ties, folder, filed)
  BY CarriedFields
<1>2. /\ c.recs \in Seq(Slot) /\ c.profile \in [Agents -> Nat] /\ c.mentions \subseteq Nat
      /\ c.ties \subseteq Nat \X Nat /\ c.folder \subseteq Agents /\ c.filed \subseteq Nat
  BY DEF Table
<1>3. \A i : Here(c, map, a, i) => map[i] \in Nat
  BY IdFacts DEF Here
<1>4. mentions \subseteq Nat /\ filed \subseteq Nat /\ folder \subseteq Agents
  BY <1>2, <1>3 DEF MentionsTo, FiledTo, FolderTo
<1>5. ties \subseteq Nat \X Nat
  <2>1. ASSUME NEW x \in d.ties, Here(c, map, a, x[1]), Here(c, map, a, x[2])
        PROVE  <<map[x[1]], map[x[2]]>> \in Nat \X Nat
    BY <1>3, <2>1
  <2>2. {<<map[x[1]], map[x[2]]>> : x \in {u \in d.ties : Here(c, map, a, u[1]) /\ Here(c, map, a, u[2])}} \subseteq Nat \X Nat
    BY <2>1
  <2> QED
    BY <1>2, <2>2 DEF TiesTo
<1>6. entity \in [Agents -> Entities]
  BY EntityCarried
<1> HIDE DEF entity, mentions, ties, folder, filed
<1>7. t \in Table
  BY <1>1, <1>2, <1>4, <1>5, <1>6 DEF Table, TableWith
<1>8. /\ t.recs = c.recs /\ t.profile = c.profile /\ t.entity = entity /\ t.mentions = mentions /\ t.ties = ties
      /\ t.folder = folder /\ t.filed = filed
  BY <1>1, TableReads
<1> QED
  BY <1>7, <1>8 DEF entity, mentions, ties, folder, filed

\* Carrying the same along the same map again changes nothing.
LEMMA CarriedTwice ==
    ASSUME NEW c \in Table, NEW d, NEW map, NEW a \in Agents, NEW t, t = CarriedOnto(c, d, map, a),
           NEW again, DOMAIN again = DOMAIN map, \A i \in DOMAIN map : again[i] = map[i]
    PROVE  CarriedOnto(t, d, again, a) = t
<1>1. /\ t \in Table /\ t.recs = c.recs /\ t.profile = c.profile /\ t.entity = EntityTo(c, d, a)
      /\ t.mentions = MentionsTo(c, d, map, a) /\ t.ties = TiesTo(c, d, map, a)
      /\ t.folder = FolderTo(c, d, a) /\ t.filed = FiledTo(c, d, map, a)
  BY CarriedTable
<1>2. RecsOf(t, a) = RecsOf(c, a)
  BY <1>1, RecsDecide
<1>3. \A i : Here(t, again, a, i) <=> Here(c, map, a, i)
  BY <1>2 DEF Here
<1>4. \A i : Here(c, map, a, i) => again[i] = map[i]
  BY DEF Here
<1>5. EntityTo(t, d, a) = t.entity
  <2>1. c.entity \in [Agents -> Entities]
    BY DEF Table
  <2> DEFINE e == c.entity[a]
             o == d.entity.alias = "own"
             alias == IF o /\ e.alias # "rival" THEN "own" ELSE e.alias
             named == e.named \/ d.entity.named
             one == [named |-> named, alias |-> alias]
             twice == [named |-> t.entity[a].named \/ d.entity.named,
                       alias |-> IF o /\ t.entity[a].alias # "rival" THEN "own" ELSE t.entity[a].alias]
  <2>2. t.entity = [c.entity EXCEPT ![a] = one]
    BY <1>1 DEF EntityTo
  <2>3. t.entity[a] = one
    BY <2>1, <2>2
  <2>4. t.entity[a].named = named /\ t.entity[a].alias = alias
    <3> HIDE DEF named, alias
    <3> QED
      BY <2>3
  <2>5. (t.entity[a].named \/ d.entity.named) = named
    BY <2>4
  <2>6. (IF o /\ t.entity[a].alias # "rival" THEN "own" ELSE t.entity[a].alias) = alias
    BY <2>4
  <2>7. twice = one
    <3> HIDE DEF named, alias, o
    <3> QED
      BY <2>5, <2>6
  <2>8. t.entity \in [Agents -> Entities]
    BY <1>1 DEF Table
  <2>9. EntityTo(t, d, a) = [t.entity EXCEPT ![a] = twice]
    BY DEF EntityTo
  <2> HIDE DEF twice, one
  <2> QED
    BY <2>3, <2>7, <2>8, <2>9
<1>6. MentionsTo(t, d, again, a) = t.mentions
  <2>1. \A i : Here(c, map, a, i) /\ i \in d.mentions => map[i] \in t.mentions
    BY <1>1 DEF MentionsTo
  <2>2. {again[i] : i \in {j \in d.mentions : Here(t, again, a, j)}} \subseteq t.mentions
    BY <1>3, <1>4, <2>1
  <2> QED
    BY <2>2 DEF MentionsTo
<1>7. TiesTo(t, d, again, a) = t.ties
  <2>1. \A x \in d.ties : Here(c, map, a, x[1]) /\ Here(c, map, a, x[2]) => <<map[x[1]], map[x[2]]>> \in t.ties
    BY <1>1 DEF TiesTo
  <2>2. \A x \in d.ties : Here(t, again, a, x[1]) /\ Here(t, again, a, x[2]) => <<again[x[1]], again[x[2]]>> \in t.ties
    BY <1>3, <1>4, <2>1
  <2>3. {<<again[x[1]], again[x[2]]>> : x \in {u \in d.ties : Here(t, again, a, u[1]) /\ Here(t, again, a, u[2])}} \subseteq t.ties
    BY <2>2
  <2> QED
    BY <2>3 DEF TiesTo
<1>8. FolderTo(t, d, a) = t.folder
  BY <1>1 DEF FolderTo
<1>9. FiledTo(t, d, again, a) = t.filed
  <2>1. \A i : Here(c, map, a, i) /\ i \in d.filed => map[i] \in t.filed
    BY <1>1 DEF FiledTo
  <2>2. {j \in d.filed : Here(t, again, a, j) /\ again[j] \notin t.filed} = {}
    BY <1>3, <1>4, <2>1
  <2> QED
    BY <2>2 DEF FiledTo
<1>10. CarriedOnto(t, d, again, a) =
          TableWith(t.recs, t.profile, EntityTo(t, d, a), MentionsTo(t, d, again, a), TiesTo(t, d, again, a),
                  FolderTo(t, d, a), FiledTo(t, d, again, a))
  BY <1>1, CarriedFields
<1> QED
  BY <1>1, <1>5, <1>6, <1>7, <1>8, <1>9, <1>10, TableShape

\* What is declared of a record the file has, and of its own it keeps, is declared of where it is.
LEMMA CarriedReaches ==
    ASSUME NEW c \in Table, NEW d, NEW map, NEW a \in Agents, NEW t, t = CarriedOnto(c, d, map, a),
           NEW i \in DOMAIN map, map[i] \in RecsOf(c, a)
    PROVE  (i \in d.mentions => map[i] \in t.mentions) /\ (i \in d.filed => map[i] \in t.filed)
<1>1. Here(c, map, a, i)
  BY DEF Here
<1>2. t.mentions = MentionsTo(c, d, map, a) /\ t.filed = FiledTo(c, d, map, a)
  BY CarriedTable
<1> QED
  BY <1>1, <1>2 DEF MentionsTo, FiledTo

----------------------------------------------------------------------------
(* Records carried between agents: importing                               *)

LinesApart(lines) == \A m, n \in DOMAIN lines : m # n => lines[m].id # lines[n].id

\* A line whose record is there already leaves the table as it was.
LEMMA TakenAgain ==
    ASSUME NEW s, StateOK(s), NEW a, NEW line \in Line,
           IsBlank(line.rec) \/ SameMsg(s.c, a, line.rec) # {} \/ SameText(s.c, a, line.rec) # {}
    PROVE  StateOK(Taken(s, FALSE, a, line)) /\ Taken(s, FALSE, a, line).c = s.c
<1> DEFINE t == Taken(s, FALSE, a, line)
           r == line.rec
           old == line.id
<1>1. IsBlank(r) => StateOK(t) /\ PassedOver(s, t, line.told)
  BY BlankFacts
<1>2. ~IsBlank(r) => t = WriteRecord(s, FALSE, a, old, r)
  BY DEF Taken
<1> HIDE DEF t
<1>3. ASSUME IsBlank(r)  PROVE StateOK(t) /\ t.c = s.c
  BY <1>1, <1>3, StateReads DEF PassedOver
<1>4. ASSUME ~IsBlank(r), SameMsg(s.c, a, r) # {}  PROVE StateOK(t) /\ t.c = s.c
  <2>1. SkippedAs(s, t, old, SameMsg(s.c, a, r))
    BY <1>2, <1>4, WriteFacts DEF MsgKnown, MsgFound
  <2> QED
    BY <2>1, SkippedFacts
<1>5. ASSUME ~IsBlank(r), SameMsg(s.c, a, r) = {}, SameText(s.c, a, r) # {}  PROVE StateOK(t) /\ t.c = s.c
  <2>1. SkippedAs(s, t, old, SameText(s.c, a, r))
    BY <1>2, <1>5, WriteFacts DEF MsgKnown, MsgFound, TextKnown, TextFound
  <2> QED
    BY <2>1, SkippedFacts
<1>6. StateOK(t) /\ t.c = s.c
  BY <1>3, <1>4, <1>5
<1> QED
  BY <1>6 DEF t

\* An import of records that are all there writes none.
LEMMA NothingWritten ==
    ASSUME NEW c \in Table, NEW a, NEW f, f.lines \in Seq(FileLine), LinesApart(f.lines),
           \A k \in Real(ImportLines(f), Len(f.lines)) :
              SameMsg(c, a, ImportLines(f)[k].rec) # {} \/ SameText(c, a, ImportLines(f)[k].rec) # {}
    PROVE  ImportedLines(c, FALSE, f, a).c = c
<1> DEFINE N == Len(f.lines)
           L == ImportLines(f)
<1>1. /\ N \in Nat /\ Lines(L) /\ Len(L) = N
      /\ \A n \in 1..N : L[n] = ReadAs(f.lines[n]) /\ f.lines[n] \in FileLine
  BY ImportLineFacts DEF LinesApart
<1>2. PICK w : ImportRun(w, c, FALSE, f, a)
  BY <1>1, ImportIsRun
<1>3. /\ w[0] = Start(c) /\ (\A n \in 1..N : w[n] = ImportLine(w[n - 1], FALSE, a, f.lines[n]))
      /\ ImportedLines(c, FALSE, f, a) = w[N]
  BY <1>2 DEF ImportRun
<1>4. \A k \in 1..N : L[k] \in Line /\ (IsBlank(L[k].rec) \/ SameMsg(c, a, L[k].rec) # {} \/ SameText(c, a, L[k].rec) # {})
  <2> TAKE k \in 1..N
  <2>1. ~IsBlank(L[k].rec) => k \in Real(L, N)
    BY DEF Real
  <2> QED
    BY <1>1, <2>1, ReadAsFacts
<1> HIDE DEF N, L
<1> DEFINE same == {n \in 0..N : StateOK(w[n]) /\ w[n].c = c}
<1>5. 0 \in same
  BY <1>1, <1>3, StartFacts
<1>6. ASSUME NEW n \in 1..N, n - 1 \in same  PROVE n \in same
  <2>1. StateOK(w[n - 1]) /\ w[n - 1].c = c
    BY <1>6
  <2>2. w[n] = Taken(w[n - 1], FALSE, a, L[n])
    <3>1. f.lines[n] \in FileLine /\ L[n] = ReadAs(f.lines[n]) /\ w[n] = ImportLine(w[n - 1], FALSE, a, f.lines[n])
      BY <1>1, <1>3
    <3> PICK line, dry, st : line = f.lines[n] /\ dry = FALSE /\ st = w[n - 1]
      OBVIOUS
    <3>2. StateOK(st) /\ line \in FileLine
      BY <2>1, <3>1
    <3>3. ImportLine(st, dry, a, line) = Taken(st, dry, a, ReadAs(line))
      BY <3>2, ImportTakes
    <3> QED
      BY <3>1, <3>3
  <2>3. StateOK(w[n]) /\ w[n].c = c
    <3> PICK st, line : st = w[n - 1] /\ line = L[n]
      OBVIOUS
    <3>1. StateOK(st) /\ st.c = c /\ line \in Line
          /\ (IsBlank(line.rec) \/ SameMsg(st.c, a, line.rec) # {} \/ SameText(st.c, a, line.rec) # {})
      BY <1>4, <2>1
    <3>2. \A x : \A l \in Line :
             StateOK(x) /\ (IsBlank(l.rec) \/ SameMsg(x.c, a, l.rec) # {} \/ SameText(x.c, a, l.rec) # {}) =>
                StateOK(Taken(x, FALSE, a, l)) /\ Taken(x, FALSE, a, l).c = x.c
      BY TakenAgain
    <3> QED
      BY <2>1, <2>2, <3>1, <3>2
  <2>4. n \in 0..N
    BY <1>1
  <2> QED
    BY <2>3, <2>4
<1>7. N \in same
  <2> HIDE DEF same
  <2>1. \A n \in 0..N : n \in same
    BY <1>1, <1>5, <1>6, StepByStep
  <2> QED
    BY <1>1, <2>1
<1> QED
  BY <1>3, <1>7

LEMMA ProfileImported ==
    ASSUME NEW c \in Table, NEW f, f.profile \in Nat, NEW a \in Agents, NEW p, p = ImportedProfile(c, f, a)
    PROVE  /\ p \in Table /\ p.recs = c.recs /\ ImportedProfile(p, f, a) = p
           /\ \A t \in Table : t.profile = p.profile => ImportedProfile(t, f, a) = t
<1> DEFINE new == IF f.profile = 0 \/ c.profile[a] > f.profile THEN c.profile[a] ELSE f.profile
           profile == [c.profile EXCEPT ![a] = new]
<1>1. c = TableWith(c.recs, c.profile, c.entity, c.mentions, c.ties, c.folder, c.filed)
      /\ c.profile \in [Agents -> Nat]
  BY TableShape DEF Table
<1>2. p = [c EXCEPT !.profile = profile]
  BY <1>1 DEF ImportedProfile, TableWith
<1>3. new \in Nat /\ profile \in [Agents -> Nat] /\ profile[a] = new
      /\ (f.profile = 0 \/ new > f.profile \/ new = f.profile)
  BY <1>1
<1> HIDE DEF profile, new
<1>4. p = TableWith(c.recs, profile, c.entity, c.mentions, c.ties, c.folder, c.filed)
  BY <1>1, <1>2 DEF TableWith
<1>5. p.recs = c.recs /\ p.profile = profile
  BY <1>4, TableReads
<1>6. p \in Table
  BY <1>3, <1>4 DEF Table, TableWith
<1>7. ASSUME NEW t \in Table, t.profile = profile  PROVE ImportedProfile(t, f, a) = t
  <2>1. (IF f.profile = 0 \/ t.profile[a] > f.profile THEN t.profile[a] ELSE f.profile) = t.profile[a]
    BY <1>3, <1>7
  <2>2. ImportedProfile(t, f, a) = [t EXCEPT !.profile[a] = t.profile[a]]
    BY <2>1 DEF ImportedProfile
  <2>3. t = TableWith(t.recs, t.profile, t.entity, t.mentions, t.ties, t.folder, t.filed) /\ t.profile \in [Agents -> Nat]
    BY TableShape DEF Table
  <2>4. [t.profile EXCEPT ![a] = t.profile[a]] = t.profile
    BY <2>3
  <2>5. [t EXCEPT !.profile[a] = t.profile[a]] = [t EXCEPT !.profile = [t.profile EXCEPT ![a] = t.profile[a]]]
    BY <2>3 DEF TableWith
  <2>6. [t EXCEPT !.profile = t.profile] = t
    BY <2>3 DEF TableWith
  <2> QED
    BY <2>2, <2>4, <2>5, <2>6
<1> QED
  BY <1>5, <1>6, <1>7

\* What an import makes of a table, in parts.
LEMMA ImportedIs ==
    ASSUME NEW c, NEW f, NEW a, NEW rows, rows = ImportedLines(c, FALSE, f, a)
    PROVE  Imported(c, f, a).c = CarriedOnto(ImportedProfile(rows.c, f, a), f.d, rows.tally.map, a)
  BY DEF Imported, CarriedOnto

\* An import puts every record that is not blank under its message or its text, with what is
\* declared about it.
LEMMA ImportPlaces ==
    ASSUME NEW c \in Table, NEW a \in Agents, NEW f, f.lines \in Seq(FileLine), LinesApart(f.lines), f.profile \in Nat,
           NEW t, t = Imported(c, f, a).c, NEW n \in 1..Len(f.lines), ~IsBlank(ReadAs(f.lines[n]).rec)
    PROVE  LET r == ReadAs(f.lines[n]).rec
               here == SameMsg(t, a, r) \cup SameText(t, a, r)
               i == f.lines[n].id
           IN  here # {} /\ (i \in f.d.mentions => here \cap t.mentions # {}) /\ (i \in f.d.filed => here \cap t.filed # {})
<1> DEFINE rows == ImportedLines(c, FALSE, f, a)
           L == ImportLines(f)
           N == Len(f.lines)
           s == rows.c
           p == ImportedProfile(s, f, a)
           map == rows.tally.map
           r == ReadAs(f.lines[n]).rec
           i == f.lines[n].id
<1>1. Wet(rows, c, a, L, N)
  BY ImportIsWet DEF LinesApart
<1>2. N \in Nat /\ Lines(L) /\ Len(L) = N /\ L[n] = ReadAs(f.lines[n]) /\ f.lines[n] \in FileLine
  BY ImportLineFacts DEF LinesApart
<1>3. L[n].id = i /\ L[n].rec = r
  BY <1>2, ReadAsFacts
<1>4. n \in Real(L, N)
  BY <1>3 DEF Real
<1> HIDE DEF rows, L, N, r, i
<1>5. i \in DOMAIN map /\ (map[i] \in SameMsg(s, a, r) \/ map[i] \in SameText(s, a, r)) /\ s \in Table
  BY <1>1, <1>3, <1>4, StateTypes DEF Wet, Placed
<1>6. p \in Table /\ p.recs = s.recs
  BY <1>5, ProfileImported
<1>7. t = CarriedOnto(p, f.d, map, a)
  BY ImportedIs DEF rows
<1> HIDE DEF p, s, map
<1>8. t \in Table /\ t.recs = p.recs
  BY <1>6, <1>7, CarriedTable
<1>9. SameMsg(t, a, r) = SameMsg(s, a, r) /\ SameText(t, a, r) = SameText(s, a, r) /\ RecsOf(p, a) = RecsOf(s, a)
  <2>1. t.recs = s.recs
    BY <1>6, <1>8
  <2> QED
    BY <1>6, <2>1, RecsDecide
<1>10. map[i] \in RecsOf(p, a)
  BY <1>5, <1>9, IdFacts
<1>11. (i \in f.d.mentions => map[i] \in t.mentions) /\ (i \in f.d.filed => map[i] \in t.filed)
  BY <1>5, <1>6, <1>7, <1>10, CarriedReaches
<1>12. map[i] \in SameMsg(t, a, r) \cup SameText(t, a, r)
  BY <1>5, <1>9
<1> QED
  BY <1>11, <1>12 DEF r, i

\* A second import of the same file changes nothing.
LEMMA ImportTwice ==
    ASSUME NEW c \in Table, NEW a \in Agents, NEW f, f.lines \in Seq(FileLine), LinesApart(f.lines), f.profile \in Nat,
           MessagesApart(f.lines), NEW t, t = Imported(c, f, a).c
    PROVE  Imported(t, f, a).c = t
<1> PICK rows, more : rows = ImportedLines(c, FALSE, f, a) /\ more = ImportedLines(t, FALSE, f, a)
  OBVIOUS
<1> DEFINE L == ImportLines(f)
           N == Len(f.lines)
           s == rows.c
           p == ImportedProfile(s, f, a)
           map == rows.tally.map
           again == more.tally.map
<1>1. Wet(rows, c, a, L, N)
  BY ImportIsWet DEF LinesApart
<1>2. s \in Table
  BY <1>1, StateTypes DEF Wet
<1> HIDE DEF s, L, N
<1>3. p \in Table /\ p.recs = s.recs /\ \A x \in Table : x.profile = p.profile => ImportedProfile(x, f, a) = x
  BY <1>2, ProfileImported
<1>4. t = CarriedOnto(p, f.d, map, a)
  BY ImportedIs DEF s
<1> HIDE DEF p, map
<1>5. t \in Table /\ t.recs = s.recs /\ t.profile = p.profile
  BY <1>3, <1>4, CarriedTable
<1>6. ApartBy(L)
  BY ImportLineFacts DEF LinesApart, L
<1>7. Wet(more, t, a, L, N)
  BY <1>5, ImportIsWet DEF LinesApart, L, N
<1>8. \A r : SameMsg(t, a, r) = SameMsg(s, a, r) /\ SameText(t, a, r) = SameText(s, a, r)
  BY <1>5, RecsDecide
<1>9. \A k \in Real(L, N) : SameMsg(t, a, L[k].rec) # {} \/ SameText(t, a, L[k].rec) # {}
  BY <1>1, <1>8 DEF Wet, Placed, s
<1>10. more.c = t
  BY <1>5, <1>9, NothingWritten DEF L, N
<1>11. (\A i : i \in DOMAIN map <=> \E k \in Real(L, N) : L[k].id = i)
       /\ (\A i : i \in DOMAIN again <=> \E k \in Real(L, N) : L[k].id = i)
  BY <1>1, <1>7 DEF Wet, map
<1>12. \A k \in Real(L, N) : map[L[k].id] = TwinOf(s, a, L[k].rec) /\ again[L[k].id] = TwinOf(t, a, L[k].rec)
  BY <1>1, <1>6, <1>7, <1>10 DEF Wet, Placed, map, s
<1>13. \A r : TwinOf(t, a, r) = TwinOf(s, a, r)
  BY <1>8 DEF TwinOf
<1> HIDE DEF again
<1>14. DOMAIN again = DOMAIN map /\ \A i \in DOMAIN map : again[i] = map[i]
  <2>1. \A i : i \in DOMAIN again <=> i \in DOMAIN map
    BY <1>11
  <2>2. DOMAIN again = {i \in DOMAIN again : i \in DOMAIN map} /\ DOMAIN map = {i \in DOMAIN map : i \in DOMAIN again}
    BY <2>1
  <2>3. DOMAIN again = DOMAIN map
    BY <2>1, <2>2
  <2> QED
    BY <1>11, <1>12, <1>13, <2>3
<1>15. CarriedOnto(t, f.d, again, a) = t
  BY <1>3, <1>4, <1>14, CarriedTwice
<1>16. Imported(t, f, a).c = CarriedOnto(ImportedProfile(more.c, f, a), f.d, again, a)
  <2>1. \A x, rs : rs = ImportedLines(x, FALSE, f, a) =>
                     Imported(x, f, a).c = CarriedOnto(ImportedProfile(rs.c, f, a), f.d, rs.tally.map, a)
    BY ImportedIs
  <2> QED
    BY <2>1 DEF again
<1>17. ImportedProfile(more.c, f, a) = t
  BY <1>3, <1>5, <1>10
<1> QED
  BY <1>15, <1>16, <1>17

\* No two lines of a file are of one record, and after an import the tables are what it made
\* of those before, or what they were.
ImportInv ==
    /\ LinesApart(export.lines) /\ export.profile \in Nat
    /\ last.op = "import" =>
          corpus = IF HeaderAgrees(export) THEN Imported(last.before, export, last.to).c ELSE last.before

LEMMA LinesLeftApart ==
    ASSUME NEW lines \in Seq(FileLine), LinesApart(lines), NEW n \in 1..Len(lines)
    PROVE  LinesApart(RemoveAt(lines, n))
<1> DEFINE left == RemoveAt(lines, n)
           N == Len(lines)
           a == SubSeq(lines, 1, n - 1)
           b == SubSeq(lines, n + 1, N)
<1>1. N \in Nat /\ DOMAIN lines = 1..N /\ n \in 1..N
  BY LenProperties
<1>2. /\ a \in Seq(FileLine) /\ Len(a) = n - 1 /\ \A k \in 1..(n - 1) : a[k] = lines[k]
  <2>1. 1 \in 1..N /\ n - 1 \in 0..N
    BY <1>1
  <2>2. Len(a) = IF 1 <= n - 1 THEN (n - 1) - 1 + 1 ELSE 0
    BY <1>1, SubSeqProperties
  <2>3. a \in Seq(FileLine) /\ \A k \in 1..((n - 1) - 1 + 1) : a[k] = lines[1 + k - 1]
    BY <1>1, SubSeqProperties
  <2> QED
    BY <1>1, <2>2, <2>3
<1>3. /\ b \in Seq(FileLine) /\ Len(b) = N - n /\ \A k \in 1..(N - n) : b[k] = lines[n + k]
  <2>1. Len(b) = IF n + 1 <= N THEN N - (n + 1) + 1 ELSE 0
    BY <1>1, SubSeqProperties
  <2>2. b \in Seq(FileLine) /\ \A k \in 1..(N - (n + 1) + 1) : b[k] = lines[(n + 1) + k - 1]
    BY <1>1, SubSeqProperties
  <2> HIDE DEF N, b
  <2>3. N - (n + 1) + 1 = N - n /\ Len(b) = N - n
    BY <1>1, <2>1
  <2>4. ASSUME NEW k \in 1..(N - n)  PROVE b[k] = lines[n + k]
    <3>1. (n + 1) + k - 1 = n + k /\ b[k] = lines[(n + 1) + k - 1]
      BY <1>1, <2>2, <2>3
    <3> QED
      BY <3>1
  <2> QED
    BY <2>2, <2>3, <2>4
<1>4. left = a \o b
  BY DEF RemoveAt
<1> HIDE DEF a, b, left, N
<1>5. /\ left \in Seq(FileLine) /\ Len(left) = N - 1
      /\ \A k \in 1..(N - 1) : left[k] = IF k < n THEN lines[k] ELSE lines[k + 1]
  <2>1. Len(left) = Len(a) + Len(b) /\ left \in Seq(FileLine)
    BY <1>2, <1>3, <1>4, ConcatProperties
  <2>2. \A k \in 1..(Len(a) + Len(b)) : left[k] = IF k <= Len(a) THEN a[k] ELSE b[k - Len(a)]
    BY <1>2, <1>3, <1>4, ConcatProperties
  <2>3. ASSUME NEW k \in 1..(N - 1)  PROVE left[k] = IF k < n THEN lines[k] ELSE lines[k + 1]
    <3>1. k \in 1..(Len(a) + Len(b))
      BY <1>1, <1>2, <1>3, <2>3
    <3>2. CASE k < n
      <4>1. k <= Len(a) /\ k \in 1..(n - 1)
        BY <1>1, <1>2, <3>2
      <4> QED
        BY <1>2, <2>2, <3>1, <3>2, <4>1
    <3>3. CASE ~(k < n)
      <4>1. ~(k <= Len(a)) /\ k - Len(a) \in 1..(N - n) /\ n + (k - Len(a)) = k + 1
        BY <1>1, <1>2, <3>3
      <4>2. left[k] = b[k - Len(a)] /\ b[k - Len(a)] = lines[n + (k - Len(a))]
        BY <1>3, <2>2, <3>1, <4>1
      <4> QED
        BY <3>3, <4>1, <4>2
    <3> QED
      BY <3>2, <3>3
  <2> QED
    BY <1>1, <1>2, <1>3, <2>1, <2>3
<1>6. DOMAIN left = 1..(N - 1)
  BY <1>5, LenProperties
<1>7. ASSUME NEW i \in 1..(N - 1), NEW j \in 1..(N - 1), i # j  PROVE left[i].id # left[j].id
  <2> DEFINE old(k) == IF k < n THEN k ELSE k + 1
  <2>1. old(i) \in 1..N /\ old(j) \in 1..N /\ old(i) # old(j)
    BY <1>1, <1>7
  <2>2. left[i] = lines[old(i)] /\ left[j] = lines[old(j)]
    BY <1>5
  <2> HIDE DEF old
  <2> QED
    BY <1>1, <2>1, <2>2 DEF LinesApart
<1> QED
  BY <1>6, <1>7 DEF LinesApart, left

LEMMA ImportInvInit == TransferInit => ImportInv
<1> SUFFICES ASSUME TransferInit  PROVE ImportInv
  OBVIOUS
<1>1. export.lines = <<>> /\ export.profile = 0 /\ last.op = "none"
  BY DEF TransferInit, NoExport, NoLast
<1>2. DOMAIN <<>> = {}
  OBVIOUS
<1> QED
  BY <1>1, <1>2 DEF ImportInv, LinesApart

LEMMA ExportKeepsImportInv == ASSUME TransferInv, DoExport PROVE ImportInv'
<1> DEFINE ids == Listed(corpus, "src")
           lines == [n \in DOMAIN ids |-> [id |-> ids[n], rec |-> corpus.recs[ids[n]]]]
           p == corpus.profile["src"]
           d == DeclaredOf(corpus, "src")
<1>1. last.op = "none" /\ last' = [last EXCEPT !.op = "export", !.before = corpus]
  BY DEF DoExport
<1>2. corpus \in Table /\ HeardShape(last)
  BY <1>1 DEF TransferInv
<1>3. PICK header : export' = [[NoExport EXCEPT !.lines = lines, !.profile = p, !.d = d] EXCEPT !.header = header]
  BY DEF DoExport
<1>4. p \in Nat
  BY <1>2 DEF Table, Agents
<1>5. LinesApart(lines)
  <2>1. \A m, n \in DOMAIN ids : m # n => ids[m] # ids[n]
    <3>1. DOMAIN ids = 1..Len(ids) /\ \A m, n \in 1..Len(ids) : m # n => ids[m] # ids[n]
      BY <1>2, ListedFacts
    <3> HIDE DEF ids
    <3> QED
      BY <3>1
  <2> HIDE DEF ids
  <2>2. \A n \in DOMAIN lines : n \in DOMAIN ids /\ lines[n].id = ids[n]
    OBVIOUS
  <2> HIDE DEF lines
  <2> QED
    BY <2>1, <2>2 DEF LinesApart
<1> HIDE DEF lines, p, d
<1>6. export'.lines = lines /\ export'.profile = p
  BY <1>3 DEF NoExport
<1>7. last'.op = "export"
  <2> DEFINE l == [last EXCEPT !.op = "export"]
  <2>1. l = [last EXCEPT !.op = "export"]
    OBVIOUS
  <2>2. last' = [l EXCEPT !.before = corpus]
    BY <1>1
  <2> HIDE DEF l
  <2>3. HeardShape(l) /\ l.op = "export"
    BY <1>2, <2>1, HeardOp
  <2> QED
    BY <2>2, <2>3, HeardBefore
<1> QED
  BY <1>4, <1>5, <1>6, <1>7 DEF ImportInv

LEMMA DamageKeepsImportInv == ASSUME TransferInv, ImportInv, DamageFile PROVE ImportInv'
<1>1. last.op = "export" /\ last' = [last EXCEPT !.op = "damage"]
  BY DEF DamageFile
<1>2. HeardShape(last) /\ FileShape(export)
  BY <1>1 DEF TransferInv
<1>3. last'.op = "damage"
  BY <1>1, <1>2, HeardOp
<1>4. export.lines \in Seq(FileLine) /\ export = FileOf(export.lines, export.profile, export.d, export.header)
  BY <1>2, FileFields
<1>5. LinesApart(export'.lines) /\ export'.profile = export.profile
  <2>1. ASSUME NEW n \in DOMAIN export.lines, export' = [export EXCEPT !.lines = RemoveAt(@, n)]
        PROVE  LinesApart(export'.lines) /\ export'.profile = export.profile
    <3> DEFINE lines == RemoveAt(export.lines, n)
    <3>1. n \in 1..Len(export.lines)
      BY <1>4, <2>1, LenProperties
    <3>2. LinesApart(lines)
      BY <1>4, <3>1, LinesLeftApart DEF ImportInv
    <3> HIDE DEF lines
    <3>3. export' = [export EXCEPT !.lines = lines]
      BY <2>1 DEF lines
    <3>4. export'.lines = lines /\ export'.profile = export.profile
      BY <1>4, <3>3 DEF FileOf
    <3> QED
      BY <3>2, <3>4
  <2>2. ASSUME NEW x, export' = [export EXCEPT !.d.filed = @ \ {x}]
        PROVE  LinesApart(export'.lines) /\ export'.profile = export.profile
    <3>1. export'.lines = export.lines /\ export'.profile = export.profile
      BY <1>4, <2>2 DEF FileOf
    <3> QED
      BY <3>1 DEF ImportInv
  <2>3. ASSUME export' = [export EXCEPT !.header = <<>>]
        PROVE  LinesApart(export'.lines) /\ export'.profile = export.profile
    <3>1. export'.lines = export.lines /\ export'.profile = export.profile
      BY <1>4, <2>3 DEF FileOf
    <3> QED
      BY <3>1 DEF ImportInv
  <2> QED
    BY <2>1, <2>2, <2>3 DEF DamageFile
<1> QED
  BY <1>3, <1>5 DEF ImportInv

LEMMA ImportKeepsImportInv == ASSUME TransferInv, ImportInv, NEW a \in Agents, DoImport(a) PROVE ImportInv'
<1>1. UNCHANGED export /\ corpus' = IF HeaderAgrees(export) THEN Imported(corpus, export, a).c ELSE corpus
  BY DEF DoImport
<1>2. last'.before = corpus /\ last'.to = a
  BY DEF DoImport
<1>3. corpus' = IF HeaderAgrees(export) THEN Imported(last'.before, export, last'.to).c ELSE last'.before
  BY <1>1, <1>2
<1>4. HeaderAgrees(export)' <=> HeaderAgrees(export)
  BY <1>1
<1> QED
  BY <1>1, <1>3, <1>4 DEF ImportInv

LEMMA ImportInvStep == TransferInv /\ TransferInv' /\ ImportInv /\ [TransferNext]_transferVars => ImportInv'
<1> SUFFICES ASSUME TransferInv, ImportInv, [TransferNext]_transferVars  PROVE ImportInv'
  OBVIOUS
<1>1. CASE OpenCorpus
  <2>1. UNCHANGED <<export, last>> /\ last.op = "none"
    BY <1>1 DEF OpenCorpus, NoLast
  <2> QED
    BY <2>1 DEF ImportInv
<1>2. ASSUME NEW mode \in {"copy", "move"}, DoMerge(mode)  PROVE ImportInv'
  <2>1. UNCHANGED export /\ last'.op = mode
    BY <1>2 DEF DoMerge
  <2> QED
    BY <2>1 DEF ImportInv
<1>3. CASE LoseSource
  <2>1. UNCHANGED <<export, last>> /\ last.op \in {"export", "damage"}
    BY <1>3 DEF LoseSource
  <2> QED
    BY <2>1 DEF ImportInv
<1>4. CASE \E a \in Agents : StoreMeanwhile(a)
  <2>1. UNCHANGED <<export, last>> /\ last.op \in {"copy", "move"}
    BY <1>4 DEF StoreMeanwhile
  <2> QED
    BY <2>1 DEF ImportInv
<1>5. CASE Post
  <2>1. UNCHANGED <<corpus, export>> /\ (UNCHANGED last \/ last' = [last EXCEPT !.ok = FALSE])
    BY <1>5 DEF Post
  <2>2. last'.op = last.op /\ last'.before = last.before /\ (last.op = "import" => last'.to = last.to)
    BY <2>1, HeardOk, HeardAtOk DEF TransferInv
  <2> QED
    BY <2>1, <2>2 DEF ImportInv
<1>6. CASE UNCHANGED transferVars
  BY <1>6 DEF ImportInv, transferVars
<1> QED
  BY <1>1, <1>2, <1>3, <1>4, <1>5, <1>6, ExportKeepsImportInv, DamageKeepsImportInv, ImportKeepsImportInv DEF TransferNext

LEMMA ImportInvariant == TransferSpec => []ImportInv
  BY ImportInvInit, ImportInvStep, TransferInvariant, PTL DEF TransferSpec

\* An import that goes through puts every record of the file that is not blank under its
\* message id or its text with what is declared about it, and a second import of a file whose
\* message ids are apart changes nothing; a file that lost what its header counts changes
\* nothing at all (import_memories: _import_memory_record, _import_episode_record,
\* associations.carry, folders.carry, _validate_file_header).
THEOREM ImportsRestore == TransferSpec => []ImportRestores
<1>1. TransferInv /\ ImportInv => ImportRestores
  <2> SUFFICES ASSUME TransferInv, ImportInv, last.op = "import"  PROVE ImportRestores
    BY DEF ImportRestores
  <2>1. /\ export.lines \in Seq(FileLine) /\ LinesApart(export.lines) /\ export.profile \in Nat
        /\ Before \in Table /\ last.to \in Agents
    BY FileFields DEF TransferInv, ImportInv, Before
  <2>2. ASSUME ~HeaderAgrees(export)  PROVE corpus = Before
    BY <2>2 DEF ImportInv, Before
  <2>3. ASSUME HeaderAgrees(export)  PROVE corpus = Imported(Before, export, last.to).c
    BY <2>3 DEF ImportInv, Before
  <2> DEFINE r(n) == [export.lines[n].rec EXCEPT !.text = Cut(@)]
             here(n) == SameMsg(corpus, last.to, r(n)) \cup SameText(corpus, last.to, r(n))
             restored(n) == /\ here(n) # {}
                            /\ export.lines[n].id \in export.d.mentions => here(n) \cap corpus.mentions # {}
                            /\ export.lines[n].id \in export.d.filed => here(n) \cap corpus.filed # {}
  <2>4. ASSUME HeaderAgrees(export), NEW n \in DOMAIN export.lines, ~IsBlank(r(n))  PROVE restored(n)
    <3>1. n \in 1..Len(export.lines) /\ export.lines[n] \in FileLine
      BY <2>1, <2>4, LenProperties, ElementOfSeq
    <3>2. ReadAs(export.lines[n]).rec = r(n)
      BY <3>1, ReadAsFacts
    <3> DEFINE q == ReadAs(export.lines[n]).rec
               kin == SameMsg(corpus, last.to, q) \cup SameText(corpus, last.to, q)
               i == export.lines[n].id
    <3>3. kin # {} /\ (i \in export.d.mentions => kin \cap corpus.mentions # {})
          /\ (i \in export.d.filed => kin \cap corpus.filed # {})
      BY <2>1, <2>3, <2>4, <3>1, <3>2, ImportPlaces
    <3> QED
      BY <3>2, <3>3
  <2>5. ASSUME HeaderAgrees(export), MessagesApart(export.lines)  PROVE Imported(corpus, export, last.to).c = corpus
    BY <2>1, <2>3, <2>5, ImportTwice
  <2>6. HeaderAgrees(export) <=> ~(export.header # <<>> /\ export.header # Counts(export))
    BY DEF HeaderAgrees
  <2> QED
    BY <2>2, <2>4, <2>5, <2>6 DEF ImportRestores
<1> QED
  BY <1>1, TransferInvariant, ImportInvariant, PTL

----------------------------------------------------------------------------
(* Records carried between agents: merging                                 *)

\* What a merge has written at the target, and where each record of the source is there.
RecsCarried(c, t, map, copied) ==
    /\ Len(c.recs) <= Len(t.recs) /\ \A i \in 1..Len(c.recs) : t.recs[i] = c.recs[i]
    /\ copied \subseteq DOMAIN map
    /\ \A i \in copied : map[i] > Len(c.recs) /\ t.recs[map[i]] = CopyFor(c.recs[i], "tgt")
    /\ \A i \in DOMAIN map : i \in RecsOf(c, "src") /\ map[i] \in RecsOf(t, "tgt")
    /\ \A i \in DOMAIN map : map[i] \in SameMsg(t, "tgt", c.recs[i]) \/ map[i] \in SameText(t, "tgt", c.recs[i])
    /\ \A i \in RecsOf(c, "src") : ~IsBlank(c.recs[i]) => i \in DOMAIN map
    /\ \A j \in 1..Len(t.recs) : j > Len(c.recs) => \E i \in copied : map[i] = j

\* What it has declared there, and whether all of the graph came along.
DeclaredAlong(c, t, map, complete) ==
    /\ t.profile["src"] = c.profile["src"] /\ (c.profile["tgt"] = 0 => t.profile["tgt"] = c.profile["src"])
    /\ t.entity["src"] = c.entity["src"]
    /\ complete /\ c.entity["src"].alias = "own" => t.entity["tgt"].alias = "own"
    /\ c.mentions \subseteq t.mentions /\ c.filed \subseteq t.filed /\ c.ties \subseteq t.ties
    /\ \A i \in DOMAIN map : (i \in c.mentions => map[i] \in t.mentions) /\ (i \in c.filed => map[i] \in t.filed)
    /\ \A x \in c.ties : x[1] \in DOMAIN map /\ x[2] \in DOMAIN map => <<map[x[1]], map[x[2]]>> \in t.ties

LEMMA MergeRecords ==
    ASSUME NEW c \in Table, NEW rows, rows = MergedRows(c, FALSE), NEW s, s = rows.c,
           NEW map, map = rows.tally.map, NEW copied, copied = rows.tally.copied
    PROVE  Longer(s, c) /\ RecsCarried(c, s, map, copied)
<1> DEFINE ids == Listed(c, "src")
           L == MergeLines(c)
           N == Len(L)
<1>1. Wet(rows, c, "tgt", L, N)
  BY MergeIsWet
<1>2. /\ N \in Nat /\ N = Len(ids)
      /\ \A n \in 1..N : L[n].id = ids[n] /\ L[n].rec = c.recs[ids[n]] /\ ids[n] \in RecsOf(c, "src")
      /\ \A i \in RecsOf(c, "src") : \E n \in 1..N : ids[n] = i
  <2>1. /\ N \in Nat /\ N = Len(ids)
        /\ \A n \in 1..N : L[n].id = ids[n] /\ L[n].rec = c.recs[ids[n]] /\ ids[n] \in RecsOf(c, "src")
    BY MergeLineFacts
  <2>2. \A a : \A i \in RecsOf(c, a) : \E n \in 1..Len(Listed(c, a)) : Listed(c, a)[n] = i
    BY ListedFacts
  <2>3. \A i \in RecsOf(c, "src") : \E n \in 1..Len(ids) : ids[n] = i
    BY <2>2
  <2> HIDE DEF ids, L
  <2> QED
    BY <2>1, <2>3
<1> HIDE DEF L, ids, N
<1>3. \A k \in Real(L, N) : k \in 1..N /\ L[k].id \in RecsOf(c, "src") /\ L[k].rec = c.recs[L[k].id]
  BY <1>2 DEF Real
<1>4. /\ \A i : i \in DOMAIN map <=> \E k \in Real(L, N) : L[k].id = i
      /\ copied \subseteq DOMAIN map /\ Longer(s, c)
      /\ \A k \in Real(L, N) : Placed(rows, c, "tgt", L[k], ApartBy(L))
      /\ \A j \in 1..Len(s.recs) : j > Len(c.recs) => \E k \in Real(L, N) : L[k].id \in copied /\ map[L[k].id] = j
  BY <1>1 DEF Wet
<1>6. ASSUME NEW i \in DOMAIN map
      PROVE  /\ i \in RecsOf(c, "src")
             /\ map[i] \in SameMsg(s, "tgt", c.recs[i]) \/ map[i] \in SameText(s, "tgt", c.recs[i])
             /\ i \in copied => map[i] > Len(c.recs) /\ s.recs[map[i]] = CopyFor(c.recs[i], "tgt")
  <2>1. PICK k \in Real(L, N) : L[k].id = i
    BY <1>4
  <2>2. Placed(rows, c, "tgt", L[k], ApartBy(L)) /\ L[k].rec = c.recs[i] /\ i \in RecsOf(c, "src")
    BY <1>3, <1>4, <2>1
  <2> QED
    BY <2>1, <2>2 DEF Placed
<1>7. \A i \in DOMAIN map : map[i] \in RecsOf(s, "tgt")
  <2>1. s \in Table
    BY <1>4 DEF Longer
  <2>2. \A a, r : SameMsg(s, a, r) \subseteq RecsOf(s, a) /\ SameText(s, a, r) \subseteq RecsOf(s, a)
    BY <2>1, IdFacts
  <2>3. \A r : SameMsg(s, "tgt", r) \subseteq RecsOf(s, "tgt") /\ SameText(s, "tgt", r) \subseteq RecsOf(s, "tgt")
    BY <2>2
  <2> QED
    BY <1>6, <2>3
<1>8. \A i \in RecsOf(c, "src") : ~IsBlank(c.recs[i]) => i \in DOMAIN map
  <2> TAKE i \in RecsOf(c, "src")
  <2> HAVE ~IsBlank(c.recs[i])
  <2>1. PICK n \in 1..N : ids[n] = i
    BY <1>2
  <2>2. L[n].id = i /\ n \in Real(L, N)
    BY <1>2, <2>1 DEF Real
  <2> QED
    BY <1>4, <2>2
<1>9. \A j \in 1..Len(s.recs) : j > Len(c.recs) => \E i \in copied : map[i] = j
  BY <1>4
<1>10. Len(c.recs) <= Len(s.recs) /\ \A i \in 1..Len(c.recs) : s.recs[i] = c.recs[i]
  BY <1>4 DEF Longer
<1> QED
  BY <1>4, <1>6, <1>7, <1>8, <1>9, <1>10 DEF RecsCarried

\* It is the records alone that this is about.
LEMMA RecsCarriedAlike ==
    ASSUME NEW c, NEW s, NEW t, NEW map, NEW copied, RecsCarried(c, s, map, copied), t.recs = s.recs
    PROVE  RecsCarried(c, t, map, copied)
<1>1. /\ \A a : RecsOf(t, a) = RecsOf(s, a)
      /\ \A a, r : SameMsg(t, a, r) = SameMsg(s, a, r) /\ SameText(t, a, r) = SameText(s, a, r)
  BY RecsDecide
<1>2. /\ RecsOf(t, "tgt") = RecsOf(s, "tgt")
      /\ \A r : SameMsg(t, "tgt", r) = SameMsg(s, "tgt", r) /\ SameText(t, "tgt", r) = SameText(s, "tgt", r)
  BY <1>1
<1> QED
  BY <1>2 DEF RecsCarried

LEMMA MergedProfileFacts ==
    ASSUME NEW c \in Table, NEW p, p = MergedProfile(c)
    PROVE  /\ p \in Table /\ p.recs = c.recs /\ p.entity = c.entity /\ p.mentions = c.mentions /\ p.ties = c.ties
           /\ p.folder = c.folder /\ p.filed = c.filed
           /\ p.profile["src"] = c.profile["src"] /\ (c.profile["tgt"] = 0 => p.profile["tgt"] = c.profile["src"])
<1> DEFINE profile == [c.profile EXCEPT !["tgt"] = IF @ = 0 THEN c.profile["src"] ELSE @]
<1>1. c = TableWith(c.recs, c.profile, c.entity, c.mentions, c.ties, c.folder, c.filed)
      /\ c.profile \in [Agents -> Nat]
  BY TableShape DEF Table
<1>2. p = [c EXCEPT !.profile = profile]
  BY <1>1 DEF MergedProfile, TableWith
<1>3. /\ profile \in [Agents -> Nat] /\ profile["src"] = c.profile["src"]
      /\ (c.profile["tgt"] = 0 => profile["tgt"] = c.profile["src"])
  BY <1>1 DEF Agents
<1> HIDE DEF profile
<1>4. p = TableWith(c.recs, profile, c.entity, c.mentions, c.ties, c.folder, c.filed)
  BY <1>1, <1>2 DEF TableWith
<1>5. p \in Table
  BY <1>3, <1>4 DEF Table, TableWith
<1> QED
  BY <1>3, <1>4, <1>5, TableReads

\* The alias of an entity carried along.
LEMMA AliasCarried ==
    ASSUME NEW p, p.entity \in [Agents -> Entities], NEW d, NEW map, NEW a \in Agents, NEW b \in Agents, a # b,
           NEW entity, entity = EntityTo(p, d, a)
    PROVE  /\ entity[b] = p.entity[b]
           /\ CarryGraph(p, d, map, a).complete /\ d.entity.alias = "own" => entity[a].alias = "own"
<1>1. entity[b] = p.entity[b]
  BY DEF EntityTo
<1>2. ASSUME CarryGraph(p, d, map, a).complete, d.entity.alias = "own"  PROVE entity[a].alias = "own"
  <2>1. ~(d.entity.alias = "own" /\ p.entity[a].alias = "rival")
    BY <1>2 DEF CarryGraph
  <2>2. p.entity[a].alias # "rival"
    BY <1>2, <2>1
  <2>3. PICK e : e = [named |-> p.entity[a].named \/ d.entity.named, alias |-> "own"]
    OBVIOUS
  <2>4. entity = [p.entity EXCEPT ![a] = e]
    BY <1>2, <2>2, <2>3 DEF EntityTo
  <2>5. entity[a] = e
    BY <2>4
  <2> QED
    BY <2>3, <2>5
<1> QED
  BY <1>1, <1>2

\* What the source declares, and what carrying it to the target makes of the tables.
OfSource(c)           == DeclaredOf(c, "src")
ToTarget(p, d, map)   == CarriedOnto(p, d, map, "tgt")
WholeGraph(p, d, map) == CarryGraph(p, d, map, "tgt").complete

\* Carrying everything of the source along declares it at the target.
LEMMA MergeDeclares ==
    ASSUME NEW c \in Table, NEW s, NEW map, NEW copied, Longer(s, c), RecsCarried(c, s, map, copied)
    PROVE  /\ ToTarget(MergedProfile(s), OfSource(c), map) \in Table
           /\ ToTarget(MergedProfile(s), OfSource(c), map).recs = s.recs
           /\ DeclaredAlong(c, ToTarget(MergedProfile(s), OfSource(c), map), map,
                            WholeGraph(MergedProfile(s), OfSource(c), map))
<1> PICK d, p : d = OfSource(c) /\ p = MergedProfile(s)
  OBVIOUS
<1> PICK t, complete : t = ToTarget(p, d, map) /\ complete = WholeGraph(p, d, map)
  OBVIOUS
<1>1. /\ s \in Table /\ s.profile = c.profile /\ s.entity = c.entity /\ s.mentions = c.mentions /\ s.ties = c.ties
      /\ s.folder = c.folder /\ s.filed = c.filed
  BY DEF Longer
<1>2. /\ p \in Table /\ p.recs = s.recs /\ p.entity = s.entity /\ p.mentions = s.mentions /\ p.ties = s.ties
      /\ p.filed = s.filed
      /\ p.profile["src"] = s.profile["src"] /\ (s.profile["tgt"] = 0 => p.profile["tgt"] = s.profile["src"])
  BY <1>1, MergedProfileFacts
<1> PICK a : a = "tgt"
  OBVIOUS
<1> PICK b : b = "src"
  OBVIOUS
<1>3. a \in Agents /\ b \in Agents /\ a # b /\ p.entity \in [Agents -> Entities]
  BY <1>2 DEF Agents, Table
<1>4. /\ t \in Table /\ t.recs = p.recs /\ t.profile = p.profile /\ t.entity = EntityTo(p, d, a)
      /\ t.mentions = MentionsTo(p, d, map, a) /\ t.ties = TiesTo(p, d, map, a)
      /\ t.filed = FiledTo(p, d, map, a)
  <2>1. t = CarriedOnto(p, d, map, a)
    BY DEF ToTarget
  <2> QED
    BY <1>2, <1>3, <2>1, CarriedTable
<1>5. /\ d.entity = c.entity[b] /\ \A i : (i \in d.mentions <=> i \in c.mentions /\ i \in RecsOf(c, b))
                                       /\ (i \in d.filed <=> i \in c.filed /\ i \in RecsOf(c, b))
      /\ \A x : x \in d.ties <=> x \in c.ties /\ x[1] \in RecsOf(c, b)
  BY DEF OfSource, DeclaredOf
<1>6. \A i \in DOMAIN map : i \in RecsOf(c, b) /\ Here(p, map, a, i)
  <2>1. \A i \in DOMAIN map : i \in RecsOf(c, b) /\ map[i] \in RecsOf(s, a)
    BY DEF RecsCarried
  <2>2. RecsOf(p, a) = RecsOf(s, a)
    BY <1>2, RecsDecide
  <2> QED
    BY <2>1, <2>2 DEF Here
<1>7. /\ t.entity[b] = p.entity[b]
      /\ complete /\ d.entity.alias = "own" => t.entity[a].alias = "own"
  <2>1. complete = CarryGraph(p, d, map, a).complete
    BY DEF WholeGraph
  <2> QED
    BY <1>3, <1>4, <2>1, AliasCarried
<1>8. c.mentions \subseteq t.mentions /\ c.filed \subseteq t.filed /\ c.ties \subseteq t.ties
  BY <1>1, <1>2, <1>4 DEF MentionsTo, FiledTo, TiesTo
<1>9. \A i \in DOMAIN map : (i \in c.mentions => map[i] \in t.mentions) /\ (i \in c.filed => map[i] \in t.filed)
  <2>1. ASSUME NEW i \in DOMAIN map, i \in c.mentions  PROVE map[i] \in t.mentions
    BY <1>4, <1>5, <1>6, <2>1 DEF MentionsTo
  <2>2. ASSUME NEW i \in DOMAIN map, i \in c.filed  PROVE map[i] \in t.filed
    <3>1. i \in d.filed /\ Here(p, map, a, i)
      BY <1>5, <1>6, <2>2
    <3>2. t.filed = p.filed \cup {map[j] : j \in {k \in d.filed : Here(p, map, a, k) /\ map[k] \notin p.filed}}
      BY <1>4 DEF FiledTo
    <3> QED
      BY <3>1, <3>2
  <2> QED
    BY <2>1, <2>2
<1>10. \A x \in c.ties : x[1] \in DOMAIN map /\ x[2] \in DOMAIN map => <<map[x[1]], map[x[2]]>> \in t.ties
  <2> SUFFICES ASSUME NEW x \in c.ties, x[1] \in DOMAIN map, x[2] \in DOMAIN map
               PROVE  <<map[x[1]], map[x[2]]>> \in t.ties
    OBVIOUS
  <2>1. x \in d.ties /\ Here(p, map, a, x[1]) /\ Here(p, map, a, x[2])
    BY <1>5, <1>6
  <2> QED
    BY <1>4, <2>1 DEF TiesTo
<1> QED
  BY <1>1, <1>2, <1>4, <1>5, <1>7, <1>8, <1>9, <1>10 DEF DeclaredAlong

\* What deleting records leaves.
LEMMA WithoutFacts ==
    ASSUME NEW c \in Table, NEW gone, NEW w, w = WithoutRecs(c, gone)
    PROVE  /\ w \in Table /\ Len(w.recs) = Len(c.recs)
           /\ \A i : i \in Ids(w) <=> i \in Ids(c) /\ i \notin gone
           /\ \A i \in Ids(c) : i \notin gone => w.recs[i] = c.recs[i]
           /\ w.profile = c.profile /\ w.entity = c.entity /\ w.folder = c.folder
           /\ w.mentions = c.mentions \ gone /\ w.filed = c.filed \ gone
           /\ w.ties = {t \in c.ties : t[1] \notin gone /\ t[2] \notin gone}
<1> DEFINE recs == [i \in DOMAIN c.recs |-> IF i \in gone THEN NoRec ELSE c.recs[i]]
           mentions == c.mentions \ gone
           filed == c.filed \ gone
           ties == {t \in c.ties : t[1] \notin gone /\ t[2] \notin gone}
<1>1. /\ c = TableWith(c.recs, c.profile, c.entity, c.mentions, c.ties, c.folder, c.filed)
      /\ c.recs \in Seq(Slot) /\ c.profile \in [Agents -> Nat] /\ c.entity \in [Agents -> Entities]
      /\ c.mentions \subseteq Nat /\ c.filed \subseteq Nat /\ c.ties \subseteq Nat \X Nat /\ c.folder \subseteq Agents
  BY TableShape DEF Table
<1>2. Len(c.recs) \in Nat /\ DOMAIN c.recs = 1..Len(c.recs) /\ \A i \in 1..Len(c.recs) : c.recs[i] \in Slot
  BY <1>1, LenProperties, ElementOfSeq
<1>3. recs \in [1..Len(c.recs) -> Slot]
  BY <1>2 DEF Slot
<1>4. recs \in Seq(Slot) /\ Len(recs) = Len(c.recs)
  <2> HIDE DEF recs
  <2> QED
    BY <1>2, <1>3, AsList
<1>5. \A i \in 1..Len(c.recs) : recs[i] = IF i \in gone THEN NoRec ELSE c.recs[i]
  BY <1>2
<1>6. ties \subseteq Nat \X Nat /\ mentions \subseteq Nat /\ filed \subseteq Nat
  BY <1>1
<1>7. w = [c EXCEPT !.recs = recs, !.mentions = mentions, !.filed = filed, !.ties = ties]
  BY DEF WithoutRecs
<1> HIDE DEF recs, mentions, filed, ties
<1>8. w = TableWith(recs, c.profile, c.entity, mentions, ties, c.folder, filed)
  BY <1>1, <1>7 DEF TableWith
<1>9. /\ w.recs = recs /\ w.profile = c.profile /\ w.entity = c.entity /\ w.mentions = mentions /\ w.ties = ties
      /\ w.folder = c.folder /\ w.filed = filed
  BY <1>8, TableReads
<1>10. w \in Table
  BY <1>1, <1>4, <1>6, <1>8 DEF Table, TableWith
<1>11. /\ \A i : i \in Ids(w) <=> i \in Ids(c) /\ i \notin gone
       /\ \A i \in Ids(c) : i \notin gone => w.recs[i] = c.recs[i]
  <2>1. DOMAIN w.recs = 1..Len(c.recs)
    BY <1>4, <1>9, LenProperties
  <2> QED
    BY <1>2, <1>5, <1>9, <2>1 DEF Ids
<1> QED
  BY <1>4, <1>9, <1>10, <1>11 DEF mentions, filed, ties

\* What a move deletes, and what it leaves alone.
LEMMA MovedFacts ==
    ASSUME NEW c \in Table, NEW was \in Table, NEW copied, NEW graph, NEW folders,
           NEW rest, rest = WithoutRecs(c, copied), NEW w, w = MovedAway(c, was, copied, graph, folders)
    PROVE  /\ w \in Table /\ w.recs = rest.recs /\ w.mentions = rest.mentions /\ w.ties = rest.ties /\ w.filed = rest.filed
           /\ w.profile["tgt"] = c.profile["tgt"]
           /\ w.profile["src"] = c.profile["src"] \/ was.profile["tgt"] = 0
           /\ w.entity["tgt"] = c.entity["tgt"]
           /\ w.entity["src"] = c.entity["src"] \/ graph
<1>1. rest \in Table /\ rest.profile = c.profile /\ rest.entity = c.entity /\ rest.folder = c.folder
  BY WithoutFacts
<1>2. /\ rest = TableWith(rest.recs, rest.profile, rest.entity, rest.mentions, rest.ties, rest.folder, rest.filed)
      /\ rest.recs \in Seq(Slot) /\ rest.profile \in [Agents -> Nat] /\ rest.entity \in [Agents -> Entities]
      /\ rest.mentions \subseteq Nat /\ rest.filed \subseteq Nat /\ rest.ties \subseteq Nat \X Nat
      /\ rest.folder \subseteq Agents
  BY <1>1, TableShape DEF Table
<1> DEFINE p == IF was.profile["tgt"] = 0 THEN 0 ELSE c.profile["src"]
           empty == RecsOf(rest, "src") = {} /\ p = 0
           e == IF empty /\ graph THEN [named |-> FALSE, alias |-> "none"] ELSE rest.entity["src"]
           profile == [rest.profile EXCEPT !["src"] = p]
           entity == [rest.entity EXCEPT !["src"] = e]
           folder == IF empty /\ folders THEN rest.folder \ {"src"} ELSE rest.folder
<1>3. w = [rest EXCEPT !.profile["src"] = p, !.entity["src"] = e, !.folder = folder]
  BY DEF MovedAway
<1>4. w = TableWith(rest.recs, profile, entity, rest.mentions, rest.ties, folder, rest.filed)
  <2> HIDE DEF p, e, folder
  <2> QED
    BY <1>2, <1>3 DEF TableWith
<1>5. "src" \in Agents /\ "tgt" \in Agents
  BY DEF Agents
<1>6. p \in Nat /\ (p = c.profile["src"] \/ was.profile["tgt"] = 0)
  BY <1>1, <1>2, <1>5
<1>7. profile \in [Agents -> Nat] /\ profile["src"] = p /\ profile["tgt"] = c.profile["tgt"]
  <2> HIDE DEF p
  <2> QED
    BY <1>1, <1>2, <1>5, <1>6
<1>8. e \in Entities /\ (e = c.entity["src"] \/ graph)
  <2>1. [named |-> FALSE, alias |-> "none"] \in Entities
    BY DEF Entities
  <2>2. rest.entity["src"] \in Entities
    BY <1>2, <1>5
  <2> HIDE DEF empty
  <2> QED
    BY <1>1, <2>1, <2>2
<1>9. entity \in [Agents -> Entities] /\ entity["src"] = e /\ entity["tgt"] = c.entity["tgt"]
  <2> HIDE DEF e
  <2> QED
    BY <1>1, <1>2, <1>5, <1>8
<1>10. folder \subseteq Agents
  BY <1>2
<1> HIDE DEF p, e, profile, entity, folder
<1>11. /\ w.recs = rest.recs /\ w.mentions = rest.mentions /\ w.ties = rest.ties /\ w.filed = rest.filed
       /\ w.profile = profile /\ w.entity = entity
  BY <1>4, TableReads
<1>12. w \in Table
  BY <1>2, <1>4, <1>7, <1>9, <1>10 DEF Table, TableWith
<1> QED
  BY <1>6, <1>7, <1>8, <1>9, <1>11, <1>12

\* Records deleted, with what is declared about them.
Thinned(t, w, gone) ==
    /\ Len(w.recs) = Len(t.recs)
    /\ \A i : i \in Ids(w) <=> i \in Ids(t) /\ i \notin gone
    /\ \A i \in Ids(t) : i \notin gone => w.recs[i] = t.recs[i]
    /\ w.mentions = t.mentions \ gone /\ w.filed = t.filed \ gone
    /\ w.ties = {x \in t.ties : x[1] \notin gone /\ x[2] \notin gone}

\* What stands at w for record i of b.
Heirs(b, w, i) ==
    {j \in Ids(w) : \/ j = i
                    \/ w.recs[j].agent = "tgt" /\ w.recs[j] = CopyFor(b.recs[i], "tgt")}
Twins(b, w, i) == Heirs(b, w, i) \cup SameMsg(w, "tgt", b.recs[i]) \cup SameText(w, "tgt", b.recs[i])

\* MergeLosesNothing of the tables b before and w after: of a record, of a tie, of the names.
KeepsRec(b, w, i) ==
    /\ Heirs(b, w, i) # {}
    /\ b.recs[i].agent = "tgt" => i \in Ids(w)
    /\ i \in b.mentions => Heirs(b, w, i) \cap w.mentions # {}
    /\ i \in b.filed => Heirs(b, w, i) \cap w.filed # {}
KeepsTie(b, w, x) ==
    \/ x \in w.ties
    \/ IsBlank(b.recs[x[1]]) \/ IsBlank(b.recs[x[2]])
    \/ \E u \in w.ties : u[1] \in Twins(b, w, x[1]) /\ u[2] \in Twins(b, w, x[2])
KeepsNames(b, w) ==
    /\ b.entity["src"].alias = "own" => \E a \in Agents : w.entity[a].alias = "own"
    /\ \E a \in Agents : w.profile[a] = b.profile["src"]
KeepsAll(b, w) == (\A i \in Ids(b) : KeepsRec(b, w, i)) /\ (\A x \in b.ties : KeepsTie(b, w, x)) /\ KeepsNames(b, w)

\* A merge only ever declares ties of one agent's own records.
TiesWithin(c) == \A x \in c.ties : x[1] \in RecsOf(c, "src") /\ x[2] \in RecsOf(c, "src")

\* Where a record carried is, once those copied are deleted or not.
LEMMA CarriedStays ==
    ASSUME NEW b \in Table, NEW t \in Table, NEW w \in Table, NEW map, NEW copied, NEW gone, gone \subseteq copied,
           RecsCarried(b, t, map, copied), Thinned(t, w, gone), NEW i \in DOMAIN map
    PROVE  /\ map[i] \in Ids(t) /\ map[i] \notin gone /\ map[i] \in Ids(w) /\ w.recs[map[i]] = t.recs[map[i]]
           /\ t.recs[map[i]].agent = "tgt" /\ map[i] \in Twins(b, w, i)
<1>1. /\ i \in RecsOf(b, "src") /\ map[i] \in RecsOf(t, "tgt")
      /\ map[i] \in SameMsg(t, "tgt", b.recs[i]) \/ map[i] \in SameText(t, "tgt", b.recs[i])
  BY DEF RecsCarried
<1>2. map[i] \in Ids(t) /\ t.recs[map[i]].agent = "tgt"
  BY <1>1 DEF RecsOf
<1>3. map[i] \notin gone
  <2> SUFFICES ASSUME map[i] \in gone  PROVE FALSE
    OBVIOUS
  <2>1. map[i] \in RecsOf(b, "src")
    BY DEF RecsCarried
  <2>2. map[i] \in Ids(b) /\ b.recs[map[i]].agent = "src"
    BY <2>1 DEF RecsOf
  <2>3. map[i] \in 1..Len(b.recs)
    BY <2>2, IdFacts
  <2>4. t.recs[map[i]] = b.recs[map[i]]
    BY <2>3 DEF RecsCarried
  <2> QED
    BY <1>2, <2>2, <2>4
<1>4. map[i] \in Ids(w) /\ w.recs[map[i]] = t.recs[map[i]]
  BY <1>2, <1>3 DEF Thinned
<1>5. map[i] \in RecsOf(w, "tgt")
  BY <1>2, <1>4 DEF RecsOf
<1>6. map[i] \in SameMsg(w, "tgt", b.recs[i]) \/ map[i] \in SameText(w, "tgt", b.recs[i])
  BY <1>1, <1>4, <1>5 DEF SameMsg, SameText
<1> QED
  BY <1>2, <1>3, <1>4, <1>6 DEF Twins

LEMMA MergeKeepsRecs ==
    ASSUME NEW b \in Table, NEW t \in Table, NEW w \in Table, NEW map, NEW copied, NEW gone, gone \subseteq copied,
           NEW complete, RecsCarried(b, t, map, copied), DeclaredAlong(b, t, map, complete), Thinned(t, w, gone),
           NEW i \in Ids(b)
    PROVE  KeepsRec(b, w, i)
<1>1. i \in 1..Len(b.recs) /\ b.recs[i] \in AnyRec /\ Len(b.recs) \in Nat /\ Len(t.recs) \in Nat
      /\ \A j \in 1..Len(t.recs) : t.recs[j] # NoRec => j \in Ids(t)
  BY IdFacts
<1>2. i \in Ids(t) /\ t.recs[i] = b.recs[i]
  <2>1. t.recs[i] = b.recs[i] /\ Len(b.recs) <= Len(t.recs)
    BY <1>1 DEF RecsCarried
  <2>2. b.recs[i] # NoRec
    BY <1>1, RecordFacts
  <2> QED
    BY <1>1, <2>1, <2>2
<1>3. b.mentions \subseteq t.mentions /\ b.filed \subseteq t.filed
  BY DEF DeclaredAlong
<1>4. CASE i \notin gone
  <2>1. i \in Heirs(b, w, i) /\ i \in Ids(w)
    BY <1>2, <1>4 DEF Thinned, Heirs
  <2>2. (i \in b.mentions => i \in w.mentions) /\ (i \in b.filed => i \in w.filed)
    BY <1>3, <1>4 DEF Thinned
  <2> QED
    BY <2>1, <2>2 DEF KeepsRec
<1>5. CASE i \in gone
  <2>1. i \in copied /\ i \in DOMAIN map /\ i \in RecsOf(b, "src") /\ t.recs[map[i]] = CopyFor(b.recs[i], "tgt")
    BY <1>5 DEF RecsCarried
  <2>2. map[i] \notin gone /\ map[i] \in Ids(w) /\ w.recs[map[i]] = t.recs[map[i]] /\ t.recs[map[i]].agent = "tgt"
    BY <2>1, CarriedStays
  <2>3. map[i] \in Heirs(b, w, i)
    BY <2>1, <2>2 DEF Heirs
  <2>4. (i \in b.mentions => map[i] \in t.mentions) /\ (i \in b.filed => map[i] \in t.filed)
    BY <2>1 DEF DeclaredAlong
  <2>5. (i \in b.mentions => map[i] \in w.mentions) /\ (i \in b.filed => map[i] \in w.filed)
    BY <2>2, <2>4 DEF Thinned
  <2>6. b.recs[i].agent = "src"
    BY <2>1 DEF RecsOf
  <2> QED
    BY <2>3, <2>5, <2>6 DEF KeepsRec
<1> QED
  BY <1>4, <1>5

LEMMA MergeKeepsTies ==
    ASSUME NEW b \in Table, NEW t \in Table, NEW w \in Table, NEW map, NEW copied, NEW gone, gone \subseteq copied,
           NEW complete, RecsCarried(b, t, map, copied), DeclaredAlong(b, t, map, complete), Thinned(t, w, gone),
           NEW x \in b.ties, x[1] \in RecsOf(b, "src") /\ x[2] \in RecsOf(b, "src")
    PROVE  KeepsTie(b, w, x)
<1> SUFFICES ASSUME ~IsBlank(b.recs[x[1]]), ~IsBlank(b.recs[x[2]])
             PROVE  \E u \in w.ties : u[1] \in Twins(b, w, x[1]) /\ u[2] \in Twins(b, w, x[2])
  BY DEF KeepsTie
<1>1. x[1] \in DOMAIN map /\ x[2] \in DOMAIN map
  BY DEF RecsCarried
<1>2. map[x[1]] \notin gone /\ map[x[1]] \in Twins(b, w, x[1])
  BY <1>1, CarriedStays
<1>3. map[x[2]] \notin gone /\ map[x[2]] \in Twins(b, w, x[2])
  BY <1>1, CarriedStays
<1>4. <<map[x[1]], map[x[2]]>> \in t.ties
  BY <1>1 DEF DeclaredAlong
<1>5. PICK u : u = <<map[x[1]], map[x[2]]>>
  OBVIOUS
<1>6. u \in t.ties /\ u[1] = map[x[1]] /\ u[2] = map[x[2]]
  BY <1>4, <1>5
<1>7. u \in w.ties
  BY <1>2, <1>3, <1>6 DEF Thinned
<1> QED
  BY <1>2, <1>3, <1>6, <1>7

\* The tables when everything of the source has been carried, and when a move has deleted
\* what it copied (DoMerge).
MergeTally(c)   == MergedRows(c, FALSE).tally
MergeBase(c)    == MergedProfile(MergedRows(c, FALSE).c)
AllCarried(c)   == CarriedOnto(MergeBase(c), DeclaredOf(c, "src"), MergeTally(c).map, "tgt")
GraphComplete(c) == CarryGraph(MergeBase(c), DeclaredOf(c, "src"), MergeTally(c).map, "tgt").complete
TreeComplete(c) ==
    CarryFolders(CarryGraph(MergeBase(c), DeclaredOf(c, "src"), MergeTally(c).map, "tgt").c,
                 DeclaredOf(c, "src"), MergeTally(c).map, "tgt").complete
AllMoved(c) == MovedAway(AllCarried(c), c, MergeTally(c).copied, GraphComplete(c), TreeComplete(c))

LEMMA CarriedFacts ==
    ASSUME NEW c \in Table, NEW map, map = MergeTally(c).map, NEW copied, copied = MergeTally(c).copied,
           NEW t, t = AllCarried(c), NEW complete, complete = GraphComplete(c)
    PROVE  t \in Table /\ RecsCarried(c, t, map, copied) /\ DeclaredAlong(c, t, map, complete)
<1>1. PICK rows, s, p, d : rows = MergedRows(c, FALSE) /\ s = rows.c /\ p = MergedProfile(s) /\ d = DeclaredOf(c, "src")
  OBVIOUS
<1>2. map = rows.tally.map /\ copied = rows.tally.copied
  BY <1>1 DEF MergeTally
<1>3. p = MergeBase(c)
  BY <1>1 DEF MergeBase
<1>4. t = ToTarget(p, d, map) /\ complete = WholeGraph(p, d, map) /\ d = OfSource(c)
  BY <1>1, <1>3 DEF AllCarried, GraphComplete, ToTarget, WholeGraph, OfSource
<1>5. Longer(s, c) /\ RecsCarried(c, s, map, copied)
  BY <1>1, <1>2, MergeRecords
<1>6. t \in Table /\ t.recs = s.recs /\ DeclaredAlong(c, t, map, complete)
  <2>1. /\ ToTarget(MergedProfile(s), OfSource(c), map) \in Table
        /\ ToTarget(MergedProfile(s), OfSource(c), map).recs = s.recs
        /\ DeclaredAlong(c, ToTarget(MergedProfile(s), OfSource(c), map), map,
                         WholeGraph(MergedProfile(s), OfSource(c), map))
    BY <1>5, MergeDeclares
  <2> QED
    BY <1>1, <1>4, <2>1
<1>7. RecsCarried(c, t, map, copied)
  BY <1>5, <1>6, RecsCarriedAlike
<1> QED
  BY <1>6, <1>7

\* Of a copy nothing is deleted, of a move what it copied.
LEMMA CopiedThins ==
    ASSUME NEW c \in Table, NEW w, w = AllCarried(c)
    PROVE  w \in Table /\ Thinned(AllCarried(c), w, {}) /\ KeepsNames(c, w)
<1> PICK map, copied, complete :
      map = MergeTally(c).map /\ copied = MergeTally(c).copied /\ complete = GraphComplete(c)
  OBVIOUS
<1>1. w \in Table /\ RecsCarried(c, w, map, copied) /\ DeclaredAlong(c, w, map, complete)
  BY CarriedFacts
<1>2. "src" \in Agents /\ "tgt" \in Agents
  BY DEF Agents
<1>3. Thinned(AllCarried(c), w, {})
  BY DEF Thinned
<1>4. KeepsNames(c, w)
  BY <1>1, <1>2 DEF KeepsNames, DeclaredAlong
<1> QED
  BY <1>1, <1>3, <1>4

LEMMA MovedThins ==
    ASSUME NEW c \in Table, NEW w, w = AllMoved(c)
    PROVE  w \in Table /\ Thinned(AllCarried(c), w, MergeTally(c).copied) /\ KeepsNames(c, w)
<1> PICK t, map, copied, complete, folders :
      /\ t = AllCarried(c) /\ map = MergeTally(c).map /\ copied = MergeTally(c).copied
      /\ complete = GraphComplete(c) /\ folders = TreeComplete(c)
  OBVIOUS
<1>1. t \in Table /\ RecsCarried(c, t, map, copied) /\ DeclaredAlong(c, t, map, complete)
  BY CarriedFacts
<1>2. "src" \in Agents /\ "tgt" \in Agents
  BY DEF Agents
<1>3. w = MovedAway(t, c, copied, complete, folders)
  BY DEF AllMoved
<1> PICK rest : rest = WithoutRecs(t, copied)
  OBVIOUS
<1>4. /\ w \in Table /\ w.recs = rest.recs /\ w.mentions = rest.mentions /\ w.ties = rest.ties /\ w.filed = rest.filed
      /\ w.profile["tgt"] = t.profile["tgt"]
      /\ w.profile["src"] = t.profile["src"] \/ c.profile["tgt"] = 0
      /\ w.entity["tgt"] = t.entity["tgt"]
      /\ w.entity["src"] = t.entity["src"] \/ complete
  BY <1>1, <1>3, MovedFacts
<1>5. /\ Len(rest.recs) = Len(t.recs)
      /\ \A i : i \in Ids(rest) <=> i \in Ids(t) /\ i \notin copied
      /\ \A i \in Ids(t) : i \notin copied => rest.recs[i] = t.recs[i]
      /\ rest.mentions = t.mentions \ copied /\ rest.filed = t.filed \ copied
      /\ rest.ties = {x \in t.ties : x[1] \notin copied /\ x[2] \notin copied}
  BY <1>1, WithoutFacts
<1>6. Ids(w) = Ids(rest)
  BY <1>4 DEF Ids
<1>7. Thinned(t, w, copied)
  BY <1>4, <1>5, <1>6 DEF Thinned
<1>8. c.entity["src"].alias = "own" => \E a \in Agents : w.entity[a].alias = "own"
  BY <1>1, <1>2, <1>4 DEF DeclaredAlong
<1>9. \E a \in Agents : w.profile[a] = c.profile["src"]
  BY <1>1, <1>2, <1>4 DEF DeclaredAlong
<1>10. KeepsNames(c, w)
  BY <1>8, <1>9 DEF KeepsNames
<1> QED
  BY <1>4, <1>7, <1>10

LEMMA MergeKeepsAll ==
    ASSUME NEW c \in Table, TiesWithin(c), NEW w, w = AllCarried(c) \/ w = AllMoved(c)
    PROVE  w \in Table /\ KeepsAll(c, w)
<1> PICK t, map, copied, complete :
      /\ t = AllCarried(c) /\ map = MergeTally(c).map /\ copied = MergeTally(c).copied /\ complete = GraphComplete(c)
  OBVIOUS
<1>1. t \in Table /\ RecsCarried(c, t, map, copied) /\ DeclaredAlong(c, t, map, complete)
  BY CarriedFacts
<1>2. w \in Table /\ KeepsNames(c, w)
  BY CopiedThins, MovedThins
<1>3. PICK gone : gone \subseteq copied /\ Thinned(t, w, gone)
  <2>1. Thinned(t, w, {}) \/ Thinned(t, w, copied)
    BY CopiedThins, MovedThins
  <2> QED
    BY <2>1
<1>4. \A i \in Ids(c) : KeepsRec(c, w, i)
  BY <1>1, <1>2, <1>3, MergeKeepsRecs
<1>5. \A x \in c.ties : KeepsTie(c, w, x)
  <2> TAKE x \in c.ties
  <2>1. x[1] \in RecsOf(c, "src") /\ x[2] \in RecsOf(c, "src")
    BY DEF TiesWithin
  <2> QED
    BY <1>1, <1>2, <1>3, <2>1, MergeKeepsTies
<1> QED
  BY <1>2, <1>4, <1>5 DEF KeepsAll

\* Another session's record takes nothing away.
LEMMA AddedFacts ==
    ASSUME NEW c \in Table, NEW r \in AnyRec, NEW w, w = Added(c, r)
    PROVE  /\ w \in Table /\ Len(w.recs) = Len(c.recs) + 1 /\ w.recs[Len(c.recs) + 1] = r
           /\ \A i : i \in Ids(w) <=> i \in Ids(c) \/ i = Len(c.recs) + 1
           /\ \A i \in Ids(c) : w.recs[i] = c.recs[i]
           /\ w.profile = c.profile /\ w.entity = c.entity /\ w.mentions = c.mentions /\ w.ties = c.ties
           /\ w.folder = c.folder /\ w.filed = c.filed
<1>1. /\ \A i : i \in Ids(w) <=> i \in Ids(c) \/ i = Len(c.recs) + 1
      /\ \A i \in Ids(c) : w.recs[i] = c.recs[i]
  BY AddedIds
<1> QED
  BY <1>1, AddedTable

LEMMA AddingKeepsAll ==
    ASSUME NEW b, NEW c \in Table, KeepsAll(b, c), NEW r \in AnyRec, NEW w, w = Added(c, r)
    PROVE  w \in Table /\ KeepsAll(b, w)
<1>1. /\ w \in Table /\ \A i \in Ids(c) : i \in Ids(w) /\ w.recs[i] = c.recs[i]
      /\ w.profile = c.profile /\ w.entity = c.entity /\ w.mentions = c.mentions /\ w.ties = c.ties /\ w.filed = c.filed
  BY AddedFacts
<1>2. \A i : Heirs(b, c, i) \subseteq Heirs(b, w, i)
  BY <1>1 DEF Heirs
<1>3. \A a : RecsOf(c, a) \subseteq RecsOf(w, a) /\ \A j \in RecsOf(c, a) : w.recs[j] = c.recs[j]
  BY <1>1 DEF RecsOf
<1>4. \A a, q : SameMsg(c, a, q) \subseteq SameMsg(w, a, q) /\ SameText(c, a, q) \subseteq SameText(w, a, q)
  BY <1>3 DEF SameMsg, SameText
<1>5. \A i : Twins(b, c, i) \subseteq Twins(b, w, i)
  BY <1>2, <1>4 DEF Twins
<1>6. \A i \in Ids(b) : KeepsRec(b, w, i)
  <2> TAKE i \in Ids(b)
  <2>1. KeepsRec(b, c, i)
    BY DEF KeepsAll
  <2>2. Heirs(b, c, i) \subseteq Heirs(b, w, i)
    BY <1>2
  <2>3. i \in Ids(c) => i \in Ids(w)
    BY <1>1
  <2> QED
    BY <1>1, <2>1, <2>2, <2>3 DEF KeepsRec
<1>7. \A x \in b.ties : KeepsTie(b, w, x)
  <2> TAKE x \in b.ties
  <2>1. KeepsTie(b, c, x)
    BY DEF KeepsAll
  <2>2. Twins(b, c, x[1]) \subseteq Twins(b, w, x[1]) /\ Twins(b, c, x[2]) \subseteq Twins(b, w, x[2])
    BY <1>5
  <2> QED
    BY <1>1, <2>1, <2>2 DEF KeepsTie
<1>8. KeepsNames(b, w)
  BY <1>1 DEF KeepsAll, KeepsNames
<1> QED
  BY <1>1, <1>6, <1>7, <1>8 DEF KeepsAll

\* Before a merge ties are within the source; after it everything is kept.
MergeInv ==
    /\ last.op = "none" => TiesWithin(corpus)
    /\ last.op \in {"copy", "move"} => corpus \in Table /\ KeepsAll(last.before, corpus)

LEMMA MergeInvInit == TransferInit => MergeInv
<1> SUFFICES ASSUME TransferInit  PROVE MergeInv
  OBVIOUS
<1>1. corpus.ties = {} /\ last.op = "none"
  BY DEF TransferInit, Nothing, NoLast
<1> QED
  BY <1>1 DEF MergeInv, TiesWithin

LEMMA OpenKeepsMergeInv == ASSUME OpenCorpus PROVE MergeInv'
<1>1. PICK recs \in UNION {[1..n -> Rec] : n \in 1..3}, declared \in BOOLEAN, rival \in BOOLEAN :
         corpus' = Opened(recs, {i \in DOMAIN recs : recs[i].agent = "src"}, declared, rival)
  BY DEF OpenCorpus
<1> DEFINE src == {i \in DOMAIN recs : recs[i].agent = "src"}
           ties == IF declared THEN {t \in src \X src : t[1] < t[2]} ELSE {}
<1>2. corpus'.recs = recs /\ corpus'.ties = ties
  <2> HIDE DEF src, ties
  <2>1. \E p, e, m, o, l : corpus' = [Nothing EXCEPT !.recs = recs, !.profile = p, !.entity = e, !.mentions = m,
                                                     !.ties = ties, !.folder = o, !.filed = l]
    BY <1>1 DEF Opened, src, ties
  <2> QED
    BY <2>1 DEF Nothing
<1>3. \A i \in src : i \in RecsOf(corpus', "src")
  <2>1. PICK n \in 1..3 : recs \in [1..n -> Rec]
    BY <1>1
  <2>2. \A i \in DOMAIN recs : recs[i] # NoRec
    BY <2>1, RecordFacts DEF AnyRec
  <2> QED
    BY <1>2, <2>2 DEF Ids, RecsOf
<1>4. \A t \in ties : t[1] \in src /\ t[2] \in src
  <2> HIDE DEF src
  <2> QED
    OBVIOUS
<1>5. TiesWithin(corpus')
  <2> HIDE DEF src, ties
  <2> QED
    BY <1>2, <1>3, <1>4 DEF TiesWithin
<1>6. last'.op = "none"
  BY DEF OpenCorpus, NoLast
<1>7. TiesWithin(corpus)'
  BY <1>5 DEF TiesWithin, RecsOf, Ids
<1> QED
  BY <1>6, <1>7 DEF MergeInv

LEMMA MergeMakesMergeInv == ASSUME TransferInv, MergeInv, NEW mode \in {"copy", "move"}, DoMerge(mode) PROVE MergeInv'
<1>1. /\ last.op = "none" /\ last' = Heard(mode, corpus, MergeTally(corpus), TRUE)
  BY DEF DoMerge, Heard, MergeTally
<1>2. corpus' = AllCarried(corpus) \/ corpus' = AllMoved(corpus)
  BY DEF DoMerge, AllCarried, AllMoved, MergeTally, MergeBase, GraphComplete, TreeComplete, CarriedOnto
<1>3. corpus \in Table /\ TiesWithin(corpus)
  BY <1>1 DEF TransferInv, MergeInv
<1>4. corpus' \in Table /\ KeepsAll(corpus, corpus')
  BY <1>2, <1>3, MergeKeepsAll
<1>5. last'.op = mode /\ last'.before = corpus
  BY <1>1 DEF Heard
<1> QED
  BY <1>4, <1>5 DEF MergeInv

LEMMA StoreKeepsMergeInv == ASSUME MergeInv, NEW a \in Agents, StoreMeanwhile(a) PROVE MergeInv'
<1>1. last.op \in {"copy", "move"} /\ UNCHANGED last /\ corpus' = Added(corpus, Newcomer(a))
  BY DEF StoreMeanwhile, Added
<1>2. corpus \in Table /\ KeepsAll(last.before, corpus) /\ Newcomer(a) \in AnyRec
  BY <1>1, RecordFacts DEF MergeInv
<1> PICK b, r : b = last.before /\ r = Newcomer(a)
  OBVIOUS
<1>3. corpus' \in Table /\ KeepsAll(b, corpus')
  BY <1>1, <1>2, AddingKeepsAll
<1> QED
  BY <1>1, <1>3 DEF MergeInv

LEMMA MergeInvStep == TransferInv /\ MergeInv /\ [TransferNext]_transferVars => MergeInv'
<1> SUFFICES ASSUME TransferInv, MergeInv, [TransferNext]_transferVars  PROVE MergeInv'
  OBVIOUS
<1>1. CASE DoExport
  <2>1. last.op = "none" /\ last' = [last EXCEPT !.op = "export", !.before = corpus] /\ HeardShape(last)
    BY <1>1 DEF DoExport, TransferInv
  <2> PICK l : l = [last EXCEPT !.op = "export"]
    OBVIOUS
  <2>2. HeardShape(l) /\ l.op = "export"
    BY <2>1, HeardOp
  <2>3. last' = [l EXCEPT !.before = corpus]
    BY <2>1
  <2>4. last'.op = "export"
    BY <2>2, <2>3, HeardBefore
  <2> QED
    BY <2>4 DEF MergeInv
<1>2. CASE DamageFile
  <2>1. last.op = "export" /\ last' = [last EXCEPT !.op = "damage"] /\ HeardShape(last)
    BY <1>2 DEF DamageFile, TransferInv
  <2>2. last'.op = "damage"
    BY <2>1, HeardOp
  <2> QED
    BY <2>2 DEF MergeInv
<1>3. CASE LoseSource
  <2>1. UNCHANGED last /\ last.op \in {"export", "damage"}
    BY <1>3 DEF LoseSource
  <2> QED
    BY <2>1 DEF MergeInv
<1>4. CASE \E a \in Agents : DoImport(a)
  <2>1. last'.op = "import"
    BY <1>4 DEF DoImport
  <2> QED
    BY <2>1 DEF MergeInv
<1>5. CASE Post
  <2>1. UNCHANGED corpus /\ (UNCHANGED last \/ last' = [last EXCEPT !.ok = FALSE])
    BY <1>5 DEF Post
  <2>2. last'.op = last.op /\ last'.before = last.before
    BY <2>1, HeardOk, HeardAtOk DEF TransferInv
  <2> QED
    BY <2>1, <2>2 DEF MergeInv, TiesWithin, RecsOf, Ids
<1>6. CASE UNCHANGED transferVars
  BY <1>6 DEF MergeInv, transferVars, TiesWithin, RecsOf, Ids
<1> QED
  BY <1>1, <1>2, <1>3, <1>4, <1>5, <1>6, OpenKeepsMergeInv, MergeMakesMergeInv, StoreKeepsMergeInv DEF TransferNext

LEMMA MergeInvariant == TransferSpec => []MergeInv
  BY MergeInvInit, MergeInvStep, TransferInvariant, PTL DEF TransferSpec

LEMMA MergesLoseNothing == TransferSpec => []MergeLosesNothing
<1>1. MergeInv => MergeLosesNothing
  <2> SUFFICES ASSUME MergeInv, last.op \in {"copy", "move"}  PROVE MergeLosesNothing
    BY DEF MergeLosesNothing
  <2>1. KeepsAll(Before, corpus)
    BY DEF MergeInv, Before
  <2>2. \A i : HeirsOf(i) = Heirs(Before, corpus, i)
    BY DEF HeirsOf, Heirs, CopyFor
  <2>3. \A i : TwinsOf(i) = Twins(Before, corpus, i)
    BY <2>2 DEF TwinsOf, Twins
  <2>4. ASSUME NEW i \in Ids(Before)
        PROVE  /\ HeirsOf(i) # {}
               /\ Before.recs[i].agent = "tgt" => i \in Ids(corpus)
               /\ i \in Before.mentions => HeirsOf(i) \cap corpus.mentions # {}
               /\ i \in Before.filed => HeirsOf(i) \cap corpus.filed # {}
    BY <2>1, <2>2 DEF KeepsAll, KeepsRec
  <2>5. ASSUME NEW t \in Before.ties
        PROVE  \/ t \in corpus.ties
               \/ IsBlank(Before.recs[t[1]]) \/ IsBlank(Before.recs[t[2]])
               \/ \E u \in corpus.ties : u[1] \in TwinsOf(t[1]) /\ u[2] \in TwinsOf(t[2])
    BY <2>1, <2>3 DEF KeepsAll, KeepsTie
  <2>6. KeepsNames(Before, corpus)
    BY <2>1 DEF KeepsAll
  <2> QED
    BY <2>4, <2>5, <2>6 DEF MergeLosesNothing, KeepsNames
<1> QED
  BY <1>1, MergeInvariant, PTL

----------------------------------------------------------------------------
(* Records carried between agents: the posts after the commit              *)

\* Records `new` were added to c, all of agent a.
GrownBy(c, w, new, a) ==
    /\ Len(c.recs) <= Len(w.recs) /\ \A i \in 1..Len(c.recs) : w.recs[i] = c.recs[i]
    /\ \A j : j \in new <=> j \in 1..Len(w.recs) /\ j > Len(c.recs)
    /\ new \subseteq RecsOf(w, a)

LEMMA GrownRecs ==
    ASSUME NEW c \in Table, NEW w \in Table, NEW new, NEW a, GrownBy(c, w, new, a)
    PROVE  \A b, i : i \in RecsOf(w, b) <=> i \in RecsOf(c, b) \/ (b = a /\ i \in new)
<1>1. /\ Len(c.recs) \in Nat /\ Len(w.recs) \in Nat /\ DOMAIN c.recs = 1..Len(c.recs) /\ DOMAIN w.recs = 1..Len(w.recs)
  BY IdFacts
<1>2. \A i : i \in Ids(w) <=> i \in Ids(c) \/ i \in new
  <2>1. ASSUME NEW i \in Ids(w), i \notin new  PROVE i \in Ids(c)
    BY <1>1, <2>1 DEF GrownBy, Ids
  <2>2. ASSUME NEW i \in Ids(c)  PROVE i \in Ids(w)
    BY <1>1, <2>2 DEF GrownBy, Ids
  <2>3. ASSUME NEW i \in new  PROVE i \in Ids(w)
    BY <2>3 DEF GrownBy, RecsOf
  <2> QED
    BY <2>1, <2>2, <2>3
<1>3. \A i \in Ids(c) : w.recs[i] = c.recs[i]
  BY <1>1 DEF GrownBy, Ids
<1>4. \A i \in new : w.recs[i].agent = a
  BY DEF GrownBy, RecsOf
<1> QED
  BY <1>2, <1>3, <1>4 DEF RecsOf

NewIds(map, copied) == {map[i] : i \in copied}

LEMMA WetGrows ==
    ASSUME NEW c \in Table, NEW s, NEW a, NEW L, NEW n, Wet(s, c, a, L, n),
           NEW t, t.recs = s.c.recs, NEW new, new = NewIds(s.tally.map, s.tally.copied)
    PROVE  GrownBy(c, t, new, a)
<1> PICK sc, map, copied : sc = s.c /\ map = s.tally.map /\ copied = s.tally.copied
  OBVIOUS
<1>1. /\ Longer(sc, c) /\ copied \subseteq DOMAIN map
      /\ \A i : i \in DOMAIN map <=> \E k \in Real(L, n) : L[k].id = i
      /\ \A j \in 1..Len(sc.recs) : j > Len(c.recs) => \E k \in Real(L, n) : L[k].id \in copied /\ map[L[k].id] = j
  BY DEF Wet
<1>2. \A k \in Real(L, n) : /\ map[L[k].id] \in SameMsg(sc, a, L[k].rec) \/ map[L[k].id] \in SameText(sc, a, L[k].rec)
                            /\ L[k].id \in copied => map[L[k].id] > Len(c.recs)
  BY DEF Wet, Placed
<1>3. sc \in Table
  BY <1>1 DEF Longer
<1>4. \A i \in copied : map[i] \in RecsOf(sc, a) /\ map[i] > Len(c.recs) /\ map[i] \in 1..Len(sc.recs)
  <2> TAKE i \in copied
  <2>1. PICK k \in Real(L, n) : L[k].id = i
    BY <1>1
  <2>2. map[i] \in RecsOf(sc, a)
    BY <1>2, <1>3, <2>1, IdFacts
  <2>3. map[i] \in 1..Len(sc.recs)
    BY <1>3, <2>2, IdFacts
  <2> QED
    BY <1>2, <2>1, <2>2, <2>3
<1>5. new = {map[i] : i \in copied} /\ t.recs = sc.recs
  BY DEF NewIds
<1>6. \A j : j \in new <=> j \in 1..Len(sc.recs) /\ j > Len(c.recs)
  <2>1. ASSUME NEW j \in new  PROVE j \in 1..Len(sc.recs) /\ j > Len(c.recs)
    BY <1>4, <1>5, <2>1
  <2>2. ASSUME NEW j \in 1..Len(sc.recs), j > Len(c.recs)  PROVE j \in new
    BY <1>1, <1>5, <2>2
  <2> QED
    BY <2>1, <2>2
<1>7. new \subseteq RecsOf(sc, a)
  BY <1>4, <1>5
<1>8. RecsOf(t, a) = RecsOf(sc, a)
  BY <1>5, RecsDecide
<1> QED
  BY <1>1, <1>5, <1>6, <1>7, <1>8 DEF GrownBy, Longer

\* What the remote index is to hold of agent a.
Follows(held, c, a) ==
    held \subseteq RecsOf(c, a) /\ \A i \in RecsOf(c, a) \ held : a = "src" /\ c.recs[i].msg = "new"

\* The posts still to be made, and what they will have made of the index: at most one for
\* the target and then one for the source, which alone is ever purged.
PostFits(p, c) == p.to \in Agents /\ (p.purge => p.to = "src") /\ p.drop \subseteq 1..Len(c.recs)
Settles(todo, held, c) ==
    \/ todo = <<>> /\ \A a \in Agents : Follows(held[a], c, a)
    \/ \E p : /\ todo = <<p>> /\ PostFits(p, c)
              /\ \A a \in Agents : Follows(IF p.to = a THEN Posted(p, held[a]) ELSE held[a], c, a)
    \/ \E p, q : /\ todo = <<p, q>> /\ PostFits(p, c) /\ PostFits(q, c) /\ p.to = "tgt" /\ q.to = "src"
                 /\ Follows(Posted(p, held["tgt"]), c, "tgt") /\ Follows(Posted(q, held["src"]), c, "src")

\* The next post, taken.
LEMMA PostSettles ==
    ASSUME NEW todo, NEW held, DOMAIN held = Agents, NEW c, Settles(todo, held, c), todo # <<>>,
           NEW now, now = [held EXCEPT ![Head(todo).to] = Posted(Head(todo), @)]
    PROVE  Settles(Tail(todo), now, c)
<1>1. ASSUME NEW p, todo = <<p>>, PostFits(p, c),
             \A a \in Agents : Follows(IF p.to = a THEN Posted(p, held[a]) ELSE held[a], c, a)
      PROVE  Settles(Tail(todo), now, c)
  <2>1. Head(todo) = p /\ Tail(todo) = <<>>
    BY <1>1
  <2>2. \A a \in Agents : now[a] = IF p.to = a THEN Posted(p, held[a]) ELSE held[a]
    BY <2>1
  <2> QED
    BY <1>1, <2>1, <2>2 DEF Settles
<1>2. ASSUME NEW p, NEW q, todo = <<p, q>>, PostFits(p, c), PostFits(q, c), p.to = "tgt", q.to = "src",
             Follows(Posted(p, held["tgt"]), c, "tgt"), Follows(Posted(q, held["src"]), c, "src")
      PROVE  Settles(Tail(todo), now, c)
  <2>1. Head(todo) = p /\ Tail(todo) = <<q>>
    BY <1>2
  <2>2. now["tgt"] = Posted(p, held["tgt"]) /\ now["src"] = held["src"]
    BY <1>2, <2>1 DEF Agents
  <2>3. \A a \in Agents : Follows(IF q.to = a THEN Posted(q, now[a]) ELSE now[a], c, a)
    <3>1. Follows(IF q.to = "tgt" THEN Posted(q, now["tgt"]) ELSE now["tgt"], c, "tgt")
      BY <1>2, <2>2
    <3>2. Follows(IF q.to = "src" THEN Posted(q, now["src"]) ELSE now["src"], c, "src")
      BY <1>2, <2>2
    <3> QED
      BY <3>1, <3>2 DEF Agents
  <2> QED
    BY <1>2, <2>1, <2>3 DEF Settles
<1> QED
  BY <1>1, <1>2 DEF Settles

\* Another session's record k, indexed as it is stored.
RecordAdded(c, w, a, k) ==
    /\ k = Len(c.recs) + 1 /\ Len(w.recs) = k /\ w.recs[k].agent = a /\ w.recs[k].msg = "new"
    /\ \A i : i \in Ids(w) <=> i \in Ids(c) \/ i = k
    /\ \A i \in Ids(c) : w.recs[i] = c.recs[i]
\* What of it shows in the index of agent b.
TakesIn(held, more, a, b, k) ==
    /\ b # a => more = held
    /\ b = a => held \subseteq more /\ more \subseteq held \cup {k} /\ (k \in more \/ b = "src")

LEMMA FollowsAdded ==
    ASSUME NEW c \in Table, NEW w, NEW a, NEW b, NEW k, RecordAdded(c, w, a, k),
           NEW held, NEW more, Follows(held, c, b), TakesIn(held, more, a, b, k)
    PROVE  Follows(more, w, b)
<1>1. w.recs[k].agent = a /\ w.recs[k].msg = "new" /\ k = Len(c.recs) + 1
      /\ (\A i : i \in Ids(w) <=> i \in Ids(c) \/ i = k) /\ \A i \in Ids(c) : w.recs[i] = c.recs[i]
  BY DEF RecordAdded
<1>2. Len(c.recs) \in Nat /\ \A i \in Ids(c) : i \in 1..Len(c.recs)
  BY IdFacts
<1>3. \A i : i \in RecsOf(w, b) <=> i \in RecsOf(c, b) \/ (i = k /\ b = a)
  BY <1>1 DEF RecsOf
<1>4. \A i \in RecsOf(c, b) : w.recs[i] = c.recs[i] /\ i # k
  BY <1>1, <1>2 DEF RecsOf
<1>5. more \subseteq RecsOf(w, b)
  BY <1>3 DEF Follows, TakesIn
<1>6. ASSUME NEW i \in RecsOf(w, b), i \notin more  PROVE b = "src" /\ w.recs[i].msg = "new"
  <2>1. CASE i \in RecsOf(c, b)
    <3>1. i \notin held
      BY <1>6 DEF TakesIn
    <3> QED
      BY <1>4, <2>1, <3>1 DEF Follows
  <2>2. CASE i = k /\ b = a
    BY <1>1, <1>6, <2>2 DEF TakesIn
  <2> QED
    BY <1>3, <2>1, <2>2
<1> QED
  BY <1>5, <1>6 DEF Follows

\* What a post makes of an index into which a record has meanwhile gone.
LEMMA PostedAfter ==
    ASSUME NEW p, NEW c, PostFits(p, c), Len(c.recs) \in Nat, NEW k, k = Len(c.recs) + 1, NEW held,
           NEW x, x = Posted(p, held), NEW y, y = Posted(p, held \cup {k})
    PROVE  x \subseteq y /\ y \subseteq x \cup {k} /\ (k \in y \/ p.to = "src")
  BY DEF Posted, PostFits

LEMMA StoreSettles ==
    ASSUME NEW todo, NEW held, DOMAIN held = Agents, NEW c \in Table, Settles(todo, held, c), NEW a \in Agents,
           NEW w, w = Added(c, Newcomer(a)), NEW now, now = [held EXCEPT ![a] = @ \cup {Len(c.recs) + 1}]
    PROVE  Settles(todo, now, w)
<1> PICK k : k = Len(c.recs) + 1
  OBVIOUS
<1>1. w \in Table /\ Len(w.recs) = k /\ RecordAdded(c, w, a, k)
  <2> PICK r : r = Newcomer(a)
    OBVIOUS
  <2>1. r \in AnyRec /\ r.agent = a /\ r.msg = "new"
    BY RecordFacts DEF Newcomer
  <2>2. /\ w \in Table /\ Len(w.recs) = k /\ w.recs[k] = r
        /\ \A i : i \in Ids(w) <=> i \in Ids(c) \/ i = k
        /\ \A i \in Ids(c) : w.recs[i] = c.recs[i]
    BY <2>1, AddedFacts
  <2> QED
    BY <2>1, <2>2 DEF RecordAdded
<1>2. Len(c.recs) \in Nat /\ \A p : PostFits(p, c) => PostFits(p, w)
  <2>1. Len(c.recs) \in Nat
    BY IdFacts
  <2>2. ASSUME NEW p, PostFits(p, c)  PROVE PostFits(p, w)
    <3>1. p.drop \subseteq 1..Len(w.recs)
      BY <1>1, <2>1, <2>2 DEF PostFits
    <3> QED
      BY <2>2, <3>1 DEF PostFits
  <2> QED
    BY <2>1, <2>2
<1>3. \A b \in Agents : (b # a => now[b] = held[b]) /\ (b = a => now[b] = held[b] \cup {k})
  OBVIOUS
<1> HIDE DEF Added
<1>4. ASSUME NEW b \in Agents, Follows(held[b], c, b)  PROVE Follows(now[b], w, b)
  <2>1. TakesIn(held[b], now[b], a, b, k)
    BY <1>3 DEF TakesIn
  <2> QED
    BY <1>1, <1>4, <2>1, FollowsAdded
<1>5. ASSUME NEW b \in Agents, NEW p, PostFits(p, c), p.to = b, Follows(Posted(p, held[b]), c, b)
      PROVE  Follows(Posted(p, now[b]), w, b)
  <2>1. b # a => Posted(p, now[b]) = Posted(p, held[b])
    BY <1>3
  <2>2. b = a => /\ Posted(p, held[b]) \subseteq Posted(p, now[b])
                 /\ Posted(p, now[b]) \subseteq Posted(p, held[b]) \cup {k}
                 /\ (k \in Posted(p, now[b]) \/ b = "src")
    BY <1>2, <1>3, <1>5, PostedAfter
  <2>3. TakesIn(Posted(p, held[b]), Posted(p, now[b]), a, b, k)
    BY <2>1, <2>2 DEF TakesIn
  <2> QED
    BY <1>1, <1>5, <2>3, FollowsAdded
<1>6. ASSUME todo = <<>>, \A b \in Agents : Follows(held[b], c, b)  PROVE Settles(todo, now, w)
  BY <1>4, <1>6 DEF Settles
<1>7. ASSUME NEW p, todo = <<p>>, PostFits(p, c),
             \A b \in Agents : Follows(IF p.to = b THEN Posted(p, held[b]) ELSE held[b], c, b)
      PROVE  Settles(todo, now, w)
  <2>1. \A b \in Agents : Follows(IF p.to = b THEN Posted(p, now[b]) ELSE now[b], w, b)
    BY <1>4, <1>5, <1>7
  <2> QED
    BY <1>2, <1>7, <2>1 DEF Settles
<1>8. ASSUME NEW p, NEW q, todo = <<p, q>>, PostFits(p, c), PostFits(q, c), p.to = "tgt", q.to = "src",
             Follows(Posted(p, held["tgt"]), c, "tgt"), Follows(Posted(q, held["src"]), c, "src")
      PROVE  Settles(todo, now, w)
  <2>1. "tgt" \in Agents /\ "src" \in Agents
    BY DEF Agents
  <2>2. Follows(Posted(p, now["tgt"]), w, "tgt") /\ Follows(Posted(q, now["src"]), w, "src")
    BY <1>5, <1>8, <2>1
  <2> QED
    BY <1>2, <1>8, <2>2 DEF Settles
<1> QED
  BY <1>6, <1>7, <1>8 DEF Settles

\* A post of what was added, and one of what was deleted.
AddPost(a, new) == [to |-> a, add |-> new, drop |-> {}, purge |-> FALSE]
DropPost(gone, empty) == [to |-> "src", add |-> {}, drop |-> gone, purge |-> empty]

LEMMA AddPostSettles ==
    ASSUME NEW c \in Table, NEW w \in Table, NEW a \in Agents, NEW new, GrownBy(c, w, new, a),
           NEW held, \A b \in Agents : held[b] = RecsOf(c, b)
    PROVE  Settles(<<AddPost(a, new)>>, held, w)
<1> PICK p : p = AddPost(a, new)
  OBVIOUS
<1>1. p.to = a /\ p.add = new /\ p.drop = {} /\ p.purge = FALSE
  BY DEF AddPost
<1>2. \A b, i : i \in RecsOf(w, b) <=> i \in RecsOf(c, b) \/ (b = a /\ i \in new)
  BY GrownRecs
<1>3. ASSUME NEW b \in Agents  PROVE Follows(IF p.to = b THEN Posted(p, held[b]) ELSE held[b], w, b)
  <2>1. Posted(p, held[b]) = held[b] \cup new
    BY <1>1 DEF Posted
  <2>2. \A i : i \in RecsOf(w, b) <=> i \in held[b] \/ (b = a /\ i \in new)
    BY <1>2
  <2>3. CASE b = a
    BY <1>1, <2>1, <2>2, <2>3 DEF Follows
  <2>4. CASE b # a
    BY <1>1, <2>2, <2>4 DEF Follows
  <2> QED
    BY <2>3, <2>4
<1>4. PostFits(p, w)
  BY <1>1 DEF PostFits
<1> QED
  BY <1>3, <1>4 DEF Settles

LEMMA CarriedGrows ==
    ASSUME NEW c, NEW t \in Table, NEW map, NEW copied, RecsCarried(c, t, map, copied),
           NEW new, new = NewIds(map, copied)
    PROVE  GrownBy(c, t, new, "tgt")
<1>1. \A i \in copied : map[i] \in RecsOf(t, "tgt") /\ map[i] > Len(c.recs)
  BY DEF RecsCarried
<1>2. RecsOf(t, "tgt") \subseteq 1..Len(t.recs)
  BY IdFacts DEF RecsOf
<1>3. new \subseteq RecsOf(t, "tgt")
  BY <1>1 DEF NewIds
<1>4. \A j : j \in new <=> j \in 1..Len(t.recs) /\ j > Len(c.recs)
  <2>1. ASSUME NEW j \in new  PROVE j \in 1..Len(t.recs) /\ j > Len(c.recs)
    BY <1>1, <1>2, <2>1 DEF NewIds
  <2>2. ASSUME NEW j \in 1..Len(t.recs), j > Len(c.recs)  PROVE j \in new
    <3>1. \E i \in copied : map[i] = j
      BY <2>2 DEF RecsCarried
    <3> QED
      BY <3>1 DEF NewIds
  <2> QED
    BY <2>1, <2>2
<1> QED
  BY <1>3, <1>4 DEF GrownBy, RecsCarried

\* The two posts of a move.
LEMMA MovePostsSettle ==
    ASSUME NEW c \in Table, NEW t \in Table, NEW w \in Table, NEW new, NEW copied, GrownBy(c, t, new, "tgt"),
           copied \subseteq RecsOf(c, "src"), Thinned(t, w, copied),
           NEW held, \A b \in Agents : held[b] = RecsOf(c, b), NEW empty, empty => RecsOf(w, "src") = {}
    PROVE  Settles(<<AddPost("tgt", new), DropPost(copied, empty)>>, held, w)
<1> PICK a, b : a = "tgt" /\ b = "src"
  OBVIOUS
<1> PICK p, q : p = AddPost(a, new) /\ q = DropPost(copied, empty)
  OBVIOUS
<1>1. p.to = a /\ p.add = new /\ p.drop = {} /\ p.purge = FALSE
  BY DEF AddPost
<1>2. q.to = b /\ q.add = {} /\ q.drop = copied /\ q.purge = empty
  BY DEF DropPost
<1>3. a # b /\ a \in Agents /\ b \in Agents
  BY DEF Agents
<1>4. \A x, i : i \in RecsOf(t, x) <=> i \in RecsOf(c, x) \/ (x = a /\ i \in new)
  BY GrownRecs
<1>5. \A x, i : i \in RecsOf(w, x) <=> i \in RecsOf(t, x) /\ i \notin copied
  BY DEF Thinned, RecsOf
<1>6. \A i \in copied : i \in RecsOf(t, b) /\ i \notin RecsOf(t, a)
  <2>1. \A i \in copied : i \in RecsOf(t, b)
    BY <1>4
  <2> QED
    BY <1>3, <2>1 DEF RecsOf
<1>7. Follows(Posted(p, held[a]), w, a)
  <2>1. Posted(p, held[a]) = held[a] \cup new
    BY <1>1 DEF Posted
  <2>2. held[a] = RecsOf(c, a)
    BY <1>3
  <2>3. \A i : i \in RecsOf(w, a) <=> i \in held[a] \cup new
    BY <1>4, <1>5, <1>6, <2>2
  <2> QED
    BY <2>1, <2>3 DEF Follows
<1>8. Follows(Posted(q, held[b]), w, b)
  <2>1. held[b] = RecsOf(c, b)
    BY <1>3
  <2>2. \A i : i \in RecsOf(w, b) <=> i \in held[b] /\ i \notin copied
    BY <1>3, <1>4, <1>5, <2>1
  <2>3. CASE empty
    <3>1. Posted(q, held[b]) = {} /\ RecsOf(w, b) = {}
      BY <1>2, <2>3 DEF Posted
    <3> QED
      BY <3>1 DEF Follows
  <2>4. CASE ~empty
    <3>1. Posted(q, held[b]) = (held[b] \ copied) \cup {}
      BY <1>2, <2>4 DEF Posted
    <3> QED
      BY <2>2, <3>1 DEF Follows
  <2> QED
    BY <2>3, <2>4
<1>9. PostFits(p, w) /\ PostFits(q, w)
  <2>1. copied \subseteq 1..Len(w.recs)
    <3>1. Len(w.recs) = Len(t.recs)
      BY DEF Thinned
    <3>2. RecsOf(t, b) \subseteq 1..Len(t.recs)
      BY IdFacts DEF RecsOf
    <3> QED
      BY <1>6, <3>1, <3>2
  <2> QED
    BY <1>1, <1>2, <1>3, <2>1 DEF PostFits
<1>10. PICK todo : todo = <<p, q>>
  OBVIOUS
<1>11. Settles(todo, held, w)
  BY <1>1, <1>2, <1>7, <1>8, <1>9, <1>10 DEF Settles
<1> QED
  BY <1>10, <1>11

\* A merge, in each of its modes, leaves posts that settle the index.
LEMMA MergeSettles ==
    ASSUME NEW c \in Table, NEW held, \A b \in Agents : held[b] = RecsOf(c, b),
           NEW map, map = MergeTally(c).map, NEW copied, copied = MergeTally(c).copied,
           NEW new, new = NewIds(map, copied)
    PROVE  /\ Settles(<<AddPost("tgt", new)>>, held, AllCarried(c))
           /\ Settles(<<AddPost("tgt", new), DropPost(copied, ~LeftAt(AllMoved(c), "src"))>>, held, AllMoved(c))
<1> PICK t, complete : t = AllCarried(c) /\ complete = GraphComplete(c)
  OBVIOUS
<1>1. t \in Table /\ RecsCarried(c, t, map, copied) /\ DeclaredAlong(c, t, map, complete)
  BY CarriedFacts
<1>2. GrownBy(c, t, new, "tgt")
  BY <1>1, CarriedGrows
<1>3. Settles(<<AddPost("tgt", new)>>, held, t)
  <2> PICK a : a = "tgt"
    OBVIOUS
  <2>1. a \in Agents /\ GrownBy(c, t, new, a)
    BY <1>2 DEF Agents
  <2>2. Settles(<<AddPost(a, new)>>, held, t)
    BY <1>1, <2>1, AddPostSettles
  <2> QED
    BY <2>2
<1>4. PICK w : w = AllMoved(c)
  OBVIOUS
<1>5. w \in Table /\ Thinned(t, w, copied)
  BY <1>1, <1>4, MovedThins
<1>6. copied \subseteq RecsOf(c, "src")
  BY <1>1 DEF RecsCarried
<1>7. PICK empty : empty = ~LeftAt(w, "src")
  OBVIOUS
<1>8. empty => RecsOf(w, "src") = {}
  BY <1>7 DEF LeftAt
<1>9. Settles(<<AddPost("tgt", new), DropPost(copied, empty)>>, held, w)
  BY <1>1, <1>2, <1>5, <1>6, <1>8, MovePostsSettle
<1> QED
  BY <1>3, <1>4, <1>7, <1>9

\* Until a merge or an import the index is as the table, and once one has committed what is
\* still to be posted makes it so, unless a post timed out.
RemoteInv ==
    /\ DOMAIN remote = Agents
    /\ last.op \in {"none", "export", "damage"} => posts = <<>> /\ \A a \in Agents : remote[a] = RecsOf(corpus, a)
    /\ last.op \in {"copy", "move", "import"} /\ last.ok => Settles(posts, remote, corpus)

LEMMA RemoteInvInit == TransferInit => RemoteInv
<1> SUFFICES ASSUME TransferInit  PROVE RemoteInv
  OBVIOUS
<1>1. corpus = Nothing /\ last.op = "none" /\ posts = <<>> /\ remote = [a \in Agents |-> {}]
  BY DEF TransferInit, NoLast
<1>2. \A a : RecsOf(corpus, a) = {}
  BY <1>1, NothingFacts DEF RecsOf
<1> QED
  BY <1>1, <1>2 DEF RemoteInv

LEMMA OnesMakePair == \A p, q : <<p>> \o <<q>> = <<p, q>>
<1> TAKE p, q
<1> DEFINE S == {p, q}
           s == <<p>> \o <<q>>
<1>1. <<p>> \in Seq(S) /\ <<q>> \in Seq(S) /\ Len(<<p>>) = 1 /\ Len(<<q>>) = 1 /\ <<p>>[1] = p /\ <<q>>[1] = q
  OBVIOUS
<1>2. s \in Seq(S) /\ Len(s) = 2 /\ s[1] = p /\ s[2] = q
  BY <1>1, ConcatProperties
<1>3. DOMAIN s = 1..2 /\ s = [i \in 1..2 |-> s[i]]
  BY <1>2
<1>4. <<p, q>> = [i \in 1..2 |-> <<p, q>>[i]]
  OBVIOUS
<1> HIDE DEF s
<1>5. \A i \in 1..2 : s[i] = <<p, q>>[i]
  BY <1>2
<1> QED
  BY <1>3, <1>4, <1>5 DEF s

LEMMA MergeKeepsRemoteInv ==
    ASSUME TransferInv, RemoteInv, NEW mode \in {"copy", "move"}, DoMerge(mode)
    PROVE  RemoteInv'
<1> PICK map, copied, new :
      map = MergeTally(corpus).map /\ copied = MergeTally(corpus).copied /\ new = NewIds(map, copied)
  OBVIOUS
<1>1. /\ last.op = "none" /\ last' = Heard(mode, corpus, MergeTally(corpus), TRUE) /\ UNCHANGED remote
  BY DEF DoMerge, Heard, MergeTally
<1>2. corpus \in Table /\ DOMAIN remote = Agents /\ \A a \in Agents : remote[a] = RecsOf(corpus, a)
  BY <1>1 DEF TransferInv, RemoteInv
<1>3. /\ Settles(<<AddPost("tgt", new)>>, remote, AllCarried(corpus))
      /\ Settles(<<AddPost("tgt", new), DropPost(copied, ~LeftAt(AllMoved(corpus), "src"))>>, remote, AllMoved(corpus))
  BY <1>2, MergeSettles
<1>4. CASE mode = "copy"
  <2>1. corpus' = AllCarried(corpus)
    BY <1>4 DEF DoMerge, AllCarried, MergeTally, MergeBase, CarriedOnto
  <2>2. posts' = <<AddPost("tgt", new)>> \o <<>>
    BY <1>4 DEF DoMerge, MergeTally, AddPost, NewIds
  <2>3. posts' = <<AddPost("tgt", new)>>
    BY <2>2
  <2>4. Settles(posts', remote', corpus')
    BY <1>1, <1>3, <2>1, <2>3
  <2> QED
    BY <1>1, <1>2, <1>4, <2>4 DEF RemoteInv, Heard
<1>5. CASE mode = "move"
  <2>1. corpus' = AllMoved(corpus)
    BY <1>5 DEF DoMerge, AllCarried, AllMoved, MergeTally, MergeBase, GraphComplete, TreeComplete, CarriedOnto
  <2>2. posts' = <<AddPost("tgt", new)>> \o <<DropPost(copied, ~LeftAt(AllMoved(corpus), "src"))>>
    BY <1>5 DEF DoMerge, AllCarried, AllMoved, MergeTally, MergeBase, GraphComplete, TreeComplete, CarriedOnto,
                AddPost, DropPost, NewIds
  <2>3. posts' = <<AddPost("tgt", new), DropPost(copied, ~LeftAt(AllMoved(corpus), "src"))>>
    <3>1. \A p, q : <<p>> \o <<q>> = <<p, q>>
      BY OnesMakePair
    <3> QED
      BY <2>2, <3>1
  <2>4. Settles(posts', remote', corpus')
    BY <1>1, <1>3, <2>1, <2>3
  <2> QED
    BY <1>1, <1>2, <1>5, <2>4 DEF RemoteInv, Heard
<1> QED
  BY <1>4, <1>5

LEMMA ImportGrows ==
    ASSUME NEW c \in Table, NEW a \in Agents, NEW f, f.lines \in Seq(FileLine), LinesApart(f.lines), f.profile \in Nat,
           NEW t, t = Imported(c, f, a).c, NEW y, y = Imported(c, f, a).tally,
           NEW new, new = NewIds(y.map, y.copied)
    PROVE  t \in Table /\ GrownBy(c, t, new, a)
<1> DEFINE rows == ImportedLines(c, FALSE, f, a)
           s == rows.c
           p == ImportedProfile(s, f, a)
           map == rows.tally.map
<1>1. Wet(rows, c, a, ImportLines(f), Len(f.lines))
  BY ImportIsWet DEF LinesApart
<1>2. y = rows.tally
  BY DEF Imported
<1> HIDE DEF rows
<1>3. s \in Table
  BY <1>1, StateTypes DEF Wet
<1>4. p \in Table /\ p.recs = s.recs
  <2> HIDE DEF s
  <2> QED
    BY <1>3, ProfileImported
<1>5. t = CarriedOnto(p, f.d, map, a)
  BY ImportedIs DEF rows
<1>6. t \in Table /\ t.recs = p.recs
  <2> HIDE DEF p, map
  <2> QED
    BY <1>4, <1>5, CarriedTable
<1>7. t.recs = rows.c.recs /\ new = NewIds(rows.tally.map, rows.tally.copied)
  BY <1>2, <1>4, <1>6
<1>8. GrownBy(c, t, new, a)
  BY <1>1, <1>7, WetGrows
<1> QED
  BY <1>6, <1>8

LEMMA ImportKeepsRemoteInv ==
    ASSUME TransferInv, ImportInv, RemoteInv, NEW a \in Agents, DoImport(a)
    PROVE  RemoteInv'
<1> PICK t, y : t = Imported(corpus, export, a).c /\ y = Imported(corpus, export, a).tally
  OBVIOUS
<1> PICK new : new = NewIds(y.map, y.copied)
  OBVIOUS
<1>1. /\ last.op \in {"export", "damage"} /\ UNCHANGED remote
      /\ last' = HeardAt("import", corpus, y, HeaderAgrees(export), a)
  BY DEF DoImport, HeardAt
<1>2. /\ corpus \in Table /\ export.lines \in Seq(FileLine) /\ LinesApart(export.lines) /\ export.profile \in Nat
      /\ DOMAIN remote = Agents /\ \A b \in Agents : remote[b] = RecsOf(corpus, b)
  BY <1>1, FileFields DEF TransferInv, ImportInv, RemoteInv
<1>3. t \in Table /\ GrownBy(corpus, t, new, a)
  BY <1>2, ImportGrows
<1>4. last'.op = "import" /\ (last'.ok <=> HeaderAgrees(export))
  BY <1>1 DEF HeardAt
<1>5. ASSUME HeaderAgrees(export)  PROVE Settles(posts', remote', corpus')
  <2>1. corpus' = t /\ posts' = <<AddPost(a, new)>>
    BY <1>5 DEF DoImport, AddPost, NewIds
  <2>2. Settles(<<AddPost(a, new)>>, remote, t)
    BY <1>2, <1>3, AddPostSettles
  <2> QED
    BY <1>1, <2>1, <2>2
<1> QED
  BY <1>1, <1>2, <1>4, <1>5 DEF RemoteInv

LEMMA LoseKeepsRemoteInv == ASSUME TransferInv, RemoteInv, LoseSource PROVE RemoteInv'
<1>1. /\ last.op \in {"export", "damage"} /\ UNCHANGED <<posts, last>>
      /\ remote' = [remote EXCEPT !["src"] = RecsOf(corpus', "src")]
  BY DEF LoseSource
<1>2. corpus \in Table /\ DOMAIN remote = Agents /\ posts = <<>> /\ \A a \in Agents : remote[a] = RecsOf(corpus, a)
  BY <1>1 DEF TransferInv, RemoteInv
<1>3. RecsOf(corpus', "tgt") = RecsOf(corpus, "tgt")
  <2> PICK gone, rest : gone = RecsOf(corpus, "src") /\ rest = WithoutRecs(corpus, gone)
    OBVIOUS
  <2>1. /\ rest \in Table
        /\ \A i : i \in Ids(rest) <=> i \in Ids(corpus) /\ i \notin gone
        /\ \A i \in Ids(corpus) : i \notin gone => rest.recs[i] = corpus.recs[i]
    BY <1>2, WithoutFacts
  <2>2. \A i : i \in RecsOf(rest, "tgt") <=> i \in RecsOf(corpus, "tgt")
    BY <2>1 DEF RecsOf
  <2>3. RecsOf(rest, "tgt") = RecsOf(corpus, "tgt")
    <3>1. RecsOf(rest, "tgt") \subseteq RecsOf(corpus, "tgt") /\ RecsOf(corpus, "tgt") \subseteq RecsOf(rest, "tgt")
      BY <2>2
    <3> QED
      BY <3>1
  <2>4. corpus'.recs = rest.recs \/ corpus'.recs = corpus.recs
    <3>1. ASSUME corpus' = [rest EXCEPT !.profile["src"] = 0, !.entity["src"] = [named |-> FALSE, alias |-> "none"],
                                        !.folder = @ \ {"src"}]
          PROVE  corpus'.recs = rest.recs
      <4>1. rest = TableWith(rest.recs, rest.profile, rest.entity, rest.mentions, rest.ties, rest.folder, rest.filed)
        BY <2>1, TableShape
      <4>2. \E p, e, o : corpus' = [rest EXCEPT !.profile = p, !.entity = e, !.folder = o]
        BY <3>1
      <4> QED
        BY <4>1, <4>2 DEF TableWith
    <3>2. ASSUME corpus' = [corpus EXCEPT !.profile["src"] = 2]  PROVE corpus'.recs = corpus.recs
      <4>1. corpus = TableWith(corpus.recs, corpus.profile, corpus.entity, corpus.mentions, corpus.ties,
                               corpus.folder, corpus.filed)
        BY <1>2, TableShape
      <4>2. \E p : corpus' = [corpus EXCEPT !.profile = p]
        BY <3>2
      <4> QED
        BY <4>1, <4>2 DEF TableWith
    <3> QED
      BY <3>1, <3>2 DEF LoseSource
  <2>5. CASE corpus'.recs = rest.recs
    <3>1. RecsOf(corpus', "tgt") = RecsOf(rest, "tgt")
      BY <2>5 DEF RecsOf, Ids
    <3> QED
      BY <2>3, <3>1
  <2>6. CASE corpus'.recs = corpus.recs
    BY <2>6 DEF RecsOf, Ids
  <2> QED
    BY <2>4, <2>5, <2>6
<1>4. \A a \in Agents : remote'[a] = RecsOf(corpus', a)
  BY <1>1, <1>2, <1>3 DEF Agents
<1>5. DOMAIN remote' = Agents /\ last'.op \in {"export", "damage"} /\ posts' = <<>>
  BY <1>1, <1>2
<1> QED
  BY <1>4, <1>5 DEF RemoteInv, RecsOf, Ids

LEMMA PostKeepsRemoteInv == ASSUME TransferInv, RemoteInv, Post PROVE RemoteInv'
<1>1. posts # <<>> /\ posts' = Tail(posts) /\ UNCHANGED corpus /\ last.op \notin {"none", "export", "damage"}
  BY DEF Post, RemoteInv
<1>2. CASE UNCHANGED last /\ remote' = [remote EXCEPT ![Head(posts).to] = Posted(Head(posts), @)]
  <2>1. DOMAIN remote = Agents /\ (last.op \in {"copy", "move", "import"} /\ last.ok => Settles(posts, remote, corpus))
    BY DEF RemoteInv
  <2>2. ASSUME Settles(posts, remote, corpus)  PROVE Settles(posts', remote', corpus')
    <3> PICK todo, held, c, now : todo = posts /\ held = remote /\ c = corpus /\ now = remote'
      OBVIOUS
    <3>1. now = [held EXCEPT ![Head(todo).to] = Posted(Head(todo), @)]
      BY <1>2
    <3>2. Settles(Tail(todo), now, c)
      BY <1>1, <2>1, <2>2, <3>1, PostSettles
    <3> QED
      BY <1>1, <3>2
  <2> QED
    BY <1>1, <1>2, <2>1, <2>2 DEF RemoteInv
<1>3. CASE remote' = remote /\ last' = [last EXCEPT !.ok = FALSE]
  <2>1. last'.op = last.op /\ last'.ok = FALSE
    BY <1>3, HeardOk, HeardAtOk DEF TransferInv
  <2> QED
    BY <1>1, <1>3, <2>1 DEF RemoteInv
<1> QED
  BY <1>2, <1>3 DEF Post

LEMMA StoreKeepsRemoteInv == ASSUME MergeInv, RemoteInv, NEW a \in Agents, StoreMeanwhile(a) PROVE RemoteInv'
<1>1. /\ last.op \in {"copy", "move"} /\ UNCHANGED <<posts, last>> /\ corpus' = Added(corpus, Newcomer(a))
      /\ remote' = [remote EXCEPT ![a] = @ \cup {Len(corpus.recs) + 1}]
  BY DEF StoreMeanwhile, Added
<1>2. corpus \in Table /\ DOMAIN remote = Agents
  BY <1>1 DEF MergeInv, RemoteInv
<1>3. ASSUME Settles(posts, remote, corpus)  PROVE Settles(posts', remote', corpus')
  <2> PICK todo, held, c, now, w : todo = posts /\ held = remote /\ c = corpus /\ now = remote' /\ w = corpus'
    OBVIOUS
  <2>1. w = Added(c, Newcomer(a)) /\ now = [held EXCEPT ![a] = @ \cup {Len(c.recs) + 1}]
    BY <1>1
  <2>2. Settles(todo, now, w)
    BY <1>2, <1>3, <2>1, StoreSettles
  <2> QED
    BY <1>1, <2>2
<1> QED
  BY <1>1, <1>2, <1>3 DEF RemoteInv

LEMMA RemoteInvStep ==
    TransferInv /\ ImportInv /\ MergeInv /\ RemoteInv /\ [TransferNext]_transferVars => RemoteInv'
<1> SUFFICES ASSUME TransferInv, ImportInv, MergeInv, RemoteInv, [TransferNext]_transferVars  PROVE RemoteInv'
  OBVIOUS
<1>1. CASE OpenCorpus
  <2>1. /\ last.op = "none" /\ UNCHANGED <<posts, last>> /\ remote' = [a \in Agents |-> RecsOf(corpus', a)]
    BY <1>1 DEF OpenCorpus, NoLast
  <2> QED
    BY <2>1 DEF RemoteInv, RecsOf, Ids
<1>2. CASE DoExport
  <2>1. last.op = "none" /\ last' = [last EXCEPT !.op = "export", !.before = corpus] /\ HeardShape(last)
        /\ UNCHANGED <<corpus, posts, remote>>
    BY <1>2 DEF DoExport, TransferInv
  <2> PICK l : l = [last EXCEPT !.op = "export"]
    OBVIOUS
  <2>2. HeardShape(l) /\ l.op = "export"
    BY <2>1, HeardOp
  <2>3. last' = [l EXCEPT !.before = corpus]
    BY <2>1
  <2>4. last'.op = "export"
    BY <2>2, <2>3, HeardBefore
  <2> QED
    BY <2>1, <2>4 DEF RemoteInv, RecsOf, Ids
<1>3. CASE DamageFile
  <2>1. last.op = "export" /\ last' = [last EXCEPT !.op = "damage"] /\ HeardShape(last)
        /\ UNCHANGED <<corpus, posts, remote>>
    BY <1>3 DEF DamageFile, TransferInv
  <2>2. last'.op = "damage"
    BY <2>1, HeardOp
  <2> QED
    BY <2>1, <2>2 DEF RemoteInv, RecsOf, Ids
<1>4. CASE UNCHANGED transferVars
  BY <1>4 DEF RemoteInv, transferVars, RecsOf, Ids
<1> QED
  BY <1>1, <1>2, <1>3, <1>4, MergeKeepsRemoteInv, ImportKeepsRemoteInv, LoseKeepsRemoteInv, PostKeepsRemoteInv,
     StoreKeepsRemoteInv DEF TransferNext

LEMMA RemoteInvariant == TransferSpec => []RemoteInv
  BY RemoteInvInit, RemoteInvStep, TransferInvariant, ImportInvariant, MergeInvariant, PTL DEF TransferSpec

LEMMA RemoteIsFollowed == TransferSpec => []RemoteFollowsMove
<1>1. RemoteInv => RemoteFollowsMove
  <2> SUFFICES ASSUME RemoteInv, posts = <<>>, last.op \in {"copy", "move", "import"}, last.ok
               PROVE  RemoteFollowsMove
    BY DEF RemoteFollowsMove
  <2>1. Settles(posts, remote, corpus)
    BY DEF RemoteInv
  <2>2. \A a \in Agents : Follows(remote[a], corpus, a)
    BY <2>1 DEF Settles
  <2> QED
    BY <2>2 DEF Follows, RemoteFollowsMove
<1> QED
  BY <1>1, RemoteInvariant, PTL

\* A merge loses no record, mention, tie, membership, alias or profile, whichever mode it runs
\* in, and once its posts are through, or an import's, the remote index has every record under
\* its own agent and none that left it (merge_memories, _delete_merged_source_rows,
\* _mirror_merge_remote and import_memories; a post that timed out is excepted).
THEOREM MergesAreComplete == TransferSpec => []MergeIsComplete
<1>1. MergeLosesNothing /\ RemoteFollowsMove => MergeIsComplete
  BY DEF MergeIsComplete
<1> QED
  BY <1>1, MergesLoseNothing, RemoteIsFollowed, PTL

=============================================================================
