------------------------------ MODULE Transfer ------------------------------
(***************************************************************************)
(* Records carried between agents and through files: export_memories,      *)
(* import_memories and merge_memories of cpersona/admin_handlers.py, the   *)
(* declared graph (associations.carry) and folders (folders.carry) that    *)
(* follow them, and the posts to the remote index after the commit.        *)
(*                                                                         *)
(* Two agents, one project, one entity and one folder each. A record is    *)
(* its kind, channel, text and message id; its other columns are copied    *)
(* verbatim. `ties` are relations between two records.                     *)
(***************************************************************************)
EXTENDS Integers, Sequences, FiniteSets, SequencesExt

CONSTANTS
    TransferTexts,      \* contents and summaries, "" among them
    Cut(_),     \* sanitize_content: what a text becomes on import
    Msgs,       \* message ids, "" (none) among them
    Chans,      \* channels
    MaxRecs,    \* bound: records ever stored
    NoRec       \* a deleted record

Agents == {"src", "tgt"}
Rec == {r \in [kind : {"mem", "ep"}, agent : Agents, chan : Chans, text : TransferTexts, msg : Msgs] :
           r.kind = "ep" => r.msg = ""}

\* What another session stores meanwhile, and all a table may hold.
Newcomer(a) == [kind |-> "mem", agent |-> a, chan |-> "", text |-> "new", msg |-> "new"]
AnyRec == Rec \cup {[r EXCEPT !.text = Cut(@)] : r \in Rec} \cup {Newcomer(a) : a \in Agents}

ASSUME TransferConstants == "" \in TransferTexts /\ "" \in Msgs /\ Cut("") = "" /\ MaxRecs \in Nat /\ NoRec \notin AnyRec

\* An entity of an agent and the one alias it may have ("rival": the alias names
\* another entity of that agent's scope).
Entities == [named : BOOLEAN, alias : {"none", "own", "rival"}]

VARIABLES
    corpus,   \* the tables: recs, profile, entity, mentions, ties, folder, filed
    export,   \* the export file
    posts,    \* what the handler still has to post after its commit
    remote,   \* the remote index: agent -> ids
    queuedBuilds,  \* derived builds queued
    last      \* history: the last handler that committed or aborted

transferVars == <<corpus, export, posts, remote, queuedBuilds, last>>

Ids(c)      == {i \in DOMAIN c.recs : c.recs[i] # NoRec}
RecsOf(c, a) == {i \in Ids(c) : c.recs[i].agent = a}

SameMsg(c, a, r)  == {j \in RecsOf(c, a) : r.kind = "mem" /\ r.msg # "" /\ c.recs[j].kind = "mem" /\ c.recs[j].msg = r.msg}
SameText(c, a, r) == {j \in RecsOf(c, a) : /\ c.recs[j].kind = r.kind
                                           /\ c.recs[j].chan = r.chan /\ c.recs[j].text = r.text}
First(S) == CHOOSE i \in S : \A j \in S : i <= j

InIdOrder(S) == [k \in 1..Cardinality(S) |-> CHOOSE i \in S : Cardinality({j \in S : j < i}) = k - 1]
\* An agent's memories, then its episodes.
Listed(c, a) == LET kind(k) == InIdOrder({i \in RecsOf(c, a) : c.recs[i].kind = k}) IN kind("mem") \o kind("ep")

\* Deleting a record takes its mentions, ties and membership with it (triggers).
WithoutRecs(c, gone) ==
    [c EXCEPT !.recs = [i \in DOMAIN c.recs |-> IF i \in gone THEN NoRec ELSE c.recs[i]],
              !.mentions = @ \ gone, !.filed = @ \ gone,
              !.ties = {t \in @ : t[1] \notin gone /\ t[2] \notin gone}]

----------------------------------------------------------------------------
(* Writing one record                                                      *)

\* _ImportTally and _MergeTally: the map from a record's old id to where it is now,
\* the ids written, the counts, and what a dry run has seen instead of stored.
NoTally == [map |-> <<>>, copied |-> {}, stored |-> 0, skipped |-> 0,
            seenMsg |-> {}, seenText |-> {}]

WithKnown(f, i, j) == [x \in DOMAIN f \cup {i} |-> IF x = i THEN j ELSE f[x]]

Skip(s, old, twins) ==
    [s EXCEPT !.tally.skipped = @ + 1,
              !.tally.map = WithKnown(@, old, IF twins = {} THEN old ELSE First(twins))]

\* Mutant of WriteRecord: rows written earlier in a dry run are not remembered.
WriteRecordForgetful(s, dry, a, old, r) ==
    LET byMsg == SameMsg(s.c, a, r) byText == SameText(s.c, a, r)
    IN  IF byMsg # {} THEN Skip(s, old, byMsg)
        ELSE IF byText # {} THEN Skip(s, old, byText)
        ELSE IF dry THEN [s EXCEPT !.tally.stored = @ + 1, !.tally.map = WithKnown(@, old, old)]
        ELSE [s EXCEPT !.c.recs = Append(@, [r EXCEPT !.agent = a]),
                       !.tally.copied = @ \cup {old}, !.tally.stored = @ + 1,
                       !.tally.map = WithKnown(@, old, Len(s.c.recs) + 1)]

\* Record r, known as `old`, for agent a: skipped when its message id, or else its
\* text in its bucket, is there already, written (or, in a dry run, remembered) if not.
WriteRecord(s, dry, a, old, r) ==
    LET byMsg == SameMsg(s.c, a, r)
        byText == SameText(s.c, a, r)
        textKey == <<r.kind, a, r.chan, r.text>>
        seenMsg == dry /\ r.msg # "" /\ <<a, r.msg>> \in s.tally.seenMsg
    IN  IF byMsg # {} \/ seenMsg THEN Skip(s, old, byMsg)
        ELSE IF byText # {} \/ (dry /\ textKey \in s.tally.seenText) THEN Skip(s, old, byText)
        ELSE IF dry THEN [s EXCEPT !.tally.stored = @ + 1, !.tally.map = WithKnown(@, old, old),
                                   !.tally.seenMsg = @ \cup (IF r.msg = "" THEN {} ELSE {<<a, r.msg>>}),
                                   !.tally.seenText = @ \cup {textKey}]
        ELSE [s EXCEPT !.c.recs = Append(@, [r EXCEPT !.agent = a]),
                       !.tally.copied = @ \cup {old}, !.tally.stored = @ + 1,
                       !.tally.map = WithKnown(@, old, Len(s.c.recs) + 1)]

----------------------------------------------------------------------------
(* What follows the records: the graph and the folders                     *)

\* What is declared about records: read_graph and read_tree of one agent, or the
\* corresponding lines of a file.
DeclaredOf(c, a) ==
    [entity |-> c.entity[a],
     mentions |-> c.mentions \cap RecsOf(c, a),
     ties |-> {t \in c.ties : t[1] \in RecsOf(c, a)},
     folder |-> a \in c.folder,
     filed |-> c.filed \cap RecsOf(c, a)]

\* associations.carry to agent a along the map. A mention or tie whose record the map
\* does not hold is dropped; an alias that names another entity there is too.
CarryGraph(c, d, map, a) ==
    LET here(i) == i \in DOMAIN map /\ map[i] \in RecsOf(c, a)
        kept == {i \in d.mentions : here(i)}
        tied == {t \in d.ties : here(t[1]) /\ here(t[2])}
        taken == d.entity.alias = "own" /\ c.entity[a].alias = "rival"
        entity == [named |-> c.entity[a].named \/ d.entity.named,
                   alias |-> IF d.entity.alias = "own" /\ ~taken THEN "own" ELSE c.entity[a].alias]
    IN  [c |-> [c EXCEPT !.entity[a] = entity,
                         !.mentions = @ \cup {map[i] : i \in kept},
                         !.ties = @ \cup {<<map[t[1]], map[t[2]]>> : t \in tied}],
         complete |-> kept = d.mentions /\ tied = d.ties /\ ~taken]

\* folders.carry: a record the target has filed already stays where it is.
CarryFolders(c, d, map, a) ==
    LET lands == {i \in d.filed : i \in DOMAIN map /\ map[i] \in RecsOf(c, a) \ c.filed}
    IN  [c |-> [c EXCEPT !.folder = IF d.folder THEN @ \cup {a} ELSE @,
                         !.filed = @ \cup {map[i] : i \in lands}],
         complete |-> lands = d.filed]

----------------------------------------------------------------------------
(* merge_memories                                                          *)

IsBlank(r) == r.text = ""

MergeRow(s, dry, i) == IF IsBlank(s.c.recs[i]) THEN s ELSE WriteRecord(s, dry, "tgt", i, s.c.recs[i])

MergedRows(c, dry) ==
    LET ids == Listed(c, "src")
        after[n \in 0..Len(ids)] == IF n = 0 THEN [c |-> c, tally |-> NoTally] ELSE MergeRow(after[n - 1], dry, ids[n])
    IN  after[Len(ids)]

\* A profile the target lacks is copied.
MergedProfile(c) == [c EXCEPT !.profile["tgt"] = IF @ = 0 THEN c.profile["src"] ELSE @]

\* Mutant of MovedAway: everything the merge read is deleted, skipped rows too.
MovedAwayAll(c, before, copied, graph, folders) ==
    LET rest == WithoutRecs(c, RecsOf(before, "src"))
    IN  [rest EXCEPT !.profile["src"] = 0, !.entity["src"] = [named |-> FALSE, alias |-> "none"],
                     !.folder = @ \ {"src"}]

\* _delete_merged_source_rows: only what was copied. The entity goes when nothing is
\* left and all of the graph came along, and so does the folder.
MovedAway(c, before, copied, graph, folders) ==
    LET rest == WithoutRecs(c, copied)
        profile == IF before.profile["tgt"] = 0 THEN 0 ELSE c.profile["src"]
        empty == RecsOf(rest, "src") = {} /\ profile = 0
    IN  [rest EXCEPT !.profile["src"] = profile,
                     !.entity["src"] = IF empty /\ graph THEN [named |-> FALSE, alias |-> "none"] ELSE @,
                     !.folder = IF empty /\ folders THEN @ \ {"src"} ELSE @]

\* left_at_source: whether the source keeps anything.
LeftAt(c, a) == RecsOf(c, a) # {} \/ c.profile[a] # 0 \/ c.entity[a].named

DoMerge(mode) ==
    LET d == DeclaredOf(corpus, "src")
        rows == MergedRows(corpus, FALSE)
        graph == CarryGraph(MergedProfile(rows.c), d, rows.tally.map, "tgt")
        tree == CarryFolders(graph.c, d, rows.tally.map, "tgt")
        after == IF mode = "copy" THEN tree.c
                 ELSE MovedAway(tree.c, corpus, rows.tally.copied, graph.complete, tree.complete)
        new == {rows.tally.map[i] : i \in rows.tally.copied}
    IN  /\ posts = <<>> /\ last.op = "none"
        /\ Len(rows.c.recs) <= MaxRecs
        /\ corpus' = after
        /\ posts' = <<[to |-> "tgt", add |-> new, drop |-> {}, purge |-> FALSE]>>
                    \o (IF mode = "copy" THEN <<>>
                        ELSE <<[to |-> "src", add |-> {}, drop |-> rows.tally.copied,
                                purge |-> ~LeftAt(after, "src")]>>)
        /\ queuedBuilds' = queuedBuilds \cup new
        /\ last' = [op |-> mode, before |-> corpus, tally |-> rows.tally, ok |-> TRUE]
        /\ UNCHANGED <<export, remote>>

----------------------------------------------------------------------------
(* export_memories and import_memories                                     *)

\* The file: record lines (memories, then episodes), a profile, the declarations,
\* and the header's counts of them.
NoExport == [lines |-> <<>>, profile |-> 0, d |-> <<>>, header |-> <<>>]

Counts(f) == <<Len(f.lines), f.profile # 0, Cardinality(f.d.mentions), Cardinality(f.d.ties),
               Cardinality(f.d.filed), f.d.entity.named, f.d.folder>>

\* One read snapshot, written beside the file and renamed over it.
DoExport ==
    LET ids == Listed(corpus, "src")
        f == [NoExport EXCEPT !.lines = [n \in DOMAIN ids |-> [id |-> ids[n], rec |-> corpus.recs[ids[n]]]],
                              !.profile = corpus.profile["src"], !.d = DeclaredOf(corpus, "src")]
    IN  /\ posts = <<>> /\ last.op = "none" /\ export = NoExport
        /\ Ids(corpus) # {}
        /\ export' = [f EXCEPT !.header = Counts(f)]
        /\ last' = [last EXCEPT !.op = "export", !.before = corpus]
        /\ UNCHANGED <<corpus, posts, remote, queuedBuilds>>

\* The file is cut short or loses a line on the way, its header perhaps. (A line that
\* does not parse is reported and not counted, which comes to the same.)
DamageFile ==
    /\ export.header # <<>> /\ last.op = "export"
    /\ \/ /\ export.lines # <<>>
          /\ \E n \in DOMAIN export.lines : export' = [export EXCEPT !.lines = RemoveAt(@, n)]
       \/ export.d.filed # {} /\ \E i \in export.d.filed : export' = [export EXCEPT !.d.filed = @ \ {i}]
       \/ export' = [export EXCEPT !.header = <<>>]
    /\ last' = [last EXCEPT !.op = "damage"]
    /\ UNCHANGED <<corpus, posts, remote, queuedBuilds>>

\* The exported agent's records are gone by the time of the import (delete_agent_data),
\* or only their profile has been rewritten since.
LoseSource ==
    /\ last.op \in {"export", "damage"} /\ RecsOf(corpus, "src") # {} /\ corpus = last.before
    /\ \/ corpus' = [WithoutRecs(corpus, RecsOf(corpus, "src")) EXCEPT
                        !.profile["src"] = 0, !.entity["src"] = [named |-> FALSE, alias |-> "none"],
                        !.folder = @ \ {"src"}]
       \/ corpus' = [corpus EXCEPT !.profile["src"] = 2]
    /\ remote' = [remote EXCEPT !["src"] = RecsOf(corpus', "src")]
    /\ UNCHANGED <<export, posts, queuedBuilds, last>>

ImportLine(s, dry, a, line) ==
    LET r == [line.rec EXCEPT !.text = Cut(@)]
    IN  IF IsBlank(r) THEN [s EXCEPT !.tally.skipped = IF r.kind = "mem" THEN @ + 1 ELSE @]
        ELSE WriteRecord(s, dry, a, line.id, r)

ImportedLines(c, dry, f, a) ==
    LET after[n \in 0..Len(f.lines)] == IF n = 0 THEN [c |-> c, tally |-> NoTally]
                                        ELSE ImportLine(after[n - 1], dry, a, f.lines[n])
    IN  after[Len(f.lines)]

\* A stored profile newer than the file's is kept.
ImportedProfile(c, f, a) ==
    [c EXCEPT !.profile[a] = IF f.profile = 0 \/ @ > f.profile THEN @ ELSE f.profile]

\* Mutant of HeaderAgrees: only the record counts are compared.
HeaderAgreesOnRecords(f) == f.header = <<>> \/ f.header[1] = Len(f.lines)

\* _validate_file_header: a file without a header is taken as it is.
HeaderAgrees(f) == f.header = <<>> \/ f.header = Counts(f)

Imported(c, f, a) ==
    LET rows == ImportedLines(c, FALSE, f, a)
        graph == CarryGraph(ImportedProfile(rows.c, f, a), f.d, rows.tally.map, a)
    IN  [c |-> CarryFolders(graph.c, f.d, rows.tally.map, a).c, tally |-> rows.tally]

\* target_agent_id a, or the file's own agent when a is "src". Import queues no
\* derived builds; a mismatch with the header rolls everything back.
DoImport(a) ==
    LET out == Imported(corpus, export, a)
        kept == HeaderAgrees(export)
    IN  /\ posts = <<>> /\ export # NoExport /\ last.op \in {"export", "damage"}
        /\ Len(out.c.recs) <= MaxRecs
        /\ corpus' = IF kept THEN out.c ELSE corpus
        /\ posts' = IF kept THEN <<[to |-> a, add |-> {out.tally.map[i] : i \in out.tally.copied},
                                    drop |-> {}, purge |-> FALSE]>> ELSE <<>>
        /\ last' = [op |-> "import", before |-> corpus, tally |-> out.tally, ok |-> kept, to |-> a]
        /\ UNCHANGED <<export, remote, queuedBuilds>>

----------------------------------------------------------------------------
(* After the commit, and what happens meanwhile                            *)

\* What a namespace of the remote index holds once it has taken a post.
Posted(p, held) == IF p.purge THEN {} ELSE (held \ p.drop) \cup p.add

\* The next post; one that times out is logged and passed over.
Post ==
    /\ posts # <<>>
    /\ LET p == Head(posts)
       IN  \/ remote' = [remote EXCEPT ![p.to] = Posted(p, @)]
              /\ UNCHANGED last
           \/ remote' = remote /\ last' = [last EXCEPT !.ok = FALSE]
    /\ posts' = Tail(posts)
    /\ UNCHANGED <<corpus, export, queuedBuilds>>

\* Another session stores a record, its post included, while the merge still posts.
StoreMeanwhile(a) ==
    /\ posts # <<>> /\ last.op \in {"copy", "move"} /\ Len(corpus.recs) < MaxRecs
    /\ ~\E i \in Ids(corpus) : corpus.recs[i].msg = "new"
    /\ corpus' = [corpus EXCEPT !.recs = Append(@, Newcomer(a))]
    /\ remote' = [remote EXCEPT ![a] = @ \cup {Len(corpus.recs) + 1}]
    /\ UNCHANGED <<export, posts, queuedBuilds, last>>

\* A corpus some history of stores and declarations has left, its records indexed.
\* (Ids order the records of one agent; between agents the order does not matter.)
NoEntity == [named |-> FALSE, alias |-> "none"]
Nothing == [recs |-> <<>>, profile |-> [a \in Agents |-> 0],
            entity |-> [a \in Agents |-> NoEntity],
            mentions |-> {}, ties |-> {}, folder |-> {}, filed |-> {}]
NoLast == [op |-> "none", before |-> Nothing, tally |-> NoTally, ok |-> TRUE]

Opened(recs, src, declared, rival) ==
    [Nothing EXCEPT
        !.recs = recs, !.profile = [a \in Agents |-> IF a = "src" \/ rival THEN 1 ELSE 0],
        !.entity = [a \in Agents |->
            IF a = "src" /\ declared THEN [named |-> TRUE, alias |-> "own"]
            ELSE IF a = "tgt" /\ rival THEN [named |-> FALSE, alias |-> "rival"] ELSE NoEntity],
        !.mentions = IF declared THEN src ELSE {},
        !.ties = IF declared THEN {t \in src \X src : t[1] < t[2]} ELSE {},
        !.folder = IF declared THEN {"src"} ELSE {}, !.filed = IF declared THEN src ELSE {}]

OpenCorpus ==
    /\ corpus = Nothing /\ last = NoLast
    /\ \E recs \in UNION {[1..n -> Rec] : n \in 1..3}, declared \in BOOLEAN, rival \in BOOLEAN :
          LET src == {i \in DOMAIN recs : recs[i].agent = "src"}
          IN  /\ src # {} /\ \A i \in src : i..Len(recs) \subseteq src
              /\ corpus' = Opened(recs, src, declared, rival)
    /\ remote' = [a \in Agents |-> RecsOf(corpus', a)]
    /\ UNCHANGED <<export, posts, queuedBuilds, last>>

TransferInit ==
    /\ corpus = Nothing /\ export = NoExport /\ posts = <<>>
    /\ remote = [a \in Agents |-> {}] /\ queuedBuilds = {} /\ last = NoLast

TransferNext ==
    \/ OpenCorpus
    \/ DoMerge("copy") \/ DoMerge("move")
    \/ DoExport \/ DamageFile \/ LoseSource
    \/ \E a \in Agents : DoImport(a) \/ StoreMeanwhile(a)
    \/ Post

TransferSpec == TransferInit /\ [][TransferNext]_transferVars

----------------------------------------------------------------------------
(* Properties                                                              *)

Before == last.before

\* Record i of the earlier corpus stands for j now: itself, or its equal at the target.
HeirsOf(i) ==
    LET r == Before.recs[i]
    IN  {j \in Ids(corpus) : \/ j = i
                             \/ corpus.recs[j].agent = "tgt" /\ corpus.recs[j] = [r EXCEPT !.agent = "tgt"]}
\* ... or the record at the target that made it superfluous.
TwinsOf(i) == HeirsOf(i) \cup SameMsg(corpus, "tgt", Before.recs[i]) \cup SameText(corpus, "tgt", Before.recs[i])

\* A merge loses nothing: every record of the source is at the target or still where it
\* was (one skipped for its message id too, whose text may differ), the target's own are
\* untouched, and mentions, ties, memberships, the alias and the profile are declared
\* where their record now is.
MergeLosesNothing ==
    last.op \in {"copy", "move"} =>
        /\ \A i \in Ids(Before) :
              /\ HeirsOf(i) # {}
              /\ Before.recs[i].agent = "tgt" => i \in Ids(corpus)
              /\ i \in Before.mentions => HeirsOf(i) \cap corpus.mentions # {}
              /\ i \in Before.filed => HeirsOf(i) \cap corpus.filed # {}
        /\ \A t \in Before.ties :
              \/ t \in corpus.ties
              \/ IsBlank(Before.recs[t[1]]) \/ IsBlank(Before.recs[t[2]])
              \/ \E u \in corpus.ties : u[1] \in TwinsOf(t[1]) /\ u[2] \in TwinsOf(t[2])
        /\ Before.entity["src"].alias = "own" => \E a \in Agents : corpus.entity[a].alias = "own"
        /\ \E a \in Agents : corpus.profile[a] = Before.profile["src"]

\* No two memories of a file have the same message id, as the table's unique index keeps
\* them apart; it is made with best effort only (_ensure_dedup_indexes).
MessagesApart(lines) ==
    \A m, n \in DOMAIN lines :
        m # n /\ lines[m].rec.kind = "mem" /\ lines[n].rec.kind = "mem" /\ lines[m].rec.msg # ""
            => lines[m].rec.msg # lines[n].rec.msg

\* An import that went through put every record of the file that is not blank under its
\* message id or its text, with its declarations, and (of a file whose message ids are
\* apart) a second one would change nothing; an import of a file that lost a line its
\* header counts changed nothing.
ImportRestores ==
    last.op = "import" =>
        IF export.header # <<>> /\ export.header # Counts(export) THEN corpus = Before
        ELSE /\ \A n \in DOMAIN export.lines :
                   LET r == [export.lines[n].rec EXCEPT !.text = Cut(@)]
                       here == SameMsg(corpus, last.to, r) \cup SameText(corpus, last.to, r)
                   IN  IsBlank(r) \/ /\ here # {}
                                     /\ export.lines[n].id \in export.d.mentions => here \cap corpus.mentions # {}
                                     /\ export.lines[n].id \in export.d.filed => here \cap corpus.filed # {}
             /\ MessagesApart(export.lines) => Imported(corpus, export, last.to).c = corpus

\* What a dry run reports (records written and skipped) is what the run would do.
DryRunPredicts ==
    /\ last.op \in {"copy", "move"} =>
          LET dry == MergedRows(Before, TRUE).tally
          IN  dry.stored = last.tally.stored /\ dry.skipped = last.tally.skipped
    /\ last.op = "import" =>
          LET dry == ImportedLines(Before, TRUE, export, last.to).tally
          IN  dry.stored = last.tally.stored /\ dry.skipped = last.tally.skipped

\* Once the posts are through, the remote index has every record under its own agent
\* and none that left it. (The one record it may miss is one stored into the source
\* while the emptied namespace was still to be purged.)
RemoteFollowsMove ==
    posts = <<>> /\ last.op \in {"copy", "move", "import"} /\ last.ok =>
        \A a \in Agents :
            /\ remote[a] \subseteq RecsOf(corpus, a)
            /\ \A i \in RecsOf(corpus, a) \ remote[a] : a = "src" /\ corpus.recs[i].msg = "new"

\* A merge is complete when it has answered and its posts went through: in the store,
\* and in the remote index.
MergeIsComplete == MergeLosesNothing /\ RemoteFollowsMove
=============================================================================
