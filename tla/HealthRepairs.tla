--------------------------- MODULE HealthRepairs ---------------------------
(***************************************************************************)
(* check_health(fix=True) and deep_check(fix=True): the repairs of         *)
(* cpersona/checks.py in registry order, each under its own savepoint in   *)
(* one transaction, and what do_check_health in                            *)
(* cpersona/maintenance_handlers.py does after the commit: the remote      *)
(* index is brought in step with the rows the repairs wrote or deleted,    *)
(* and a second pass embeds what the repairs left without a vector.        *)
(*                                                                         *)
(* One agent and one project: every statement groups or filters by both.   *)
(* A text is its body and the defects the checks look for; a body of ""    *)
(* is a text that is blank once its defects are stripped. The unique       *)
(* indexes may be missing, as on a store whose boot could not create them. *)
(***************************************************************************)
EXTENDS Naturals, Sequences, FiniteSets, FiniteSetsExt

CONSTANTS
    HealthIds,     \* memory ids, a set of naturals
    Bodies,        \* texts without a defect, "" among them
    HealthTexts,   \* the texts a store may hold before a repair
    HealthChans,   \* channels, "" among them (the shared one)
    NoMem,         \* the row does not exist
    Gone,          \* the effect None: the row was deleted
    Same           \* no effect was noted for the row

ASSUME HealthConstants ==
    /\ HealthIds \subseteq Nat /\ IsFiniteSet(HealthIds)
    /\ "" \in Bodies /\ "" \in HealthChans

\* A text: its first MAX_CONTENT_LENGTH characters and whether more follow.
HealthText == [body : Bodies, annotated : BOOLEAN, mention : BOOLEAN, long : BOOLEAN]

ASSUME HealthTextsAreTexts ==
    HealthTexts \subseteq HealthText /\ Gone \notin HealthText /\ Same \notin HealthText \cup {Gone}

Clean(t) == [t EXCEPT !.annotated = FALSE, !.mention = FALSE, !.long = FALSE]
Without(t, defect) == [t EXCEPT ![defect] = FALSE]
Blank    == [body |-> "", annotated |-> FALSE, mention |-> FALSE, long |-> FALSE]

\* timestamp: canonical UTC; another offset; readable by Python but not by SQLite
\* (and then perhaps in the future); by neither; by SQLite alone; in the future.
Stamps == {"utc", "aware", "foreign", "foreign_ahead", "junk", "sql_only", "ahead"}

\* source: canonical, a type normalize_source maps, one it does not, invalid JSON.
HealthSources == {"canonical", "mappable", "unmappable", "broken"}

Mem == [chan : HealthChans, text : HealthText, locked : BOOLEAN,
        vec : {"good", "bad", "none"}, msg : BOOLEAN, stamp : Stamps, dated : BOOLEAN,
        source : HealthSources]

ASSUME NoMemAssumption == NoMem \notin Mem

\* An episode's two stamps and a profile. "copy": created_at verbatim, which has no
\* zone; "naive": a caller's stamp without one.
EpisodeStamps == {"missing", "utc", "aware", "aware_ahead", "copy", "naive", "ahead"}
Others == [start : EpisodeStamps, end : EpisodeStamps, dated : BOOLEAN, profile_long : BOOLEAN]

VARIABLES
    mem,      \* the memories table
    others,   \* one episode and one profile
    linked,   \* the ids some declared association names
    uniques,  \* the unique indexes the schema holds: subset of {"content", "msg_id"}
    synced,   \* the remote index: id -> text, Gone where it has no entry
    fx,       \* repair_effects: one function per check that ran
    fixing,   \* the run: its place, its checks, whether one crashed or a post failed
    before    \* history: the rows and links the run started from

healthVars == <<mem, others, linked, uniques, synced, fx, fixing, before>>

MemIds(t)      == {i \in HealthIds : t[i] # NoMem}
Unlocked(t)    == {i \in MemIds(t) : ~t[i].locked}
SameChan(t, i, j) == t[i].chan = t[j].chan
Smallest(S)    == CHOOSE i \in S : \A j \in S : i <= j
Largest(S)     == CHOOSE i \in S : \A j \in S : i >= j

\* MIN(CASE WHEN locked != 0 THEN id END), MIN(id)
KeeperOf(t, S) ==
    LET locked == {i \in S : t[i].locked} IN Smallest(IF locked # {} THEN locked ELSE S)

NoEffect == [i \in HealthIds |-> Same]

\* What a check's fix leaves behind: the table, the links and the effects it noted.
Outcome == [mem : [HealthIds -> Mem \cup {NoMem}], others : Others, links : SUBSET HealthIds,
            fx : [HealthIds -> HealthText \cup {Gone, Same}]]

Leaves(t, l, e) == [mem |-> t, others |-> others, links |-> l, fx |-> e]

\* A fix that touches neither text nor rows notes no effect.
Retouched(t) == Leaves(t, linked, NoEffect)

----------------------------------------------------------------------------
(* Texts: rewriting and deleting                                           *)

\* Deleted rows take their declarations with them (the delete trigger).
Deleted(gone, l) ==
    Leaves([i \in HealthIds |-> IF i \in gone THEN NoMem ELSE mem[i]], l \ gone,
           [i \in HealthIds |-> IF i \in gone THEN Gone ELSE Same])

\* _rewrite_or_delete_on_collision over the rows S, in id order. Under the unique
\* index a row whose new text is held in its bucket already, by a row the check leaves
\* alone or by one it has just rewritten, is deleted and what was declared about it
\* moves to the holder. Without the index both stay.
Rewritten(S, defect) ==
    LET new(t) == Without(t, defect)
        holds(j, i) == /\ j # i /\ SameChan(mem, i, j)
                       /\ \/ j \notin S /\ mem[j].text = new(mem[i].text)
                          \/ j \in S /\ j < i /\ new(mem[j].text) = new(mem[i].text)
        holders(i) == {j \in MemIds(mem) : holds(j, i)}
        gone == IF "content" \in uniques THEN {i \in S : holders(i) # {}} ELSE {}
        survivor(i) == Smallest(holders(i) \ gone)
        write(r) == [r EXCEPT !.text = new(r.text), !.vec = "none"]
    IN  Leaves([i \in HealthIds |-> IF i \in gone THEN NoMem ELSE IF i \in S THEN write(mem[i]) ELSE mem[i]],
               (linked \cup {survivor(i) : i \in gone \cap linked}) \ gone,
               [i \in HealthIds |-> IF i \in gone THEN Gone ELSE IF i \in S THEN new(mem[i].text) ELSE Same])

Defective(defect) == {i \in Unlocked(mem) : mem[i].text[defect]}

MemoryAnnotation == Rewritten(Defective("annotated"), "annotated")
DiscordMention   == Rewritten(Defective("mention"), "mention")
OversizedContent == Rewritten(Defective("long"), "long")

Copies(i)       == {j \in MemIds(mem) : mem[j].text = mem[i].text}
BucketCopies(i) == {j \in Copies(i) : SameChan(mem, i, j)}
SharedCopies(i) == {j \in Copies(i) : mem[j].chan = ""}

\* Mutant of Covered: a copy in any other channel counts as one the row's readers see.
CoveredAnywhere(i) == i # KeeperOf(mem, Copies(i))

\* A copy its own bucket's keeper, or a copy in the shared channel, makes superfluous.
Covered(i) ==
    \/ i # KeeperOf(mem, BucketCopies(i))
    \/ mem[i].chan # "" /\ SharedCopies(i) # {}

DuplicateContent ==
    LET surplus == {i \in Unlocked(mem) : Covered(i)}
        keep(i) == KeeperOf(mem, IF SharedCopies(i) # {} THEN SharedCopies(i) ELSE BucketCopies(i))
    IN  Deleted(surplus, linked \cup {keep(i) : i \in surplus \cap linked})

EmptyContent == Deleted({i \in Unlocked(mem) : mem[i].text = Blank}, linked)

\* deep_check's short_content: the blank body stands for the short one.
ShortContent == Deleted({i \in Unlocked(mem) : mem[i].text.body = ""}, linked)

----------------------------------------------------------------------------
(* Columns beside the text                                                 *)

Patched(S, f(_)) == Retouched([i \in HealthIds |-> IF i \in S THEN f(mem[i]) ELSE mem[i]])

\* check_embedding_dimension and check_nonfinite_embedding: locked rows too, since a
\* vector is derived and no part of what the lock protects.
WithoutVector(r)  == [r EXCEPT !.vec = "none"]
UnusableEmbedding == Patched({i \in MemIds(mem) : mem[i].vec = "bad"}, WithoutVector)

\* The source and metadata columns of rows that do not parse.
EmptyObject(r) == [r EXCEPT !.source = "canonical"]
InvalidJson    == Patched({i \in Unlocked(mem) : mem[i].source = "broken"}, EmptyObject)

CanonicalSource(r) == [r EXCEPT !.source = "canonical"]
InvalidSourceType == Patched({i \in Unlocked(mem) : mem[i].source = "mappable"}, CanonicalSource)

\* created_at stands in where it is itself a date (dated).
RestampedInvalid(r) ==
    [r EXCEPT !.stamp = CASE r.stamp = "foreign" -> "utc"
                          [] r.stamp = "foreign_ahead" -> "ahead"
                          [] OTHER -> IF r.dated THEN "utc" ELSE r.stamp]
InvalidTimestamp ==
    Patched({i \in Unlocked(mem) : mem[i].stamp \in {"foreign", "foreign_ahead", "junk", "sql_only"}},
            RestampedInvalid)

Redated(r)      == [r EXCEPT !.stamp = "utc"]
FutureTimestamp == Patched({i \in Unlocked(mem) : mem[i].stamp = "ahead" /\ mem[i].dated}, Redated)
FormatDrift     == Patched({i \in Unlocked(mem) : mem[i].stamp = "aware"}, Redated)

\* check_dedup_msg_id_index: all but the newest (or newest locked) holder give the
\* message id up, so that the index can be created.
Messaged == {i \in MemIds(mem) : mem[i].msg}
MsgKeeper ==
    LET locked == {i \in Messaged : mem[i].locked} IN Largest(IF locked # {} THEN locked ELSE Messaged)
Unmessaged(r) == [r EXCEPT !.msg = FALSE]

DedupMsgIdIndex ==
    IF "msg_id" \in uniques THEN Retouched(mem)
    ELSE Patched({i \in Messaged : ~mem[i].locked /\ i # MsgKeeper}, Unmessaged)

\* CREATE UNIQUE INDEX succeeds where the rows allow it; a failure is reported.
ContentUnique(t) == \A i, j \in MemIds(t) : i # j /\ SameChan(t, i, j) => t[i].text # t[j].text
MsgUnique(t)     == \A i, j \in MemIds(t) : i # j => ~(t[i].msg /\ t[j].msg)
Creatable(name, t) == CASE name = "content" -> ContentUnique(t)
                        [] name = "msg_id"  -> MsgUnique(t)
                        [] OTHER -> FALSE

----------------------------------------------------------------------------
(* Episodes and profiles, which no lock protects                           *)

OthersAs(o) == [Retouched(mem) EXCEPT !.others = o]

\* created_at stands in for a start that was never recorded ...
MissingEpisodeStartTime ==
    OthersAs(IF others.start = "missing" /\ others.dated THEN [others EXCEPT !.start = "utc"] ELSE others)

\* ... an offset is rewritten as UTC, and of the zoneless stamps only created_at's ...
InUtc(stamp) == CASE stamp \in {"aware", "copy"} -> "utc"
                  [] stamp = "aware_ahead" -> "ahead"
                  [] OTHER -> stamp
EpisodeFormatDrift == OthersAs([others EXCEPT !.start = InUtc(others.start), !.end = InUtc(others.end)])

\* ... and a stamp ahead of the clock becomes created_at.
NotAhead(stamp) == IF stamp \in {"ahead", "aware_ahead"} /\ others.dated THEN "utc" ELSE stamp
FutureEpisodeTimestamp ==
    OthersAs([others EXCEPT !.start = NotAhead(others.start), !.end = NotAhead(others.end)])

OversizedProfile == OthersAs([others EXCEPT !.profile_long = FALSE])

----------------------------------------------------------------------------
(* The run                                                                 *)

\* Mutant of HealthOrder: duplicates are collapsed before texts are cut to length.
HealthOrderCutLast ==
    <<"memory_annotation", "discord_mention", "duplicate_content", "oversized_content",
      "unusable_embedding", "dedup_msg_id_index", "schema_objects", "invalid_json",
      "invalid_timestamp", "future_timestamp", "missing_episode_start_time",
      "timestamp_format_drift", "episode_timestamp_format_drift", "future_episode_timestamp",
      "empty_content", "invalid_source_type", "oversized_profile">>

\* The repairs that write rows of the corpus, in registry order. (stale_pending_tasks is
\* in TaskQueue, the index files in VectorIndex, the derived sets in DerivedLayers; the
\* checks that only report are left out.)
HealthOrder == <<"memory_annotation", "discord_mention", "oversized_content", "duplicate_content",
                 "unusable_embedding", "dedup_msg_id_index", "schema_objects", "invalid_json",
                 "invalid_timestamp", "future_timestamp", "missing_episode_start_time",
                 "timestamp_format_drift", "episode_timestamp_format_drift",
                 "future_episode_timestamp", "empty_content", "invalid_source_type",
                 "oversized_profile">>
DeepOrder   == <<"short_content">>

Repair(name) ==
    CASE name = "memory_annotation"      -> MemoryAnnotation
      [] name = "discord_mention"        -> DiscordMention
      [] name = "oversized_content"      -> OversizedContent
      [] name = "duplicate_content"      -> DuplicateContent
      [] name = "unusable_embedding"     -> UnusableEmbedding
      [] name = "dedup_msg_id_index"     -> DedupMsgIdIndex
      [] name = "invalid_json"           -> InvalidJson
      [] name = "invalid_timestamp"      -> InvalidTimestamp
      [] name = "future_timestamp"       -> FutureTimestamp
      [] name = "timestamp_format_drift" -> FormatDrift
      [] name = "missing_episode_start_time" -> MissingEpisodeStartTime
      [] name = "episode_timestamp_format_drift" -> EpisodeFormatDrift
      [] name = "future_episode_timestamp" -> FutureEpisodeTimestamp
      [] name = "oversized_profile"      -> OversizedProfile
      [] name = "empty_content"          -> EmptyContent
      [] name = "invalid_source_type"    -> InvalidSourceType
      [] name = "short_content"          -> ShortContent
      [] OTHER -> Retouched(mem)   \* schema_objects writes no row

NoRun == [pc |-> "idle", order |-> <<>>, at |-> 1, crashed |-> FALSE, failed |-> FALSE]

\* A store an earlier version or an import left behind: any of the texts in any
\* channels, or one row with any other defects. Its indexes may be missing; where they
\* stand, they hold. The remote index is in step with it.
TextRows   == [chan : HealthChans, text : HealthTexts, locked : BOOLEAN, vec : {"good"},
               msg : {FALSE}, stamp : {"utc"}, dated : {TRUE}, source : {"canonical"}]
ColumnRows == [chan : {""}, text : {t \in HealthTexts : t = Clean(t)}, locked : BOOLEAN, vec : {"good", "bad", "none"},
               msg : BOOLEAN, stamp : Stamps, dated : BOOLEAN, source : HealthSources]

NoOthers == [start |-> "utc", end |-> "utc", dated |-> TRUE, profile_long |-> FALSE]
AnyOthers == {o \in Others : o.end # "missing" /\ o.start \in {"missing", o.end}}

Stores == [HealthIds -> TextRows \cup {NoMem}]
          \cup {[i \in HealthIds |-> IF i = j THEN r ELSE NoMem] : j \in HealthIds, r \in ColumnRows}

OpenStore ==
    /\ fixing.pc = "idle" /\ MemIds(mem) = {} /\ others = NoOthers
    /\ \/ mem' \in Stores /\ others' = NoOthers
       \/ mem' = mem /\ others' \in AnyOthers \ {NoOthers}
    /\ LET t == mem'
       IN  /\ uniques' \in {{}, {n \in {"content", "msg_id"} : Creatable(n, t)}}
           /\ linked' \in SUBSET MemIds(t)
           /\ synced' = [i \in HealthIds |-> IF t[i] = NoMem THEN Gone ELSE t[i].text]
    /\ before' = [mem |-> mem', links |-> linked']
    /\ UNCHANGED <<fx, fixing>>

StartFix(order) ==
    /\ fixing.pc = "idle" /\ (MemIds(mem) # {} \/ others # NoOthers)
    /\ fixing' = [NoRun EXCEPT !.pc = "checks", !.order = order]
    /\ fx' = <<>>
    /\ before' = [mem |-> mem, links |-> linked]
    /\ UNCHANGED <<mem, others, linked, uniques, synced>>

NextCheck == fixing.order[fixing.at]
Ended     == fixing.at = Len(fixing.order)
Onward    == [fixing EXCEPT !.at = fixing.at + 1, !.pc = IF Ended THEN "commit" ELSE "checks"]

\* One check inside its savepoint, its fix applied and its effects kept.
RunCheck ==
    LET out == Repair(NextCheck)
    IN  /\ fixing.pc = "checks"
        /\ mem' = out.mem /\ others' = out.others /\ linked' = out.links
        /\ fx' = Append(fx, out.fx)
        /\ uniques' = CASE NextCheck = "dedup_msg_id_index" ->
                              uniques \cup {n \in {"msg_id"} : Creatable(n, out.mem)}
                        [] NextCheck = "schema_objects" ->
                              uniques \cup {n \in {"content", "msg_id"} : Creatable(n, out.mem)}
                        [] OTHER -> uniques
        /\ fixing' = Onward
        /\ UNCHANGED <<synced, before>>

\* Mutant of CheckCrashes: the effects of the rolled back check stay in the list.
CheckCrashesKeeping ==
    /\ fixing.pc = "checks" /\ ~fixing.crashed
    /\ fx' = Append(fx, Repair(NextCheck).fx)
    /\ fixing' = [Onward EXCEPT !.crashed = TRUE]
    /\ UNCHANGED <<mem, others, linked, uniques, synced, before>>

\* The check raises: ROLLBACK TO its savepoint, its effects cut off the list. Bound:
\* one crash a run.
CheckCrashes ==
    /\ fixing.pc = "checks" /\ ~fixing.crashed
    /\ fx' = SubSeq(Append(fx, Repair(NextCheck).fx), 1, Len(fx))
    /\ fixing' = [Onward EXCEPT !.crashed = TRUE]
    /\ UNCHANGED <<mem, others, linked, uniques, synced, before>>

\* _final_states: a row rewritten and then deleted is a deletion.
FinalStates ==
    [i \in HealthIds |->
        LET noted == {k \in DOMAIN fx : fx[k][i] # Same}
        IN  IF noted = {} THEN Same ELSE fx[Largest(noted)][i]]

\* _sync_remote_index after the commit: the removals, then the new texts; a post that
\* times out ends it, so what is posted is one of three beginnings of that order.
AfterRepairsCommit ==
    LET removed == {i \in HealthIds : FinalStates[i] = Gone}
        indexed == {i \in HealthIds : FinalStates[i] \notin {Gone, Same}}
    IN  /\ fixing.pc = "commit"
        /\ \E posted \in {{}, removed, removed \cup indexed} :
              /\ synced' = [i \in HealthIds |-> IF i \in posted THEN FinalStates[i] ELSE synced[i]]
              /\ fixing' = [fixing EXCEPT !.pc = "embed", !.failed = posted # removed \cup indexed]
        /\ UNCHANGED <<mem, others, linked, uniques, fx, before>>

\* The second pass of prefetch_null_embeddings and apply_embedding_cache; an embedder
\* that does not answer leaves the rows for the next run. (Bound: one run over a store.)
SecondPass ==
    /\ fixing.pc = "embed"
    /\ \/ mem' = [i \in HealthIds |-> IF mem[i] = NoMem THEN NoMem
                                      ELSE IF mem[i].vec = "none" THEN [mem[i] EXCEPT !.vec = "good"] ELSE mem[i]]
       \/ mem' = mem
    /\ fixing' = [fixing EXCEPT !.pc = "done"]
    /\ UNCHANGED <<others, linked, uniques, synced, fx, before>>

HealthInit ==
    /\ mem = [i \in HealthIds |-> NoMem] /\ others = NoOthers /\ linked = {} /\ uniques = {}
    /\ synced = [i \in HealthIds |-> Gone]
    /\ fx = <<>> /\ fixing = NoRun /\ before = [mem |-> mem, links |-> linked]

HealthNext ==
    \/ OpenStore
    \/ StartFix(HealthOrder) \/ StartFix(DeepOrder)
    \/ RunCheck \/ CheckCrashes
    \/ AfterRepairsCommit \/ SecondPass

HealthSpec == HealthInit /\ [][HealthNext]_healthVars

----------------------------------------------------------------------------
(* Properties                                                              *)

\* A row some check's fix would still write or delete.
Repairable(name) == Repair(name).mem # mem \/ Repair(name).others # others

\* Of what the run found, nothing an operator wrote is lost: a locked row keeps its
\* text and columns (only a vector, which is derived, may be dropped), and an unlocked
\* text that is more than its defects is still held, cleaned at most, by a row its
\* channel's readers see; what was declared about it is declared about such a row.
RepairLosesNothing ==
    \A i \in MemIds(before.mem) :
        LET r == before.mem[i]
            heirs == {j \in MemIds(mem) : mem[j].chan \in {r.chan, ""} /\ Clean(mem[j].text) = Clean(r.text)}
        IN  /\ r.locked => mem[i] # NoMem /\ [mem[i] EXCEPT !.vec = r.vec] = r
            /\ r.text.body # "" => /\ heirs # {}
                                   /\ i \in before.links => heirs \cap linked # {}

\* When the posts went through, the remote index holds every row's text as it now is
\* and no deleted row, whatever was rewritten, deleted after being rewritten, or rolled
\* back on the way.
RemoteFollowsRepairs ==
    fixing.pc \in {"embed", "done"} /\ ~fixing.failed =>
        \A i \in HealthIds :
            before.mem[i] # NoMem =>
                IF mem[i] = NoMem THEN synced[i] = Gone
                ELSE synced[i] # Gone /\ (synced[i] = mem[i].text \/ before.mem[i].text = mem[i].text)

\* One run is enough: when no check crashed, no memory check of the run would repair
\* anything more, and each unique index stands unless locked rows stand in its way.
\* (The order matters: a later repair must not undo or feed an earlier one.)
FixConverges ==
    fixing.pc = "done" /\ fixing.order = HealthOrder /\ ~fixing.crashed =>
        /\ \A k \in DOMAIN HealthOrder : ~Repairable(HealthOrder[k])
        /\ \A n \in {"content", "msg_id"} \ uniques : ~Creatable(n, [i \in HealthIds |->
              IF mem[i] = NoMem \/ ~mem[i].locked THEN NoMem ELSE mem[i]])
=============================================================================
