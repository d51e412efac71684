-------------------------------- MODULE Recall --------------------------------
(***************************************************************************)
(* One recall (cpersona/memory_handlers.py, _do_recall) in rrf mode, while *)
(* records of its scope are deleted: the vector and                        *)
(* keyword arms read beside each other, the block arm beside both, the     *)
(* fusion, the quality gate, the cut, the cue's lift, and the places held  *)
(* beside the ranking: blocks, keywords, far records, the time cue,        *)
(* propagation and depth. Every read is a step of its own, on whatever the *)
(* store holds then.                                                       *)
(*                                                                         *)
(* What a record is to the query is its profile: its cosine (0 below the   *)
(* floor, 1 past the deep gate only, 2 past the gate, 3 when it has no     *)
(* vector), whether its words and its blocks match, and how wide a cue     *)
(* period finds it (0 the stated one, 1 with a margin, 2 none). Scores are *)
(* the fusion's own sums of 1/(RRF_K + rank). Confidence is on, its        *)
(* ordering and the age prior at their defaults (fusion, off), so that no  *)
(* gate_fallback arises; the profile row, which holds no record, is left   *)
(* out.                                                                    *)
(***************************************************************************)
EXTENDS Integers, Sequences, FiniteSets, SequencesExt

CONSTANTS
    RIds,        \* record ids, 1..n, the newest last
    Profiles,    \* what a record may be: [cos, lex, block, period]
    Requests,    \* [limit, deep, exclude, cue, far, propagation, keyword, extraBlock, extraKeyword, depth]
    NoRow,       \* no record; no cue
    Window,      \* MAX_MEMORIES: the newest records the vector arm's near list reads
    Reach,       \* VECTOR_REACH: how far its far list goes
    DeeperDepth, \* propagation.DEPTH
    VoteUnit,    \* what one vote of the fusion is counted in: every 1/(RRF_K + rank) is a whole number of them
    MaxGone      \* bound: records deleted meanwhile

ASSUME RecallConstants ==
    /\ IsFiniteSet(RIds) /\ RIds = 1..Cardinality(RIds)
    /\ Profiles \subseteq [cos : 0..3, lex : BOOLEAN, block : BOOLEAN, period : 0..2] /\ NoRow \notin Profiles
    /\ Requests \subseteq
          [limit : Nat, deep : BOOLEAN, exclude : SUBSET RIds, cue : {"sure", "likely", "vague", NoRow},
           far : BOOLEAN, propagation : BOOLEAN, keyword : Nat, extraBlock : Nat, extraKeyword : Nat, depth : Nat]
    /\ Window \in Nat /\ Reach \in Nat /\ Window <= Reach /\ DeeperDepth \in Nat
    /\ VoteUnit \in Nat \ {0} /\ \A rank \in RIds : VoteUnit % (60 + rank) = 0

VARIABLES
    rstore,   \* id -> profile or NoRow: the records in the call's scope
    rcall,    \* the call: [pc, ...]
    rcounts,  \* id -> recall_count
    rpaused,  \* whether the caller's session is paused
    rbegan    \* history: the store when the call began

recallVars == <<rstore, rcall, rcounts, rpaused, rbegan>>

BLOCK_RESERVATION == 2
FAR_SEATS         == 2
LIFT(cue)         == IF cue = "sure" THEN 3 ELSE IF cue = "likely" THEN 2 ELSE 1
SEATS(cue)        == LIFT(cue)
WIDER(cue)        == IF cue = "sure" THEN "likely" ELSE IF cue = "likely" THEN "vague" ELSE NoRow

\* 1/(RRF_K + rank), RRF_K = 60.
Vote(rank)  == VoteUnit \div (60 + rank)
RrfGate     == Vote(1) + 1     \* the gate on a sum of votes: more than one first place

Lesser(a, b) == IF a < b THEN a ELSE b
Take(seq, n) == [k \in 1..Lesser(n, Len(seq)) |-> seq[k]]
IdsOf(rows)  == {rows[k].id : k \in DOMAIN rows}

\* The elements of S by their key, lowest first; keys differ.
ByKey(S, key) == [k \in 1..Cardinality(S) |->
                     CHOOSE x \in S : Cardinality({y \in S : key[y] < key[x]}) = k - 1]

\* What a list has at the positions kept, in its order.
Keeping(list, kept) == LET order == ByKey(kept, [k \in kept |-> k])
                     IN  [n \in 1..Cardinality(kept) |-> list[order[n]]]

\* More than the records: a first key counted in these comes before a second one.
Many == Cardinality(RIds) + 1

----------------------------------------------------------------------------
(* The arms                                                                *)

InScope_(i)  == rstore[i] # NoRow
Vectored     == {i \in RIds : InScope_(i) /\ rstore[i].cos # 3}
Newer(i)     == Cardinality({j \in Vectored : j > i})
Cosines(S)   == ByKey(S, [i \in S |-> (2 - rstore[i].cos) * Many - i])   \* a tie: the newer
ByAge(S)     == ByKey(S, [i \in S |-> i])

\* _search_vector: near the newest Window records with vectors, far those up to Reach.
NearList(depth) == Take(Cosines({i \in Vectored : Newer(i) < Window /\ rstore[i].cos > 0}), depth)
FarList(depth)  == Take(Cosines({i \in Vectored : Newer(i) \in Window..(Reach - 1) /\ rstore[i].cos > 0}), depth)

\* _lexical_arms_read: words that match, by their own rank (the older id first here).
WordList(depth) == Take(ByAge({i \in RIds : InScope_(i) /\ rstore[i].lex}), depth)

\* Which of a call's records have no vector, as _mark_single_arm_rows reads them.
Unvectored == {i \in RIds : InScope_(i) /\ rstore[i].cos = 3}

\* The vectors' answer: what the embedder gave (nothing, when it failed).
VectorRead(depth, embedded) ==
    [near |-> IF embedded THEN NearList(depth) ELSE <<>>, far |-> IF embedded THEN FarList(depth) ELSE <<>>,
     cos |-> [i \in RIds |-> IF InScope_(i) THEN rstore[i].cos ELSE 3]]

Rank(list, i) == CHOOSE k \in DOMAIN list : list[k] = i
VoteOf(list, i) == IF i \in ToSet(list) THEN Vote(Rank(list, i)) ELSE 0

\* _recall_rrf: the arms' votes summed, ties in the order the arms brought them.
Arms(vec, words)     == vec.near \o vec.far \o words
Votes(vec, words, i) == VoteOf(vec.near, i) + VoteOf(vec.far, i) + VoteOf(words, i)
ByVector(vec)        == ToSet(vec.near) \cup ToSet(vec.far)

\* Where the arms bring a record for the first time.
Firsts(arms, exclude) == {k \in DOMAIN arms : arms[k] \notin exclude /\ \A j \in 1..(k - 1) : arms[j] # arms[k]}

FusedOrder(vec, words, exclude) ==
    LET arms == Arms(vec, words)
        at   == Firsts(arms, exclude)
    IN  ByKey(at, [k \in at |-> k - (Len(arms) + 1) * Votes(vec, words, arms[k])])

FusedRow(vec, words, i, single) ==
    [id |-> i, votes |-> Votes(vec, words, i), lexOnly |-> i \notin ByVector(vec),
     cos |-> IF i \in ByVector(vec) THEN vec.cos[i] ELSE 3, single |-> i \notin ByVector(vec) /\ i \in single]

Fused(vec, words, exclude, single) ==
    LET order == FusedOrder(vec, words, exclude)
    IN  [k \in DOMAIN order |-> FusedRow(vec, words, Arms(vec, words)[order[k]], single)]

\* _apply_quality_gate: a row with a cosine by its cosine, one with votes alone by them; a
\* row no vector arm could have reached needs one first place only.
PassesGate(row, deep) ==
    IF row.cos # 3 THEN row.cos = 2 \/ deep
    ELSE row.votes >= (IF row.single THEN Lesser(RrfGate, Vote(1)) ELSE IF deep THEN RrfGate \div 2 ELSE RrfGate)
Gated(rows, deep) == Keeping(rows, {k \in DOMAIN rows : PassesGate(rows[k], deep)})

----------------------------------------------------------------------------
(* The cue and the places beside the ranking                               *)

\* _search_cue_arm: the period's records by vector and by words, their votes summed.
CueHeld(cue)           == {i \in RIds : InScope_(i) /\ rstore[i].period <= IF cue = "sure" THEN 0 ELSE 1}
CueVectors(cue, embedded) == IF embedded THEN Cosines({i \in CueHeld(cue) \cap Vectored : rstore[i].cos > 0}) ELSE <<>>
CueWords(cue)          == ByAge({i \in CueHeld(cue) : rstore[i].lex})
CueList(cue, embedded, exclude) ==
    LET byVec  == CueVectors(cue, embedded)
        byWord == CueWords(cue)
        ids    == (ToSet(byVec) \cup ToSet(byWord)) \ exclude
    IN  ByKey(ids, [i \in ids |-> i - Many * (VoteOf(byVec, i) + VoteOf(byWord, i))])

\* cue.lift: a row the cue also found moves up by its bound, less for a later cue rank. A
\* tie goes to the found row, any other to the one that was first.
LiftKey(rows, cueList, bound, k) ==
    LET found == rows[k].id \in ToSet(cueList)
        moved == IF found THEN (bound * VoteUnit * 61) \div (60 + Rank(cueList, rows[k].id)) ELSE 0
    IN  (2 * (k * VoteUnit - moved) + (IF found THEN 0 ELSE 1)) * (Len(rows) + 1) + k
LiftOrder(rows, cueList, bound) == ByKey(DOMAIN rows, [k \in DOMAIN rows |-> LiftKey(rows, cueList, bound, k)])
Lifted(rows, cueList, bound) == [k \in DOMAIN rows |-> rows[LiftOrder(rows, cueList, bound)[k]]]

\* The reservations: the first `places` of the ids not yet in the answer, after it.
Beside(answer, ids, places, how) ==
    LET taken == Take(Keeping(ids, {k \in DOMAIN ids : ids[k] \notin IdsOf(answer)}), places)
    IN  answer \o [k \in DOMAIN taken |-> [id |-> taken[k], how |-> how]]

RowIds(rows) == [k \in DOMAIN rows |-> rows[k].id]

\* coverage.parts: a row with the query's words before one without.
WithWords(rows)  == {k \in DOMAIN rows : rbegan[rows[k].id].lex}
PartsFirst(rows) == Keeping(rows, WithWords(rows)) \o Keeping(rows, DOMAIN rows \ WithWords(rows))

\* The rows only the words found: the candidates of the keyword places, and those of
\* them the gate refused.
Worded(rows)        == Keeping(rows, {k \in DOMAIN rows : rows[k].lexOnly})
Refused(rows, deep) == Keeping(rows, {k \in DOMAIN rows : rows[k].lexOnly /\ ~PassesGate(rows[k], deep)})

\* Mutant of Unrefused: a place takes any record its arm finds.
UnrefusedAny(i) == i \in RIds

\* The far and cue places: never a record the ranking reached and the gate turned down.
Unrefused(i) == i \notin rcall.reached \/ i \in IdsOf(rcall.admitted)

----------------------------------------------------------------------------
(* The call                                                                *)

Req == rcall.req

\* RECALL_DEPTH_FLOOR is at its default, 0.
DepthOf(req) == req.limit

StartRecall(req) ==
    /\ rcall.pc = "idle"
    /\ rstore' \in [RIds -> Profiles]   \* the corpus as the call finds it
    /\ rbegan' = rstore'
    /\ rcall' = [pc |-> "read", req |-> req, embedded |-> NoRow, vec |-> NoRow, words |-> NoRow,
                 held |-> NoRow, block |-> NoRow, rows |-> <<>>, reached |-> {}, admitted |-> <<>>, far |-> <<>>,
                 cue |-> req.cue, cueList |-> <<>>, stages |-> 0, ranked |-> <<>>, answer |-> <<>>]
    /\ UNCHANGED <<rcounts, rpaused>>

\* The query's vector, or the embedder's failure; the block arm waits for it.
EmbedQuery(embedded) ==
    /\ rcall.pc = "read" /\ rcall.embedded = NoRow
    /\ rcall' = [rcall EXCEPT !.embedded = embedded]
    /\ UNCHANGED <<rstore, rcounts, rpaused, rbegan>>

ReadVector ==
    /\ rcall.pc = "read" /\ rcall.embedded # NoRow /\ rcall.vec = NoRow
    /\ rcall' = [rcall EXCEPT !.vec = VectorRead(DepthOf(Req), rcall.embedded)]
    /\ UNCHANGED <<rstore, rcounts, rpaused, rbegan>>

\* With depth places, the keyword arms are read once, to the deeper depth, and kept.
ReadWords ==
    /\ rcall.pc = "read" /\ rcall.words = NoRow
    /\ LET held == WordList(IF Req.depth > 0 THEN DeeperDepth ELSE DepthOf(Req))
       IN  rcall' = [rcall EXCEPT !.words = Take(held, DepthOf(Req)), !.held = IF Req.depth > 0 THEN held ELSE NoRow]
    /\ UNCHANGED <<rstore, rcounts, rpaused, rbegan>>

\* The block arm, beside the others once the query's vector is there.
ReadBlocks ==
    /\ rcall.pc \in {"read", "fused"} /\ rcall.embedded = TRUE /\ rcall.block = NoRow
    /\ rcall' = [rcall EXCEPT !.block =
           Take(ByAge({i \in RIds \ Req.exclude : InScope_(i) /\ rstore[i].block}),
                Req.limit + Req.extraBlock + BLOCK_RESERVATION)]
    /\ UNCHANGED <<rstore, rcounts, rpaused, rbegan>>

Single(embedded) == IF embedded THEN Unvectored ELSE RIds

FuseArms ==
    /\ rcall.pc = "read" /\ rcall.vec # NoRow /\ rcall.words # NoRow
    /\ LET rows == Fused(rcall.vec, rcall.words, Req.exclude, Single(rcall.embedded))
       IN  rcall' = [rcall EXCEPT !.pc = "fused", !.rows = rows, !.reached = IdsOf(rows)]
    /\ UNCHANGED <<rstore, rcounts, rpaused, rbegan>>

\* far_seats.ranked, after the block arm's outcome is awaited: records past the reach.
ReadFar ==
    /\ rcall.pc = "fused" /\ (rcall.embedded = TRUE => rcall.block # NoRow)
    /\ rcall' = [rcall EXCEPT !.pc = IF Req.cue # NoRow THEN "cue" ELSE "gate",
           !.far = IF Req.far /\ rcall.embedded
                   THEN Cosines({i \in Vectored : Newer(i) >= Reach /\ rstore[i].cos > 0}) ELSE <<>>]
    /\ UNCHANGED <<rstore, rcounts, rpaused, rbegan>>

\* One cue stage: at most two (the ledger's CUE_STAGES), widened once when nothing is found.
ReadCue ==
    /\ rcall.pc = "cue"
    /\ LET found == CueList(rcall.cue, rcall.embedded, Req.exclude)
           again == found = <<>> /\ rcall.stages = 0 /\ WIDER(rcall.cue) # NoRow
       IN  rcall' = [rcall EXCEPT !.cueList = found, !.stages = @ + 1,
                        !.cue = IF again THEN WIDER(@) ELSE @, !.pc = IF again THEN "cue" ELSE "gate"]
    /\ UNCHANGED <<rstore, rcounts, rpaused, rbegan>>

\* The cut and the lift, on the rows the gate admitted.
RankedOf(rows) ==
    LET cut == Take(Gated(rows, Req.deep), Req.limit)
    IN  IF Req.cue = NoRow THEN cut ELSE Lifted(cut, rcall.cueList, LIFT(rcall.cue))

\* The answer as the ranking gives it, and what the block arm brought, if it ran.
AsRanked(ranked) == [k \in DOMAIN ranked |-> [id |-> ranked[k].id, how |-> "ranked"]]
BlocksRead       == IF rcall.block = NoRow THEN <<>> ELSE rcall.block

\* The gate, the cut, the lift, the block and the keyword places: no read among them.
Select_ ==
    /\ rcall.pc = "gate"
    /\ LET ranked == RankedOf(rcall.rows)
           seated == Beside(AsRanked(ranked), BlocksRead, BLOCK_RESERVATION, "block")
       IN  rcall' = [rcall EXCEPT !.pc = "far", !.admitted = Gated(rcall.rows, Req.deep), !.ranked = ranked,
                        !.answer = Beside(seated, RowIds(PartsFirst(Worded(rcall.rows))), Req.keyword, "keyword")]
    /\ UNCHANGED <<rstore, rcounts, rpaused, rbegan>>

\* far_seats.seat_rows: the rows are read again, in the scope as it is now.
FarEligible == Keeping(rcall.far, {k \in DOMAIN rcall.far :
                   InScope_(rcall.far[k]) /\ rcall.far[k] \notin Req.exclude /\ Unrefused(rcall.far[k])})
CueEligible == Keeping(rcall.cueList, {k \in DOMAIN rcall.cueList : Unrefused(rcall.cueList[k])})

SeatFar ==
    /\ rcall.pc = "far"
    /\ LET withFar == Beside(rcall.answer, FarEligible, FAR_SEATS, "far")
       IN  rcall' = [rcall EXCEPT !.pc = "propagate",
                        !.answer = IF Req.cue = NoRow THEN withFar
                                   ELSE Beside(withFar, CueEligible, SEATS(rcall.cue), "cue")]
    /\ UNCHANGED <<rstore, rcounts, rpaused, rbegan>>

\* _deeper_order: the recall's own order read again, deeper, under the same gate.
Deeper(embedded) ==
    Gated(Fused(VectorRead(DeeperDepth, embedded), IF rcall.held = NoRow THEN WordList(DeeperDepth) ELSE rcall.held,
                Req.exclude, Single(embedded)), Req.deep)

\* The blocks and the refused keyword rows that were asked for as well.
Rest(answer) ==
    Beside(Beside(answer, BlocksRead, Req.extraBlock, "block"),
           RowIds(PartsFirst(Refused(rcall.rows, Req.deep))), Req.extraKeyword, "keyword")

\* Propagation seats one record near the first answer's vector.
Propagate ==
    /\ rcall.pc = "propagate"
    /\ \E embedded \in BOOLEAN :
          LET anchored == rcall.admitted # <<>> /\ rcall.admitted[1].id \in Vectored
              near     == IdsOf(Deeper(embedded)) \ IdsOf(rcall.answer)
          IN  IF Req.propagation /\ anchored /\ near # {}
              THEN \E i \in near :
                      rcall' = [rcall EXCEPT !.pc = "depth", !.answer = Rest(Append(@, [id |-> i, how |-> "propagation"]))]
              ELSE rcall' = [rcall EXCEPT !.pc = "depth", !.answer = Rest(@)]
    /\ UNCHANGED <<rstore, rcounts, rpaused, rbegan>>

SeatDepth ==
    /\ rcall.pc = "depth"
    /\ \E embedded \in BOOLEAN :
          rcall' = [rcall EXCEPT !.pc = "credit",
              !.answer = IF Req.depth = 0 THEN @
                         ELSE Beside(@, RowIds(PartsFirst(Deeper(embedded))), Req.depth, "depth")]
    /\ UNCHANGED <<rstore, rcounts, rpaused, rbegan>>

\* The counters of the ranked records, in one transaction, unless deep or paused.
Credit ==
    /\ rcall.pc = "credit"
    /\ rcounts' = [i \in RIds |-> IF ~Req.deep /\ ~rpaused /\ i \in IdsOf(rcall.ranked) /\ InScope_(i)
                                  THEN rcounts[i] + 1 ELSE rcounts[i]]
    /\ rcall' = [rcall EXCEPT !.pc = "done"]
    /\ UNCHANGED <<rstore, rpaused, rbegan>>

\* Meanwhile a record is deleted, or the session is paused.
Leave(i) ==
    /\ rcall.pc \notin {"idle", "done"} /\ InScope_(i)
    /\ Cardinality({j \in RIds : ~InScope_(j) /\ rbegan[j] # NoRow}) < MaxGone
    /\ rstore' = [rstore EXCEPT ![i] = NoRow]
    /\ UNCHANGED <<rcall, rcounts, rpaused, rbegan>>
PauseCaller ==
    /\ rcall.pc \notin {"idle", "done"} /\ ~rpaused
    /\ rpaused' = TRUE
    /\ UNCHANGED <<rstore, rcall, rcounts, rbegan>>

RecallInit ==
    /\ rstore = [i \in RIds |-> NoRow] /\ rbegan = [i \in RIds |-> NoRow]
    /\ rcall = [pc |-> "idle"] /\ rcounts = [i \in RIds |-> 0] /\ rpaused = FALSE

RecallNext ==
    \/ \E req \in Requests : StartRecall(req)
    \/ \E embedded \in BOOLEAN : EmbedQuery(embedded)
    \/ ReadVector \/ ReadWords \/ ReadBlocks \/ FuseArms \/ ReadFar \/ ReadCue \/ Select_ \/ SeatFar
    \/ Propagate \/ SeatDepth \/ Credit
    \/ \E i \in RIds : Leave(i)
    \/ PauseCaller

RecallSpec == RecallInit /\ [][RecallNext]_recallVars

----------------------------------------------------------------------------
(* Properties                                                              *)

\* The answer of a recall names no record twice and none the caller excluded, has the
\* ranking first and complete, at most its places after it (so check_recall_count never
\* refuses it), and credits only ranked records, whichever arms found a record and
\* whatever was deleted between their reads.
RecallAnswer ==
    rcall.pc = "done" =>
        LET a == rcall.answer IN
        /\ \A j, k \in DOMAIN a : a[j].id = a[k].id => j = k
        /\ IdsOf(a) \cap Req.exclude = {}
        /\ \A k \in DOMAIN rcall.ranked : a[k] = [id |-> rcall.ranked[k].id, how |-> "ranked"]
        /\ IdsOf(rcall.ranked) = IdsOf(Take(rcall.admitted, Req.limit))
        /\ Len(a) <= Req.limit + SEATS("sure") + BLOCK_RESERVATION + FAR_SEATS + 1 + Req.keyword
                     + Req.extraBlock + Req.extraKeyword + Req.depth
        /\ \A i \in RIds : rcounts[i] <= (IF i \in IdsOf(rcall.ranked) /\ ~Req.deep THEN 1 ELSE 0)

\* A record the ranking reached and the quality gate refused does not come back through
\* a far or a time cue place, although those arms search on their own, later, and over a
\* store that may have changed (memory_handlers.py:3181-3210).
RefusedStaysOut ==
    rcall.pc = "done" =>
        \A k \in DOMAIN rcall.answer : rcall.answer[k].how \in {"far", "cue"} =>
            ~\E r \in ToSet(rcall.rows) : r.id = rcall.answer[k].id /\ ~PassesGate(r, Req.deep)

\* What do_recall answers is well formed and keeps what the gate refused out, whichever
\* of its searches ran over which state of the store.
RecallIsSound == RecallAnswer /\ RefusedStaysOut
=============================================================================
