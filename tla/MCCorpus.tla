------------------------------ MODULE MCCorpus ------------------------------
(***************************************************************************)
(* What changes many records at a time, and what is made and read of them, *)
(* checked in one run: merges, exports and imports (Transfer), the         *)
(* declared associations with the migration of channels (Associations);    *)
(* texts cut into nodes and blocks (Segments), the builds of those layers  *)
(* (DerivedLayers) and of the block file (BlockIndex), a recall (Recall),  *)
(* a reconstruction (Reconstruct) and the coarse probe (CoarseSearch).     *)
(* These models share no state: a behaviour moves one of them, named by    *)
(* `part`, and leaves the others at rest.                                  *)
(***************************************************************************)
EXTENDS Transfer, Associations, Segments, DerivedLayers, BlockIndex, Recall, Reconstruct, CoarseSearch, TLC

VARIABLE part

\* Transfer: "a+" is a text over the length limit, cut to "a".
CutLong(t) == IF t = "a+" THEN "a" ELSE t

\* Transfer: three records, or two where the target has a profile and an alias of its own;
\* three are declared where one is the target's.
FewRecords == corpus = Nothing /\ Len(corpus'.recs) = 3 =>
                  /\ corpus'.profile["tgt"] = 0
                  /\ corpus'.folder = {} <=> corpus'.recs[1].agent = "src"

\* Associations: the bounds a traversal is asked for.
SomeBounds == {[hops |-> 1, limit |-> 1, entities |-> 2], [hops |-> 1, limit |-> 2, entities |-> 1]}

\* Of the two names, alike in everything, the first one registered is "x"; a record goes
\* with the first call, to be stored again with the second, or with the third; the last
\* call is the migration; an alias is declared by the first call, and a second relation
\* comes with no alias and no mention.
FewCalls ==
    /\ 1 \in DOMAIN graph'.ents => graph'.ents[1].name = "x"
    /\ DOMAIN chanOf' # GraphRecords => calls' \notin {0, 2}
    /\ calls' = MaxCalls => Migrated
    /\ graph.aliases = {} /\ graph'.aliases # {} => calls' = 1
    /\ graph'.relId = 2 => graph'.aliases = {} /\ graph'.mentions = {}

\* Segments: the longest texts are cut at one size and measured for one window.
FewCuts == piece = NoPiece /\ Len(piece'.text) = MaxText => piece'.size = 3 /\ piece'.window = 2

\* Segments: one token a character, and one more where a slice ends in a space.
Tokens(s, w) ==
    LET count == Len(s) + (IF s # <<>> /\ s[Len(s)] = " " THEN 1 ELSE 0)
    IN  [truncated |-> count > w, end |-> IF Len(s) < w THEN Len(s) ELSE w]

\* Recall: what a record is to the query, and the requests.
Profile(c, l, b, p) == [cos |-> c, lex |-> l, block |-> b, period |-> p]
SomeProfiles == {Profile(0, TRUE, FALSE, 0), Profile(1, FALSE, TRUE, 0), Profile(2, TRUE, FALSE, 2),
                 Profile(3, TRUE, TRUE, 1), Profile(2, FALSE, FALSE, 0), Profile(1, TRUE, TRUE, 0)}
Asked(l, d, x, c, f, p, k, eb, ek, dp) ==
    [limit |-> l, deep |-> d, exclude |-> x, cue |-> c, far |-> f, propagation |-> p, keyword |-> k,
     extraBlock |-> eb, extraKeyword |-> ek, depth |-> dp]
SomeRequests == {Asked(1, FALSE, {}, "sure", TRUE, TRUE, 1, 1, 1, 1),
                 Asked(2, FALSE, {1}, "vague", TRUE, FALSE, 0, 0, 0, 1),
                 Asked(2, TRUE, {}, NoRow, FALSE, TRUE, 1, 0, 0, 0)}

\* Reconstruct: candidates, what they lead to, and the passages quoted of a record.
Candidate(k, t, m, r, n) == [kind |-> k, ts |-> t, msg |-> m, reserved |-> r, mentions |-> n]
SomeKinds == {Candidate("mem", t, m, FALSE, n) : t \in {NoTime, 1, 2, 3}, m \in {"", "m"}, n \in {"", "a"}}
             \cup {Candidate("mem", t, m, TRUE, n) : t \in {1, 3}, m \in {"", "m"}, n \in {"", "a"}}
             \cup {Candidate("mem", t, "", FALSE, "b") : t \in {1, 3}}
             \cup {Candidate("ep", 1, "", r, "") : r \in BOOLEAN}
TwoOutside == 101 :> Candidate("mem", 3, "m", FALSE, "") @@ 102 :> Candidate("mem", 1, "", FALSE, "")
SomeLeads == "" :> {} @@ "a" :> {101} @@ "b" :> {101, 102}
Range_(a, b) == [from |-> a, to |-> b]
SomePassages == {{Range_(0, 2)}, {Range_(0, 2), Range_(4, 5)}, {Range_(0, 1), Range_(1, 3), Range_(3, 4)}}
TwoSpans == <<1, 2>>
SomeExcerpts == {<<>>, <<1, 2>>}

\* CoarseSearch: rows, the distances and cosines of their vectors, and the probes.
Row(at_, s, v, w, m, r) == [at |-> at_, stamp |-> s, vec |-> v, width |-> w, mine |-> m, rejected |-> r]
SomeRows == {Row(4, 1, 1, 1, TRUE, FALSE), Row(2, 2, 2, 1, TRUE, FALSE), Row(3, 2, 3, 1, TRUE, TRUE),
             Row(2, 0, 1, 2, TRUE, FALSE), Row(4, 1, 0, 1, TRUE, FALSE), Row(4, 1, 1, 1, FALSE, FALSE)}
SomeDistances == <<0, 1, 0>>
SomeCosines == <<2, 2, 1>>
Probe(s, e, p, k) == [start |-> s, end |-> e, period |-> p, k |-> k]
SomeQueries == {Probe(0, 99, NoPeriod, 2), Probe(1, 99, NoPeriod, 1), Probe(0, 2, [low |-> 2, high |-> 3], 2)}

CorpusInit ==
    /\ part \in {"transfer", "associations", "segments", "derived", "blocks", "recall", "reconstruct", "coarse"}
    /\ TransferInit /\ AssocInit
    /\ SegmentsInit /\ DerivedInit /\ BlockInit /\ RecallInit
    /\ ReconInit /\ CoarseInit

TransferPart == part = "transfer" /\ TransferNext /\ FewRecords
    /\ UNCHANGED <<part, assocVars, segmentsVars, derivedVars, blockVars, recallVars, reconVars, coarseVars>>
AssocPart == part = "associations"
    /\ \/ calls < MaxCalls - 1 /\ AssocNext
       \/ calls = MaxCalls - 1 /\ \E g \in BOOLEAN, stay \in SUBSET GraphRecords : Migrate(g, stay)
    /\ FewCalls
    /\ UNCHANGED <<part, transferVars, segmentsVars, derivedVars, blockVars, recallVars, reconVars, coarseVars>>
SegmentsPart == part = "segments" /\ SegmentsNext /\ FewCuts
    /\ UNCHANGED <<part, transferVars, assocVars, derivedVars, blockVars, recallVars, reconVars, coarseVars>>
DerivedPart == part = "derived" /\ DerivedNext
    /\ UNCHANGED <<part, transferVars, assocVars, segmentsVars, blockVars, recallVars, reconVars, coarseVars>>
BlocksPart == part = "blocks" /\ BlockNext
    /\ UNCHANGED <<part, transferVars, assocVars, segmentsVars, derivedVars, recallVars, reconVars, coarseVars>>
RecallPart == part = "recall" /\ RecallNext
    /\ UNCHANGED <<part, transferVars, assocVars, segmentsVars, derivedVars, blockVars, reconVars, coarseVars>>
ReconPart == part = "reconstruct" /\ ReconNext
    /\ UNCHANGED <<part, transferVars, assocVars, segmentsVars, derivedVars, blockVars, recallVars, coarseVars>>
CoarsePart == part = "coarse" /\ CoarseNext
    /\ UNCHANGED <<part, transferVars, assocVars, segmentsVars, derivedVars, blockVars, recallVars, reconVars>>

CorpusNext == TransferPart \/ AssocPart \/ SegmentsPart \/ DerivedPart
           \/ BlocksPart \/ RecallPart \/ ReconPart \/ CoarsePart

CorpusSpec == CorpusInit /\ [][CorpusNext]_<<part, transferVars, assocVars, segmentsVars, derivedVars, blockVars, recallVars, reconVars, coarseVars>>
=============================================================================
