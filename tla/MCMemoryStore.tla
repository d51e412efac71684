--------------------------- MODULE MCMemoryStore ---------------------------
(***************************************************************************)
(* The instances of MemoryStore that TLC checks: the values its constants  *)
(* take in the .cfg files, and a store that was empty or held one row.     *)
(***************************************************************************)
EXTENDS MemoryStore, TLC

CONSTANTS a1, a2, p1, m1, t1, t2, s1, s2, c1, c2

VARIABLE region

OneAgent    == {a1}
TwoAgents   == {a1, a2}
PoolOnly    == {Global}
PoolAndOne  == {Global, p1}
NoMessage   == {NoMsg}
OneMessage  == {NoMsg, m1}
OneText     == {t1}
TwoTexts    == {t1, t2}
OneSource   == {s1}
TwoSources  == {s1, s2}
TwoCallers  == {c1, c2}

\* A store that has handed out one id; its row has its vector, or is gone
\* again. Locks are set, and vectors missed, by calls.
FewRows ==
    /\ rows \in {[i \in Ids |-> IF i = 1 THEN r ELSE NoRow] : r \in {s \in Record : ~s.locked} \cup {NoRow}}
    /\ blobs = [i \in Ids |-> IF rows[i] = NoRow THEN NoText ELSE rows[i].text]
    /\ lastId = 1
    /\ Init

SmallSpec == FewRows /\ region = <<>> /\ [][Next /\ UNCHANGED region]_<<vars, region>>

\* The passing run covers two regions: <<"buckets", a>>, two calls on the buckets of one
\* agent, whose posts arrive, and <<"agents", s>>, three calls of two agents on rows of
\* one source in the global bucket without message ids, two ids being handed out.
InBuckets == region[1] = "buckets"
Inside(r) ==
    IF InBuckets THEN r.agent = region[2]
    ELSE r.project = Global /\ r.channel = Global /\ r.msg = NoMsg /\ r.source = region[2]

RegionAsk(c) ==
    /\ calls[c].pc = "idle" /\ made < IF InBuckets THEN 2 ELSE MaxCalls
    /\ \/ \E r \in {q \in Record : Inside(q)} : BeginStore(c, r)
       \/ \E a \in IF InBuckets THEN {region[2]} ELSE Agents :
             \/ BeginWipe(c, a)
             \/ \E by \in {a, Unscoped}, i \in 1..lastId :
                   \/ \E t \in Texts : BeginUpdate(c, by, i, t)
                   \/ \E op \in {"delete", "lock", "unlock"} : BeginById(c, op, by, i)

RegionInit ==
    /\ FewRows
    /\ region \in ({"buckets"} \X Agents) \cup ({"agents"} \X Sources)
    /\ rows[1] = NoRow \/ Inside(rows[1])

RegionNext ==
    /\ \/ \E c \in Callers : RegionAsk(c) \/ Step(c)
       \/ \E ids \in SUBSET Ids : Prefetch(ids)
       \/ ApplyEmbeddings
    /\ IF InBuckets
       THEN \A c \in Callers : calls[c].pc = "push" /\ calls'[c].pc = "idle" => remote' = RemoteAfter(calls[c])
       ELSE lastId' <= 2
    /\ UNCHANGED region

\* The members of these sets are interchangeable; no liveness property is checked.
Symmetry == Permutations(Texts) \cup Permutations(Sources) \cup Permutations(Agents)
            \cup Permutations(Callers)
=============================================================================
