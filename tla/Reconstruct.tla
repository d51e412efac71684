----------------------------- MODULE Reconstruct -----------------------------
(***************************************************************************)
(* Reconstructive recall (cpersona/reconstruct.py): candidates are bundled *)
(* into clusters, the clusters chosen, records reached over declared       *)
(* relations added to them, each item structured around its head, and the  *)
(* passages and excerpts of the items cut to a character budget. All of it *)
(* is computed from what one recall returned, so a state here is an input, *)
(* grown a candidate or a passage at a time, and the properties are about  *)
(* what is computed from it.                                               *)
(***************************************************************************)
EXTENDS Integers, Sequences, FiniteSets, SequencesExt, FiniteSetsExt

CONSTANTS
    CandidateKinds,  \* [kind, ts, msg, reserved, mentions]: what recall may return
    Spans,           \* the period an episode covers: its first and last times
    NoTime,          \* an unparsed timestamp
    Adjacency,       \* RECONSTRUCT_ADJACENCY_SECONDS
    ECount,          \* the effective count
    MaxEvidence,     \* max_evidence
    Outside,         \* records outside the pool: ref -> the fields of a candidate
    Leads,           \* an entity a candidate mentions -> the records its relations lead to
    Passages,        \* the passages a record may have: sets of [from, to], apart
    Budgets,         \* character budgets
    Separator,       \* the length of excerpts.SEPARATOR
    ExcerptLens,     \* lengths of the excerpts an item may hold
    MaxPool, MaxRecords   \* bounds: candidates; records with passages

ASSUME ReconstructConstants == {Adjacency, ECount, MaxEvidence, Separator} \subseteq Nat /\ MaxEvidence > 0

VARIABLES
    pool,    \* the candidates, the most relevant first; a candidate is its place in it
    links,   \* declared record relations between candidates: a set of pairs
    quotes,  \* records in item order: [passages, excerpts]
    order    \* the order the passages are taken in: <<record, passage>> pairs

reconVars == <<pool, links, quotes, order>>

Cands == DOMAIN pool
Mems == {i \in Cands : pool[i].kind = "mem"}
Eps  == {i \in Cands : pool[i].kind = "ep"}
Timed(i) == pool[i].ts # NoTime

----------------------------------------------------------------------------
(* Bundling                                                                *)

SameMessage(i, j) == {i, j} \subseteq Mems /\ pool[i].msg # "" /\ pool[i].msg = pool[j].msg
Within(e, m)      == e \in Eps /\ m \in Mems /\ Timed(m) /\ Spans[1] <= pool[m].ts /\ pool[m].ts <= Spans[2]

\* The adjacency key: from the earliest, a memory (an episode names no source) joins its
\* anchor while the gap holds, and is the next anchor when it does not.
Timeline == LET S == {i \in Mems : Timed(i)}
                before(i, j) == pool[i].ts < pool[j].ts \/ (pool[i].ts = pool[j].ts /\ i < j)
            IN  [k \in 1..Cardinality(S) |-> CHOOSE i \in S : Cardinality({j \in S : before(j, i)}) = k - 1]
Anchored == FoldLeft(LAMBDA acc, i :
                        IF acc.anchor # 0 /\ pool[i].ts - pool[acc.anchor].ts <= Adjacency
                        THEN [acc EXCEPT !.pairs = @ \cup {<<acc.anchor, i>>}]
                        ELSE [acc EXCEPT !.anchor = i],
                     [anchor |-> 0, pairs |-> {}], Timeline).pairs

Unions == {p \in Cands \X Cands : SameMessage(p[1], p[2]) \/ Within(p[1], p[2])} \cup Anchored \cup links

\* _Union over the keys: the classes of the joins' closure.
Clusters ==
    LET unions == Unions
        Joined(S) == S \cup {j \in Cands : \E i \in S : <<i, j>> \in unions \/ <<j, i>> \in unions}
    IN  {FoldLeft(LAMBDA S, k : Joined(S), {i}, pool) : i \in Cands}

Best(S) == CHOOSE i \in S : \A j \in S : i <= j
ByRank(Gs) == [k \in 1..Cardinality(Gs) |-> CHOOSE g \in Gs : Cardinality({h \in Gs : Best(h) < Best(g)}) = k - 1]

\* The window: the first ECount clusters with a ranked candidate; then the others that
\* hold a reserved one.
WindowOf(Gs) == LET r == ByRank({g \in Gs : \E i \in g : ~pool[i].reserved})
                IN  SubSeq(r, 1, IF Len(r) < ECount THEN Len(r) ELSE ECount)
HeldOf(Gs, window) == IF ECount = 0 THEN <<>>
                      ELSE ByRank({g \in Gs \ ToSet(window) : \E i \in g : pool[i].reserved})
ChosenOf(Gs, window) == window \o HeldOf(Gs, window)
Chosen == LET Gs == Clusters IN ChosenOf(Gs, WindowOf(Gs))

----------------------------------------------------------------------------
(* The walk and the items                                                  *)

\* The records outside the pool that a cluster's mentions lead to.
LedTo(g) == UNION {Leads[pool[i].mentions] : i \in g}

\* Mutant of Walked: every item takes what its entities reach.
WalkedByAll(items, k) == LedTo(items[k])

\* walk: in item order; a record an earlier item was given is not given again.
Walked(items, k) == LedTo(items[k]) \ UNION {LedTo(items[j]) : j \in 1..(k - 1)}

RowOf(r) == IF r \in Cands THEN pool[r] ELSE Outside[r]
SameVersions(i, j) == i # j /\ RowOf(i).kind = "mem" /\ RowOf(j).kind = "mem" /\ RowOf(i).msg # ""
                      /\ RowOf(i).msg = RowOf(j).msg /\ NoTime \notin {RowOf(i).ts, RowOf(j).ts}

\* _head: the most relevant member, or the newest version of its message among them.
HeadOf(g) == LET lead == Best(g)
                 versions == {lead} \cup {m \in g : SameVersions(lead, m)}
             IN  CHOOSE i \in versions : \A j \in versions \ {i} : pool[i].ts > pool[j].ts \/ (pool[i].ts = pool[j].ts /\ i < j)

\* structure: the head first, then the members by relevance, then the walk's records,
\* up to max_evidence; what is left out is counted.
ClaimsOf(items, k) ==
    LET g      == items[k]
        head   == HeadOf(g)
        others == [n \in 1..(Cardinality(g) - 1) |->
                      CHOOSE i \in g \ {head} : Cardinality({j \in g \ {head} : j < i}) = n - 1]
        all    == <<head>> \o others \o SetToSeq(Walked(items, k))
    IN  [head |-> head, kept |-> ToSet(SubSeq(all, 1, IF Len(all) < MaxEvidence THEN Len(all) ELSE MaxEvidence)),
         omitted |-> IF Len(all) > MaxEvidence THEN Len(all) - MaxEvidence ELSE 0]

\* _roles_for: the next newer version of a message supersedes it.
SupersededBy(i, kept) ==
    LET newer == {j \in kept : SameVersions(i, j) /\ RowOf(j).ts > RowOf(i).ts}
    IN  {j \in newer : \A n \in newer : RowOf(j).ts < RowOf(n).ts \/ (RowOf(j).ts = RowOf(n).ts /\ j <= n)}

----------------------------------------------------------------------------
(* The passages and the budget                                             *)

SumOf(seq) == FoldLeft(LAMBDA a, b : a + b, 0, seq)
LengthOf(r) == r.to - r.from

\* excerpts._joined: ranges that touch are one; the quote is them with separators.
Left(p, S)  == {r \in S : r.to = p.from}
Right(p, S) == {r \in S : r.from = p.to}
Runs(S) == FoldSet(LAMBDA p, acc :
               LET l == Left(p, acc) r == Right(p, acc)
               IN  (acc \ (l \cup r)) \cup {[from |-> IF l = {} THEN p.from ELSE (CHOOSE x \in l : TRUE).from,
                                            to |-> IF r = {} THEN p.to ELSE (CHOOSE x \in r : TRUE).to]}, {}, S)
QuoteLen(S) == IF S = {} THEN 0
               ELSE FoldSet(LAMBDA p, n : n + LengthOf(p), 0, S) + Separator * (Cardinality(Runs(S)) - 1)

\* _step_costs: a passage's length, and the separators its run adds or takes away.
StepCost(before, p) ==
    LET runs(S) == IF S = {} THEN 0 ELSE Cardinality(Runs(S)) - 1
    IN  LengthOf(p) + Separator * (runs(before \cup {p}) - runs(before))

\* cut_sequence: passages in order while they fit, the first whatever it costs.
CutSequence(budget) ==
    FoldLeft(LAMBDA acc, k :
                LET i == order[k][1] p == order[k][2]
                    cost == StepCost(acc.taken[i], p)
                IN  IF acc.stopped \/ (k > 1 /\ acc.used + cost > budget) THEN [acc EXCEPT !.stopped = TRUE]
                    ELSE [acc EXCEPT !.used = @ + cost, !.taken[i] = @ \cup {p}],
             [taken |-> [i \in DOMAIN quotes |-> {}], used |-> 0, stopped |-> FALSE],
             [k \in DOMAIN order |-> k])

\* allocate: heads in item order while they fit, the first whatever it costs; then one
\* excerpt of each item a round, until one does not fit.
Allocate(heads, excerpts, budget) ==
    LET head == FoldLeft(LAMBDA acc, k :
                    IF acc.n < k - 1 \/ (k > 1 /\ acc.used + heads[k] > budget) THEN acc
                    ELSE [n |-> k, used |-> acc.used + heads[k]],
                    [n |-> 0, used |-> 0], [k \in DOMAIN heads |-> k])
        rounds == IF head.n = 0 THEN 0 ELSE Max({Len(excerpts[k]) : k \in 1..head.n})
        turns  == [t \in 1..(rounds * head.n) |-> <<((t - 1) \div head.n) + 1, ((t - 1) % head.n) + 1>>]
    IN  FoldLeft(LAMBDA acc, t :
            LET r == t[1] i == t[2] IN
            IF acc.stopped \/ r > Len(excerpts[i]) THEN acc
            ELSE IF acc.used + excerpts[i][r] > budget THEN [acc EXCEPT !.stopped = TRUE]
            ELSE [acc EXCEPT !.used = @ + excerpts[i][r], !.taken[i] = @ + 1],
            [n |-> head.n, used |-> head.used, taken |-> [k \in 1..head.n |-> 0], stopped |-> head.n < Len(heads)],
            turns)

\* assemble: the records a passage was taken of, their quotes, and what is left for
\* excerpts: nothing when the passages were cut.
AssembleFrom(cut, budget) ==
    LET positions == SelectSeq([i \in DOMAIN quotes |-> i], LAMBDA i : cut.taken[i] # {})
    IN  [heads |-> [k \in DOMAIN positions |-> QuoteLen(cut.taken[positions[k]])],
         excerpts |-> [k \in DOMAIN positions |-> quotes[positions[k]].excerpts],
         spent |-> cut.used, allowance |-> IF cut.stopped THEN cut.used ELSE budget]
Assemble(budget) == AssembleFrom(CutSequence(budget), budget)

----------------------------------------------------------------------------
(* The inputs                                                              *)

AddCandidate(c) ==
    /\ Len(pool) < MaxPool /\ quotes = <<>>
    /\ pool' = Append(pool, c) /\ UNCHANGED <<links, quotes, order>>
DeclareLink(i, j) ==
    /\ links = {} /\ i < j /\ links' = {<<i, j>>} /\ UNCHANGED <<pool, quotes, order>>
\* A record's passages join the order anywhere among those there are.
AddRecord(ps, es) ==
    /\ pool = <<>> /\ Len(quotes) < MaxRecords
    /\ quotes' = Append(quotes, [passages |-> ps, excerpts |-> es])
    /\ UNCHANGED <<pool, links, order>>
OrderPassage(i, p) ==
    /\ p \in quotes[i].passages /\ <<i, p>> \notin ToSet(order)
    /\ order' = Append(order, <<i, p>>) /\ UNCHANGED <<pool, links, quotes>>

ReconInit == pool = <<>> /\ links = {} /\ quotes = <<>> /\ order = <<>>
ReconNext ==
    \/ \E c \in CandidateKinds : AddCandidate(c)
    \/ \E i, j \in Cands : DeclareLink(i, j)
    \/ \E ps \in Passages, es \in ExcerptLens : AddRecord(ps, es)
    \/ \E i \in DOMAIN quotes : \E p \in quotes[i].passages : OrderPassage(i, p)

ReconSpec == ReconInit /\ [][ReconNext]_reconVars

----------------------------------------------------------------------------
(* Properties                                                              *)

\* No record is evidence of two items, whether bundled or walked to; an item quotes a
\* version of a message no member of its bundle supersedes (only a record the walk added
\* may be newer); a record is missing from the item it belongs to only when the evidence
\* bound, which counts it, left it out; and no more items are held beside the window than
\* recall reserved rows (check_reconstruct_count).
ItemsApart(items, claims) ==
    /\ \A k, l \in DOMAIN items : k # l => claims[k].kept \cap claims[l].kept = {}
    /\ \A k \in DOMAIN items :
          /\ claims[k].head \in claims[k].kept
          /\ SupersededBy(claims[k].head, claims[k].kept) \cap Cands = {}
          /\ Cardinality(claims[k].kept) + claims[k].omitted = Cardinality(items[k]) + Cardinality(Walked(items, k))
    /\ Len(items) <= ECount + Cardinality({i \in Cands : pool[i].reserved})
ItemsShareNothing == \A items \in {Chosen} : ItemsApart(items, [k \in DOMAIN items |-> ClaimsOf(items, k)])

\* For every order of the passages and every budget, what allocate reports is what the
\* items carry and stays within the allowance unless it is the first head alone: the
\* response never fails providers.check_allocation, and the running costs of passages
\* that join, extend or bridge earlier ones add up to the quotes' true lengths.
Kept(a, out, budget) ==
    /\ a.spent = SumOf(a.heads)
    /\ out.used = SumOf([k \in 1..out.n |-> a.heads[k] + SumOf(SubSeq(a.excerpts[k], 1, out.taken[k]))])
    /\ out.used > a.allowance => out.n = 1 /\ out.taken[1] = 0
    /\ a.spent > budget => Len(a.heads) = 1
BudgetIsKept ==
    (order # <<>> /\ Len(order) = SumOf([i \in DOMAIN quotes |-> Cardinality(quotes[i].passages)])) =>
        \A budget \in Budgets : \A a \in {Assemble(budget)} : Kept(a, Allocate(a.heads, a.excerpts, a.allowance), budget)

\* The items of a reconstruction share no evidence and the quotes of its records keep to
\* the budget and add up (reconstruct.py).
EvidenceIsSound == ItemsShareNothing /\ BudgetIsKept
=============================================================================
