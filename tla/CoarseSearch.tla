---------------------------- MODULE CoarseSearch ----------------------------
(* The coarse search of the rows past the scan window (coarse_search.py, over  *)
(* the file of coarse_index.py) and the far seats it fills (far_seats.py).     *)
(*                                                                            *)
(* A read through the file joins what the file held when it was built, less    *)
(* the rows the change log names, with the rows only the store can answer for, *)
(* in statements between which other writers commit.  What the log names is    *)
(* taken here as exact: its clock, pruning and refusals, and the snapshot and  *)
(* the purge race of a build, are those of VectorIndex.                        *)
(*                                                                            *)
(* A scope is the rows with mine; a vector is its distance and its cosine to   *)
(* the one query asked; times are numbers in the order of their texts.         *)
EXTENDS Integers, Sequences, FiniteSets, FiniteSetsExt

CONSTANTS
  RowValues,   \* [at, stamp, vec, width, mine, rejected]: what a row may hold; vec is NoVec for none
  NoVec,
  Distance,    \* vector -> Hamming distance of its sign bits to the query's
  Cosine,      \* vector -> cosine to the query
  Floor,       \* the least cosine seated
  Canonical,   \* the created_at texts of the canonical form
  QueryWidth,  \* the width of the query's vector
  Queries,     \* [start, end, period, k]; end is NoEnd and period NoPeriod for none
  NoEnd, NoPeriod,
  Seats,       \* SEATS
  MaxIds,      \* bound: ids handed out
  MaxEdits     \* bound: writes and builds

ASSUME CoarseAssumption ==
  /\ RowValues \subseteq [at : Nat, stamp : Nat, vec : DOMAIN Distance \cup {NoVec}, width : Nat,
                          mine : BOOLEAN, rejected : BOOLEAN]
  /\ NoVec \notin DOMAIN Distance
  /\ Distance \in [DOMAIN Distance -> Nat] /\ Cosine \in [DOMAIN Distance -> Int]
  /\ \A q \in Queries : q.k \in Nat
  /\ Seats \in Nat

VARIABLES
  held,     \* id -> row: the memories table
  lastRow,  \* the last id handed out
  coarse,   \* the file: [rows, watermark, holes, width], or NoCoarse
  named,    \* the ids the change log names since the build
  probe,    \* the search under way
  edits

coarseVars == <<held, lastRow, coarse, named, probe, edits>>

NoCoarse == [rows |-> <<>>, watermark |-> 0, holes |-> {}, width |-> 0]
NoProbe == [st |-> "idle"]

-----------------------------------------------------------------------------
(* The elements of S one after the other, as before says.                    *)
Sequenced(S, before(_, _)) ==
  [k \in 1..Cardinality(S) |-> CHOOSE x \in S : Cardinality({y \in S : before(y, x)}) = k - 1]

(* The order of every scan: created_at DESC, id ASC.                         *)
EarlierIn(rows, i, j) == rows[i].at > rows[j].at \/ (rows[i].at = rows[j].at /\ i < j)
InScanOrder(rows, ids) == Sequenced(ids, LAMBDA i, j : EarlierIn(rows, i, j))

(* PERIOD_PREDICATE: a stamp datetime() cannot read, 0 here, is in no period. *)
InPeriod(row, period) == period = NoPeriod \/ (row.stamp > 0 /\ row.stamp >= period.low /\ row.stamp < period.high)

Scannable(rows, period) ==
  {i \in DOMAIN rows : rows[i].vec # NoVec /\ rows[i].mine /\ InPeriod(rows[i], period)}

Placed(q, p) == p >= q.start /\ (q.end = NoEnd \/ p < q.end)

(* _top: the k best by distance, then by position.                           *)
Best_k(found, k) ==
  LET order == Sequenced(found, LAMBDA a, b :
                 a.distance < b.distance \/ (a.distance = b.distance /\ a.position < b.position))
  IN  SubSeq(order, 1, Min({k, Len(order)}))

(* _from_live: every row of the scope has a position, the rows of the query's *)
(* width are ranked.                                                          *)
FromLive(rows, q) ==
  LET order == InScanOrder(rows, Scannable(rows, q.period))
  IN  Best_k({[id |-> order[n], distance |-> Distance[rows[order[n]].vec], position |-> n - 1] :
               n \in {m \in DOMAIN order : Placed(q, m - 1) /\ rows[order[m]].width = QueryWidth}}, q.k)

-----------------------------------------------------------------------------
(* build_coarse_index over plan_rows.  Several widths, or nothing the file     *)
(* can hold, decline the build and leave the file as it was.                   *)
Embedded == {i \in DOMAIN held : held[i].vec # NoVec}
Kept_ == {i \in Embedded : held[i].at \in Canonical}

BuildCoarse ==
  /\ edits < MaxEdits
  /\ Cardinality({held[i].width : i \in Embedded}) = 1 /\ Kept_ # {}
  /\ coarse' = [rows |-> [i \in Kept_ |-> held[i]], watermark |-> Max(DOMAIN held),
                holes |-> DOMAIN held \ Kept_, width |-> held[CHOOSE i \in Kept_ : TRUE].width]
  /\ named' = {}
  /\ edits' = edits + 1
  /\ UNCHANGED <<held, lastRow, probe>>

Disturbed == IF probe.st \in {"idle", "seated"} THEN probe ELSE [probe EXCEPT !.quiet = FALSE]

StoreRow(row) ==
  /\ edits < MaxEdits /\ lastRow < MaxIds
  /\ lastRow' = lastRow + 1
  /\ held' = [i \in DOMAIN held \cup {lastRow + 1} |-> IF i \in DOMAIN held THEN held[i] ELSE row]
  /\ probe' = Disturbed
  /\ edits' = edits + 1
  /\ UNCHANGED <<coarse, named>>

(* An update of the embedding, the axes or a time is named by the log's        *)
(* trigger; a rejection is kept in a table the log does not watch.             *)
Watched(row) == <<row.at, row.stamp, row.vec, row.width, row.mine>>

NamedBy(i, row) == IF Watched(held[i]) = Watched(row) THEN {} ELSE {i}

UpdateRow(i, row) ==
  /\ edits < MaxEdits /\ i \in DOMAIN held /\ held[i] # row
  /\ held' = [held EXCEPT ![i] = row]
  /\ named' = named \cup NamedBy(i, row)
  /\ probe' = Disturbed
  /\ edits' = edits + 1
  /\ UNCHANGED <<lastRow, coarse>>

DeleteRow(i) ==
  /\ edits < MaxEdits /\ i \in DOMAIN held
  /\ held' = [j \in DOMAIN held \ {i} |-> held[j]]
  /\ named' = named \cup {i}
  /\ probe' = Disturbed
  /\ edits' = edits + 1
  /\ UNCHANGED <<lastRow, coarse>>

(* A timestamp repair rewrites the stamp and then discards a file that holds   *)
(* the row (discard_if_holding), unless the unlink fails.                      *)
RestampRow(i, stamp, unlinked) ==
  /\ edits < MaxEdits /\ i \in DOMAIN held /\ held[i].stamp # stamp
  /\ held' = [held EXCEPT ![i].stamp = stamp]
  /\ named' = named \cup {i}
  /\ coarse' = IF i \in DOMAIN coarse.rows /\ unlinked THEN NoCoarse ELSE coarse
  /\ probe' = Disturbed
  /\ edits' = edits + 1
  /\ UNCHANGED lastRow

-----------------------------------------------------------------------------
(* coarse_candidates through the file.  The file object is read once, from     *)
(* its cache, and keeps answering after the file is replaced or discarded.     *)

(* vector_index.select, then the period against the stamps of the build.       *)
Selected(index, changed, period) == Scannable(index.rows, period) \ changed

(* cached_coarse_index: a file that is missing, does not load, or holds        *)
(* vectors of another width answers nothing.                                   *)
Loaded == coarse # NoCoarse /\ coarse.width = QueryWidth

(* A lower bound outside the canonical form, 0 here, is left to the live store.*)
BeginProbe(q) ==
  /\ probe.st = "idle" /\ q.k > 0
  /\ Loaded
  /\ q.period # NoPeriod => q.period.low > 0
  /\ probe' = [st |-> "selected", query |-> q, index |-> coarse, changed |-> named, quiet |-> TRUE,
               found |-> <<>>]
  /\ UNCHANGED <<held, lastRow, coarse, named, edits>>

ProbeSelected == Selected(probe.index, probe.changed, probe.query.period)

(* _lost_since_build; falling back ends the read through the file.            *)
Lost(selected, watermark) ==
  \E i \in selected : i \in DOMAIN held /\ i <= watermark /\ held[i].mine /\ held[i].vec = NoVec

CheckLost ==
  /\ probe.st = "selected"
  /\ probe' = IF Lost(ProbeSelected, probe.index.watermark) THEN NoProbe ELSE [probe EXCEPT !.st = "checked"]
  /\ UNCHANGED <<held, lastRow, coarse, named, edits>>

(* _index_tail_statement: what only the store can answer for.                  *)
TailWithoutHoles(index, changed, period) ==
  {i \in Scannable(held, period) : i > index.watermark \/ i \in changed}

Tail_(index, changed, period) ==
  {i \in Scannable(held, period) : i > index.watermark \/ i \in index.holes \cup changed}

(* _insertion: how many of the selected rows come before a row of the tail.    *)
Insertion(index, order, i) ==
  Cardinality({n \in DOMAIN order :
    \/ index.rows[order[n]].at > held[i].at
    \/ index.rows[order[n]].at = held[i].at /\ order[n] < i})

(* _rank: the positions the two orders take when they are merged.              *)
RankWith(index, selected, tail, q) ==
  LET order == InScanOrder(index.rows, selected)
      rest == InScanOrder(held, tail)
      inserted == [t \in DOMAIN rest |-> Insertion(index, order, rest[t])]
      restPlace(t) == inserted[t] + t - 1
      indexPlace(n) == n - 1 + Cardinality({t \in DOMAIN rest : inserted[t] <= n - 1})
  IN  Best_k({[id |-> rest[t], distance |-> Distance[held[rest[t]].vec], position |-> restPlace(t)] :
                t \in {u \in DOMAIN rest : Placed(q, restPlace(u))}}
             \cup
             {[id |-> order[n], distance |-> Distance[index.rows[order[n]].vec], position |-> indexPlace(n)] :
                n \in {m \in DOMAIN order : Placed(q, indexPlace(m))}}, q.k)

RankTail ==
  /\ probe.st = "checked"
  /\ LET tail == Tail_(probe.index, probe.changed, probe.query.period)
     IN  probe' = IF \E i \in tail : held[i].width # QueryWidth THEN NoProbe
                  ELSE [probe EXCEPT !.st = "ranked",
                                     !.found = RankWith(probe.index, ProbeSelected, tail, probe.query)]
  /\ UNCHANGED <<held, lastRow, coarse, named, edits>>

(* _all_exist.                                                               *)
CheckExist ==
  /\ probe.st = "ranked"
  /\ probe' = IF \A n \in DOMAIN probe.found : probe.found[n].id \in DOMAIN held
              THEN [probe EXCEPT !.st = "candidates"] ELSE NoProbe
  /\ UNCHANGED <<held, lastRow, coarse, named, edits>>

-----------------------------------------------------------------------------
(* far_seats: the candidates' own rows are read again, in the scope and the    *)
(* period, and scored by the vectors they hold now; the seats are read again   *)
(* in the scope, SEATS at a time.                                              *)

Rescored(i, period) ==
  /\ i \in Scannable(held, period)
  /\ held[i].width = QueryWidth /\ ~held[i].rejected
  /\ Cosine[held[i].vec] >= Floor

ScoreCandidates ==
  /\ probe.st = "candidates"
  /\ LET kept == {n \in DOMAIN probe.found : Rescored(probe.found[n].id, probe.query.period)}
         hit(c) == [id |-> c.id, cosine |-> Cosine[held[c.id].vec], position |-> c.position]
     IN  probe' = [probe EXCEPT !.st = "scored",
                     !.found = Sequenced({hit(probe.found[n]) : n \in kept}, LAMBDA a, b :
                       a.cosine > b.cosine \/ (a.cosine = b.cosine /\ a.position < b.position))]
  /\ UNCHANGED <<held, lastRow, coarse, named, edits>>

SeatRows ==
  /\ probe.st = "scored"
  /\ LET there == Sequenced({n \in DOMAIN probe.found :
                     probe.found[n].id \in DOMAIN held /\ held[probe.found[n].id].mine}, LAMBDA m, n : m < n)
     IN  probe' = [st |-> "seated", query |-> probe.query, quiet |-> probe.quiet,
                   seats |-> [n \in 1..Min({Seats, Len(there)}) |-> probe.found[there[n]].id],
                   stored |-> held]
  /\ UNCHANGED <<held, lastRow, coarse, named, edits>>

EndProbe ==
  /\ probe.st = "seated"
  /\ probe' = NoProbe
  /\ UNCHANGED <<held, lastRow, coarse, named, edits>>

-----------------------------------------------------------------------------
CoarseInit ==
  /\ held = <<>> /\ lastRow = 0
  /\ coarse = NoCoarse /\ named = {}
  /\ probe = NoProbe
  /\ edits = 0

CoarseNext ==
  \/ BuildCoarse
  \/ \E row \in RowValues : StoreRow(row)
  \/ \E i \in DOMAIN held, row \in RowValues : UpdateRow(i, row)
  \/ \E i \in DOMAIN held : DeleteRow(i)
  \/ \E i \in DOMAIN held, r \in RowValues, unlinked \in BOOLEAN : RestampRow(i, r.stamp, unlinked)
  \/ \E q \in Queries : BeginProbe(q)
  \/ CheckLost
  \/ RankTail
  \/ CheckExist
  \/ ScoreCandidates
  \/ SeatRows
  \/ EndProbe

CoarseSpec == CoarseInit /\ [][CoarseNext]_coarseVars

-----------------------------------------------------------------------------
(* A search through the file that no writer disturbed offers exactly the       *)
(* candidates, distances and positions of the live scan; a disturbed one never *)
(* offers a row twice or two rows at one position, and offers only rows still  *)
(* stored; and whatever happened meanwhile, each seat goes to a row of the     *)
(* scope (coarse_search._from_index and _rank, far_seats.seat_rows).           *)
CoarseAnswer ==
  /\ probe.st \in {"ranked", "candidates"} =>
       /\ IsInjective([n \in DOMAIN probe.found |-> probe.found[n].id])
       /\ IsInjective([n \in DOMAIN probe.found |-> probe.found[n].position])
       /\ probe.quiet => probe.found = FromLive(held, probe.query)
  /\ probe.st = "seated" =>
       /\ IsInjective(probe.seats)
       /\ \A n \in DOMAIN probe.seats :
            probe.seats[n] \in DOMAIN probe.stored /\ probe.stored[probe.seats[n]].mine
============================================================================
