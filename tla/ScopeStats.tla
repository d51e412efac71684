---------------------------- MODULE ScopeStats ----------------------------
(* The process-local cache of the per-scope aggregates that recall reads    *)
(* (src/cpersona/scope_stats.py) over the write seam of the store           *)
(* (database.transaction in src/cpersona/database.py).                      *)
(*                                                                         *)
(* A recall reads the row counts of its isolation scope and the ends of its *)
(* timestamps.  Each half is two statements on the read connection, every   *)
(* one on a snapshot of its own, and is kept with the write generation read *)
(* before them and the clock read before that.  The generation counts the   *)
(* commits of this process; a commit of another process is seen only when   *)
(* the entry grows old.  The rows themselves are abstracted to the number   *)
(* of commits that moved an aggregate: what a statement returned is the     *)
(* number of commits it saw.                                                *)
EXTENDS Naturals, Sequences, FiniteSets

CONSTANTS
  StatScopes,        \* the isolation triples asked about
  Callers,       \* the recalls in flight
  EntryCap,      \* SCOPE_CACHE_ENTRY_CAP
  Ttl,           \* SCOPE_STATS_TTL_SECONDS, in ticks
  CacheEnabled,  \* SCOPE_STATS_CACHE_ENABLED
  MaxCommits,    \* bound: commits that move an aggregate
  MaxClock,      \* bound: ticks of the monotonic clock
  MaxAsks        \* bound: calls made

ASSUME ScopeStatsAssumption ==
  /\ EntryCap \in Nat \ {0}
  /\ Ttl \in Nat \ {0}
  /\ CacheEnabled \in BOOLEAN

VARIABLES
  commits,     \* the ticks at which the commits that moved an aggregate were made
  settled,     \* the last of them whose transaction() has returned in this process
  writer,      \* the transaction that holds the write lock of this process
  generation,  \* _write_generation
  clock,       \* _clock
  cache,       \* _cache: the scopes in the order of insertion, each with its halves
  reads,       \* the calls in flight
  asked        \* how many calls have been made

statsVars == <<commits, settled, writer, generation, clock, cache, reads, asked>>

Halves == {"counts", "span"}

-----------------------------------------------------------------------------
(* The write seam.                                                          *)

NoWriter == [st |-> "idle", neutral |-> FALSE, commit |-> 0]

BeginWrite(neutral) ==
  /\ writer = NoWriter
  /\ writer' = [NoWriter EXCEPT !.st = "open", !.neutral = neutral]
  /\ UNCHANGED <<commits, settled, generation, clock, cache, reads, asked>>

\* The commit runs in the thread of the connection: readers see it before
\* transaction() goes on.
CommitWrite ==
  /\ writer.st = "open"
  /\ ~writer.neutral => Len(commits) < MaxCommits
  /\ commits' = IF writer.neutral THEN commits ELSE Append(commits, clock)
  /\ writer' = [writer EXCEPT !.st = "committed", !.commit = IF writer.neutral THEN settled ELSE Len(commits')]
  /\ UNCHANGED <<settled, generation, clock, cache, reads, asked>>

\* The statement after the commit, which a neutral transaction leaves out.
Bump == generation + (IF writer.neutral THEN 0 ELSE 1)

ReturnWrite ==
  /\ writer.st = "committed"
  /\ generation' = Bump
  /\ settled' = writer.commit
  /\ writer' = NoWriter
  /\ UNCHANGED <<commits, clock, cache, reads, asked>>

\* A body that raises is rolled back.  A cancellation that lands while the
\* commit runs raises too: the commit stands, and the generation with it.
AbandonWrite ==
  /\ writer.st \in {"open", "committed"}
  /\ writer' = NoWriter
  /\ UNCHANGED <<commits, settled, generation, clock, cache, reads, asked>>

ForeignCommit ==
  /\ writer.st # "open"
  /\ Len(commits) < MaxCommits
  /\ commits' = Append(commits, clock)
  /\ UNCHANGED <<settled, writer, generation, clock, cache, reads, asked>>

Tick ==
  /\ clock < MaxClock
  /\ clock' = clock + 1
  /\ UNCHANGED <<commits, settled, writer, generation, cache, reads, asked>>

-----------------------------------------------------------------------------
(* The cache.                                                               *)

Unstamped == [st |-> "never"]

\* Where the map holds the scope, if it does.
Entry(scope) == {i \in DOMAIN cache : cache[i].scope = scope}

Half(scope, half) ==
  IF Entry(scope) = {} THEN Unstamped ELSE cache[CHOOSE i \in Entry(scope) : TRUE].halves[half]

\* _fresh without the comparison of the generation.
FreshByAge(kept) == kept.st = "kept" /\ clock - kept.at < Ttl

Fresh(kept) ==
  /\ kept.st = "kept"
  /\ kept.generation = generation
  /\ clock - kept.at < Ttl

\* The pop of the oldest entry once the map is past its cap.
Evicted(entries) ==
  SubSeq(entries, 1 + (IF Len(entries) > EntryCap THEN Len(entries) - EntryCap ELSE 0), Len(entries))

Stored(scope, half, kept) ==
  IF ~CacheEnabled \/ kept.generation # generation THEN cache
  ELSE IF Entry(scope) # {}
  THEN [i \in DOMAIN cache |->
          IF cache[i].scope = scope THEN [cache[i] EXCEPT !.halves[half] = kept] ELSE cache[i]]
  ELSE Evicted(Append(cache, [scope |-> scope, halves |-> [h \in Halves |-> IF h = half THEN kept ELSE Unstamped]]))

NoRead == [st |-> "idle"]

\* What an answer may not miss: every commit of a transaction() of this process
\* that has returned, and every commit at least as old as an entry may grow.
StaleFloor ==
  LET old == {i \in DOMAIN commits : commits[i] + Ttl <= clock}
  IN  IF Cardinality(old) > settled THEN Cardinality(old) ELSE settled

\* The read that finds a fresh half answers at once; another one notes the
\* clock and the generation, and goes on to its statements.
Ask(c, scope, half) ==
  /\ reads[c] = NoRead
  /\ asked < MaxAsks
  /\ LET kept == Half(scope, half)
     IN  reads' = [reads EXCEPT ![c] =
           IF CacheEnabled /\ Fresh(kept)
           THEN [st |-> "answered", floor |-> StaleFloor, value |-> kept.value]
           ELSE [st |-> "first", scope |-> scope, half |-> half, floor |-> StaleFloor,
                 at |-> clock, generation |-> generation]]
  /\ asked' = asked + 1
  /\ UNCHANGED <<commits, settled, writer, generation, clock, cache>>

\* COUNT over the memories, or the earliest timestamp.
FirstStatement(c) ==
  /\ reads[c].st = "first"
  /\ reads' = [reads EXCEPT ![c] =
       [st |-> "second", scope |-> reads[c].scope, half |-> reads[c].half, floor |-> reads[c].floor,
        at |-> reads[c].at, generation |-> reads[c].generation, value |-> <<Len(commits)>>]]
  /\ UNCHANGED <<commits, settled, writer, generation, clock, cache, asked>>

\* COUNT over the episodes, or the latest timestamp; then _store and the
\* return, with no await between them.
SecondStatement(c) ==
  /\ reads[c].st = "second"
  /\ LET r == reads[c]
         value == Append(r.value, Len(commits))
     IN  /\ cache' = Stored(r.scope, r.half,
                            [st |-> "kept", value |-> value, generation |-> r.generation, at |-> r.at])
         /\ reads' = [reads EXCEPT ![c] = [st |-> "answered", floor |-> r.floor, value |-> value]]
  /\ UNCHANGED <<commits, settled, writer, generation, clock, asked>>

LeaveStats(c) ==
  /\ reads[c].st = "answered"
  /\ reads' = [reads EXCEPT ![c] = NoRead]
  /\ UNCHANGED <<commits, settled, writer, generation, clock, cache, asked>>

-----------------------------------------------------------------------------
StatsInit ==
  /\ commits = <<>>
  /\ settled = 0
  /\ writer = NoWriter
  /\ generation = 0
  /\ clock = 0
  /\ cache = <<>>
  /\ reads = [c \in Callers |-> NoRead]
  /\ asked = 0

StatsNext ==
  \/ \E neutral \in BOOLEAN : BeginWrite(neutral)
  \/ CommitWrite
  \/ ReturnWrite
  \/ AbandonWrite
  \/ ForeignCommit
  \/ Tick
  \/ \E c \in Callers :
       \/ \E scope \in StatScopes, half \in Halves : Ask(c, scope, half)
       \/ FirstStatement(c)
       \/ SecondStatement(c)
       \/ LeaveStats(c)

StatsSpec == StatsInit /\ [][StatsNext]_statsVars

-----------------------------------------------------------------------------
(* Whatever the writers of this process and of others do between the         *)
(* statements of a read, and whichever of them is cancelled, no answer        *)
(* misses a commit of this process that was reported done before the call,    *)
(* nor a commit older than the age an entry may reach; and the map never      *)
(* outgrows its cap.                                                          *)
AggregatesKeepUp ==
  /\ \A c \in Callers : reads[c].st = "answered" => \A i \in 1..2 : reads[c].value[i] >= reads[c].floor
  /\ Len(cache) <= EntryCap
============================================================================
