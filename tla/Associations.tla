---------------------------- MODULE Associations ----------------------------
(***************************************************************************)
(* The declared associations of associations.py: entities with aliases,    *)
(* mentions of them by records, relations between entities and records;    *)
(* declaring and retracting them, the triggers that follow a deleted row,  *)
(* what migrate_channel_axis does with the declarations about the memories *)
(* it moves, and the read that walks from one entity to its neighbours.    *)
(*                                                                         *)
(* One agent and one project: both are equality conditions beside the      *)
(* channel in every statement here. Global is the channel '', Bridge the   *)
(* bridge type the migration moves memories away from. A name stands for   *)
(* what normalize() makes of it, relations carry no predicate, and the     *)
(* bounds on the items of one call and the report's wording are left out.  *)
(***************************************************************************)
EXTENDS Naturals, FiniteSets

CONSTANTS Global, Bridge, Concrete,   \* the channels
          EntityNames,
          GraphRecords,               \* memory ids
          NoAnchor, NoName,
          Recoverable,                \* the records whose metadata names Concrete
          RelationChannels,           \* the channels relations are declared in
          MaxEntities, MaxRelations,  \* ids handed out
          MaxCalls,
          TraverseBounds              \* the hop, answer and neighbourhood bounds asked with

ASSUME AssocAssumption ==
    /\ GraphRecords \subseteq Nat /\ IsFiniteSet(GraphRecords)
    /\ RelationChannels \subseteq {Global, Bridge, Concrete}
    /\ Bridge \notin {Global, Concrete}
    /\ \A b \in TraverseBounds : b.hops \in Nat /\ b.limit \in Nat /\ b.entities \in Nat

GraphChannels == {Global, Bridge, Concrete}
ConcreteOf(r) == IF r \in Recoverable THEN Concrete ELSE Global

VARIABLES graph,    \* [ents, aliases, mentions, rels, entId, relId]
          chanOf,   \* memory id -> its channel; the memories there are
          failed,   \* a migration ended in an exception and was rolled back
          calls

assocVars == <<graph, chanOf, failed, calls>>

Entity(e) == <<"entity", e>>
Memory(r) == <<"mem", r>>

\* Channels a declaration in channel c may take an entity from, the nearest first.
Visible(c) == IF c = Global THEN <<Global>> ELSE <<c, Global>>
Sees(c, d) == d = c \/ d = Global

Least(S) == CHOOSE n \in S : \A k \in S : n <= k

----------------------------------------------------------------------------
(* declare, retract                                                        *)

Known(g, c, n) == {e \in DOMAIN g.ents : /\ g.ents[e].chan = c
                                         /\ g.ents[e].name = n \/ <<e, n>> \in g.aliases}

\* _resolve_entity: the entity of that name or alias in the own channel, else in Global.
ResolveEntity(g, c, n, exact) ==
    IF Known(g, c, n) # {} THEN {Least(Known(g, c, n))}
    ELSE IF exact \/ c = Global \/ Known(g, Global, n) = {} THEN {}
    ELSE {Least(Known(g, Global, n))}

Registered(g, c, n, exact) ==
    IF ResolveEntity(g, c, n, exact) # {} THEN g
    ELSE [g EXCEPT !.entId = @ + 1,
                   !.ents = [e \in DOMAIN g.ents \cup {g.entId + 1} |->
                               IF e = g.entId + 1 THEN [chan |-> c, name |-> n] ELSE g.ents[e]]]

AliasRefused(g, c, e, alias) == ResolveEntity(g, c, alias, FALSE) \ {e} # {}

\* INSERT OR IGNORE under the unique key of relations.
WithRelation(g, c, s, o, anchor) ==
    IF \E x \in g.rels : x.chan = c /\ x.s = s /\ x.o = o /\ x.anchor = anchor THEN g
    ELSE [g EXCEPT !.relId = @ + 1,
                   !.rels = @ \cup {[id |-> g.relId + 1, chan |-> c, s |-> s, o |-> o, anchor |-> anchor]}]

Call == calls < MaxCalls /\ calls' = calls + 1

\* An anchor that is no record of the agent is dropped, the rest goes on without it.
AnchorOf(r) == IF r \in DOMAIN chanOf THEN r ELSE NoAnchor

DeclareEntity(c, n, alias, r) ==
    LET g == Registered(graph, c, n, alias # NoName)
        e == CHOOSE x \in ResolveEntity(g, c, n, alias # NoName) : TRUE
    IN  /\ Call
        /\ graph' = [g EXCEPT !.aliases = IF alias = NoName \/ AliasRefused(g, c, e, alias)
                                          THEN @ ELSE @ \cup {<<e, alias>>},
                              !.mentions = IF AnchorOf(r) = NoAnchor THEN @ ELSE @ \cup {<<e, r>>}]
        /\ graph'.entId <= MaxEntities
        /\ UNCHANGED <<chanOf, failed>>

\* The ends of a relation: a record of the agent, or a name, registered when it is new.
DeclareRelation(c, s, o, r) ==
    LET g1 == IF s[1] = "name" THEN Registered(graph, c, s[2], FALSE) ELSE graph
        g2 == IF o[1] = "name" THEN Registered(g1, c, o[2], FALSE) ELSE g1
        end(x) == IF x[1] = "mem" THEN x
                  ELSE Entity(CHOOSE e \in ResolveEntity(g2, c, x[2], FALSE) : TRUE)
    IN  /\ Call
        /\ \A x \in {s, o} : x[1] = "mem" => x[2] \in DOMAIN chanOf
        /\ graph' = WithRelation(g2, c, end(s), end(o), AnchorOf(r))
        /\ graph'.entId <= MaxEntities
        /\ graph'.relId <= MaxRelations
        /\ UNCHANGED <<chanOf, failed>>

Retract ==
    /\ Call
    /\ \/ \E x \in graph.rels : graph' = [graph EXCEPT !.rels = @ \ {x}]
       \/ \E m \in graph.mentions : graph' = [graph EXCEPT !.mentions = @ \ {m}]
    /\ UNCHANGED <<chanOf, failed>>

----------------------------------------------------------------------------
(* Triggers                                                                *)

Touching(g, end) == {x \in g.rels : x.s = end \/ x.o = end}

WithoutEntities(g, gone) ==
    [g EXCEPT !.ents = [e \in DOMAIN g.ents \ gone |-> g.ents[e]],
              !.aliases = {a \in @ : a[1] \notin gone},
              !.mentions = {m \in @ : m[1] \notin gone},
              !.rels = @ \ UNION {Touching(g, Entity(e)) : e \in gone}]

StoreMemory(r, c) ==
    /\ r \notin DOMAIN chanOf
    /\ Call
    /\ chanOf' = [i \in DOMAIN chanOf \cup {r} |-> IF i = r THEN c ELSE chanOf[i]]
    /\ UNCHANGED <<graph, failed>>

DeleteMemory(r) ==
    /\ r \in DOMAIN chanOf
    /\ Call
    /\ chanOf' = [i \in DOMAIN chanOf \ {r} |-> chanOf[i]]
    /\ graph' = [graph EXCEPT !.mentions = {m \in @ : m[2] # r},
                              !.rels = {x \in @ \ Touching(graph, Memory(r)) : x.anchor # r}]
    /\ UNCHANGED failed

----------------------------------------------------------------------------
(* migrate_channel_axis and follow_rechannelled                            *)

\* The channel a relation follows: its anchor's, else that of a record it names,
\* the subject before the object. lands: the moved memories and their channels.
LandingOf(x, lands) ==
    IF x.anchor # NoAnchor THEN {lands[r] : r \in {x.anchor} \cap DOMAIN lands}
    ELSE LET ends == <<{r \in DOMAIN lands : x.s = Memory(r)}, {r \in DOMAIN lands : x.o = Memory(r)}>>
         IN  {lands[r] : r \in IF ends[1] # {} THEN ends[1] ELSE ends[2]}

EntitiesOf(x) == {e \in DOMAIN graph.ents : x.s = Entity(e) \/ x.o = Entity(e)}
Filed == {e \in DOMAIN graph.ents : graph.ents[e].chan = Bridge}
FiledRels == {x \in graph.rels : x.chan = Bridge}

MentionsTo(c, lands) == {m \in graph.mentions : m[1] \in Filed /\ m[2] \in DOMAIN lands /\ lands[m[2]] = c}
RelsTo(c, lands) == {x \in FiledRels : c \in LandingOf(x, lands)}
EntitiesTo(c, lands) ==
    {m[1] : m \in MentionsTo(c, lands)} \cup (Filed \cap UNION {EntitiesOf(x) : x \in RelsTo(c, lands)})

\* Relations between entities with no record behind them are copied to a channel where
\* one end goes and the other goes too or was not filed under Bridge.
CopiedTo(c, lands) ==
    {x \in FiledRels : /\ x.anchor = NoAnchor /\ x.s[1] = "entity" /\ x.o[1] = "entity"
                       /\ EntitiesOf(x) \cap EntitiesTo(c, lands) # {}
                       /\ EntitiesOf(x) \cap Filed \subseteq EntitiesTo(c, lands)}

\* The relation loop appends to a channel's set before it exists: for a relation
\* between two records nothing took the channel, unless a mention or an earlier
\* relation with an entity did.
KeyError(lands) ==
    \E c \in GraphChannels : \E x \in RelsTo(c, lands) :
        /\ EntitiesOf(x) = {}
        /\ MentionsTo(c, lands) = {}
        /\ \A y \in RelsTo(c, lands) : y.id < x.id => EntitiesOf(y) = {}

\* carry() of entities, mentions and relations to channel c. An entity the channel has
\* by name or alias stands for the carried one; an alias that names another entity the
\* channel sees is dropped, and its entity is incomplete.
NewTo(g, c, E) == {e \in E : Known(g, c, g.ents[e].name) = {}}

StandIns(g, c, E) ==
    [e \in DOMAIN graph.ents |->
        IF e \notin E THEN e
        ELSE IF e \in NewTo(g, c, E) THEN g.entId + Cardinality({f \in NewTo(g, c, E) : f <= e})
        ELSE Least(Known(g, c, g.ents[e].name))]

WithStandIns(g, c, E) ==
    LET to == StandIns(g, c, E)
        new == NewTo(g, c, E)
    IN  [g EXCEPT !.entId = @ + Cardinality(new),
                  !.ents = [e \in DOMAIN g.ents \cup {to[f] : f \in new} |->
                              IF e \in DOMAIN g.ents THEN g.ents[e]
                              ELSE [chan |-> c, name |-> g.ents[CHOOSE f \in new : to[f] = e].name]]]

ImageOf(x, c, to) ==
    LET end(z) == IF z[1] = "entity" THEN Entity(to[z[2]]) ELSE z
    IN  [x EXCEPT !.id = 0, !.chan = c, !.s = end(x.s), !.o = end(x.o)]

\* The relations the channel has not, and of several that become alike the first.
FreshRels(g, c, to, told) ==
    {x \in told : /\ \A y \in g.rels : [y EXCEPT !.id = 0] # ImageOf(x, c, to)
                  /\ \A y \in told : y.id < x.id => ImageOf(y, c, to) # ImageOf(x, c, to)}

NumberedRels(g, c, to, fresh) ==
    {[ImageOf(x, c, to) EXCEPT !.id = g.relId + Cardinality({y \in fresh : y.id <= x.id})] : x \in fresh}

Carried(g, c, lands) ==
    LET E == EntitiesTo(c, lands)
        to == StandIns(g, c, E)
        g1 == WithStandIns(g, c, E)
        refused == {a \in g.aliases : a[1] \in E /\ AliasRefused(g1, c, to[a[1]], a[2])}
        fresh == FreshRels(g, c, to, RelsTo(c, lands) \cup CopiedTo(c, lands))
    IN  [g |-> [g1 EXCEPT !.aliases = @ \cup {<<to[a[1]], a[2]>> : a \in {b \in g.aliases \ refused : b[1] \in E}},
                          !.mentions = @ \cup {<<to[m[1]], m[2]>> : m \in MentionsTo(c, lands)},
                          !.relId = @ + Cardinality(fresh),
                          !.rels = @ \cup NumberedRels(g, c, to, fresh)],
         incomplete |-> {a[1] : a \in refused}]

\* What is left of the originals: the mentions and relations that moved go, then every
\* carried entity that lost no alias, that nothing mentions and that only relations
\* moved or copied still touch.
SettledKeepingNothing(g, carried, gone, copied, incomplete) == WithoutEntities(
    [g EXCEPT !.mentions = @ \ gone.mentions, !.rels = @ \ gone.rels], carried)

Settled(g, carried, gone, copied, incomplete) ==
    LET left == [g EXCEPT !.mentions = @ \ gone.mentions, !.rels = @ \ gone.rels]
    IN  WithoutEntities(left, {e \in carried \ incomplete :
            /\ \A m \in left.mentions : m[1] # e
            /\ Touching(left, Entity(e)) \subseteq copied \cup gone.rels})

Followed(lands) ==
    LET first == Carried(graph, Global, lands)
        second == Carried(first.g, Concrete, lands)
        gone == [mentions |-> UNION {MentionsTo(c, lands) : c \in GraphChannels},
                 rels |-> UNION {RelsTo(c, lands) : c \in GraphChannels}]
    IN  Settled(second.g, UNION {EntitiesTo(c, lands) : c \in GraphChannels}, gone,
                UNION {CopiedTo(c, lands) : c \in GraphChannels}, first.incomplete \cup second.incomplete)

\* The memories filed under Bridge move to the channel their metadata names, or to
\* Global when none is named and globalize asks for it. UPDATE OR IGNORE leaves the
\* ones whose new channel already holds their text.
Migrate(globalize, held) ==
    LET moving == {r \in DOMAIN chanOf : /\ chanOf[r] = Bridge
                                         /\ r \in Recoverable \/ globalize
                                         /\ r \notin held}
        lands == [r \in moving |-> ConcreteOf(r)]
    IN  /\ moving # {}
        /\ Call
        /\ IF KeyError(lands)
           THEN failed' = TRUE /\ UNCHANGED <<graph, chanOf>>
           ELSE /\ graph' = Followed(lands)
                /\ chanOf' = [r \in DOMAIN chanOf |-> IF r \in moving THEN lands[r] ELSE chanOf[r]]
                /\ UNCHANGED failed

AssocInit ==
    /\ graph = [ents |-> [e \in {} |-> 0], aliases |-> {}, mentions |-> {}, rels |-> {},
                entId |-> 0, relId |-> 0]
    /\ chanOf = [r \in GraphRecords |-> Bridge]
    /\ failed = FALSE
    /\ calls = 0

EndPoints == {<<"name", n>> : n \in EntityNames} \cup {Memory(r) : r \in GraphRecords}

AssocNext ==
    \/ \E c \in GraphChannels, n \in EntityNames, a \in EntityNames \cup {NoName},
          r \in GraphRecords \cup {NoAnchor} : a # n /\ DeclareEntity(c, n, a, r)
    \/ \E c \in RelationChannels, s \in EndPoints, o \in EndPoints, r \in GraphRecords \cup {NoAnchor} :
          s # o /\ DeclareRelation(c, s, o, r)
    \/ Retract
    \/ \E r \in GraphRecords, c \in GraphChannels : StoreMemory(r, c)
    \/ \E r \in GraphRecords : DeleteMemory(r)
    \/ \E globalize \in BOOLEAN, held \in SUBSET GraphRecords : Migrate(globalize, held)

AssocSpec == AssocInit /\ [][AssocNext]_assocVars

----------------------------------------------------------------------------
(* traverse: an entity, what it is related to, and the records naming each. *)

Reads(c, d) == c = Global \/ Sees(c, d)
SeenEntities(c) == {e \in DOMAIN graph.ents : Reads(c, graph.ents[e].chan)}

\* Relations between two entities, all three rows of which the channel sees.
SeenRels(c) == {x \in graph.rels : /\ Reads(c, x.chan) /\ x.s[1] = "entity" /\ x.o[1] = "entity"
                                   /\ EntitiesOf(x) \subseteq SeenEntities(c)}
Starts(c, n) == UNION {Known(graph, d, n) : d \in {d \in GraphChannels : Reads(c, d)}}

\* The entities of a set whose newest leading relation is newest, at most room.
Newest(S, room, by(_)) ==
    {e \in S : Cardinality({f \in S : by(f) > by(e) \/ (by(f) = by(e) /\ f < e)}) < room}

\* _neighbourhood: hop by hop up to max_hops, the edges of the last hop read but not
\* followed; a hop that would pass the bound on entities takes the newest and ends it.
FirstHop(c, n) == [dist |-> [e \in Starts(c, n) |-> 0], front |-> Starts(c, n), edges |-> {}]

NextHop(c, w, h, maxHops, bound) ==
    LET read == {x \in SeenRels(c) : EntitiesOf(x) \cap w.front # {}}
        found == (UNION {EntitiesOf(x) : x \in read}) \ DOMAIN w.dist
        by(e) == CHOOSE i \in {x.id : x \in read} :
                   /\ \E x \in read : x.id = i /\ e \in EntitiesOf(x)
                   /\ \A x \in read : e \in EntitiesOf(x) => x.id <= i
        room == bound - Cardinality(DOMAIN w.dist)
        over == Cardinality(found) > room
        taken == IF h = maxHops + 1 THEN {} ELSE IF over THEN Newest(found, room, by) ELSE found
    IN  [dist |-> [e \in DOMAIN w.dist \cup taken |-> IF e \in taken THEN h ELSE w.dist[e]],
         front |-> IF over THEN {} ELSE taken,
         edges |-> w.edges \cup read]

Hops(c, n, maxHops, bound) ==
    LET walk[h \in 0..maxHops + 1] ==
            IF h = 0 THEN FirstHop(c, n) ELSE NextHop(c, walk[h - 1], h, maxHops, bound)
    IN  walk[maxHops + 1]

\* The records of a channel that mention an entity: the first few, and how many in all.
MentionedIn(c, e) == {r \in DOMAIN chanOf : <<e, r>> \in graph.mentions /\ Reads(c, chanOf[r])}
FirstFew(S, limit) == {r \in S : Cardinality({q \in S : q < r}) < limit}

\* The entities an answer keeps: the nearest, and among those as near the ones reached
\* by a newer relation, then the lower id.
KeptOf(w, limit) ==
    LET rank(e) == LET led == {x.id : x \in {y \in w.edges : e \in EntitiesOf(y)
                            /\ \E f \in EntitiesOf(y) : f \in DOMAIN w.dist /\ w.dist[f] + 1 = w.dist[e]}}
                   IN  IF led = {} THEN 0 ELSE CHOOSE i \in led : \A j \in led : j <= i
        before(f, e) == \/ w.dist[f] < w.dist[e]
                        \/ w.dist[f] = w.dist[e] /\ rank(f) > rank(e)
                        \/ w.dist[f] = w.dist[e] /\ rank(f) = rank(e) /\ f < e
    IN  {e \in DOMAIN w.dist : Cardinality({f \in DOMAIN w.dist : before(f, e)}) < limit}

Unreached(w) == (UNION {EntitiesOf(x) : x \in w.edges}) \ DOMAIN w.dist

TraverseQuietly(c, n, maxHops, limit, bound) ==
    LET w == Hops(c, n, maxHops, bound)
        kept == KeptOf(w, limit)
    IN  [dist |-> w.dist, kept |-> kept,
         rels |-> {x \in w.edges : EntitiesOf(x) \subseteq kept},
         mentions |-> [e \in kept |-> FirstFew(MentionedIn(c, e), limit)],
         omitted |-> {o \in {"max_hops", "limit"} :
                        \/ o = "max_hops" /\ Unreached(w) # {}
                        \/ o = "limit" /\ kept # DOMAIN w.dist}]

Traverse(c, n, maxHops, limit, bound) ==
    LET w == Hops(c, n, maxHops, bound)
        kept == KeptOf(w, limit)
        cut == \E e \in kept : Cardinality(MentionedIn(c, e)) > limit
    IN  [dist |-> w.dist, kept |-> kept,
         rels |-> {x \in w.edges : EntitiesOf(x) \subseteq kept},
         mentions |-> [e \in kept |-> FirstFew(MentionedIn(c, e), limit)],
         omitted |-> {o \in {"max_hops", "limit"} :
                        \/ o = "max_hops" /\ Unreached(w) # {}
                        \/ o = "limit" /\ (kept # DOMAIN w.dist \/ cut)}]

(***************************************************************************)
(* Properties                                                              *)
(***************************************************************************)

\* The step is a migration that committed, and where a memory then is.
Migrated == DOMAIN chanOf' = DOMAIN chanOf /\ chanOf' # chanOf
Moved(r) == r \in DOMAIN chanOf /\ chanOf'[r] # chanOf[r]
Lands == [r \in {q \in DOMAIN chanOf : Moved(q)} |-> chanOf'[r]]

\* x' tells in the new graph what x told: same records, and entities that answer to
\* the names of x's in a channel the readers of x' see.
SameEnd(y, z, c) ==
    IF y[1] = "mem" THEN z = y
    ELSE /\ z[1] = "entity" /\ z[2] \in DOMAIN graph.ents'
         /\ \E d \in GraphChannels : Sees(c, d) /\ z[2] \in Known(graph', d, graph.ents[y[2]].name)
Tells(x, y) == /\ y.anchor = x.anchor
               /\ SameEnd(x.s, y.s, y.chan) /\ SameEnd(x.o, y.o, y.chan)

\* Each mention is found under an entity of the same name: one of a moved memory in the
\* memory's new channel, the others where they were.
MentionsFollow ==
    \A m \in graph.mentions :
        LET e == graph.ents[m[1]]
            c == IF e.chan = Bridge /\ Moved(m[2]) THEN chanOf'[m[2]] ELSE e.chan
        IN  \E f \in Known(graph', c, e.name) : <<f, m[2]>> \in graph'.mentions

\* Each relation is told where it follows a moved memory to, or where it was, or where the
\* entities it is about went.
RelationsFollow ==
    \A x \in graph.rels :
        LET to == IF x.chan = Bridge THEN LandingOf(x, Lands) ELSE {}
        IN  \E y \in graph'.rels :
              /\ Tells(x, y)
              /\ to # {} => y.chan \in to
              /\ to = {} => y.chan = x.chan \/ x \in CopiedTo(y.chan, Lands)

\* migrate_channel_axis takes the declarations about the memories it moves with them, and
\* no declaration is lost to every reader (follow_rechannelled, carry).
DeclarationsFollow == [][Migrated => MentionsFollow /\ RelationsFollow]_assocVars

\* Everything connected to the start, by reference: the least set of entities with the
\* start that no relation leaves.
Connected(c, n) ==
    LET closed == {S \in SUBSET SeenEntities(c) :
                     /\ Starts(c, n) \subseteq S
                     /\ \A x \in SeenRels(c) : EntitiesOf(x) \cap S # {} => EntitiesOf(x) \subseteq S}
    IN  {e \in SeenEntities(c) : \A S \in closed : e \in S}

NamesInUse == {graph.ents[e].name : e \in DOMAIN graph.ents} \cup {a[2] : a \in graph.aliases}

\* traverse says what it leaves out: an answer that reports no omission holds every
\* entity connected to the one asked for, every relation among them and every mention
\* the channel sees, whichever of the hop, answer and neighbourhood bounds is in force;
\* and a name leads to one entity of a channel, which only the handlers ensure.
TraverseOwnsUp ==
    \A c \in GraphChannels, n \in NamesInUse :
        /\ Cardinality(Known(graph, c, n)) <= 1
        /\ Starts(c, n) # {} => \A b \in TraverseBounds :
              LET t == Traverse(c, n, b.hops, b.limit, b.entities)
              IN  t.omitted = {} =>
                    /\ t.kept = Connected(c, n)
                    /\ t.rels = {x \in SeenRels(c) : EntitiesOf(x) \subseteq t.kept}
                    /\ \A e \in t.kept : t.mentions[e] = MentionedIn(c, e)

\* What the docstring of do_migrate_channel_axis promises of every migration: the
\* declarations about a re-channelled memory go with it. One that ends in an exception
\* moves neither.
MigrationCompletes == ~failed
=============================================================================
