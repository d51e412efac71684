------------------------------- MODULE Access -------------------------------
(* Access control of the tools: the guard around every handler               *)
(* (src/cpersona/acl.py), and the ledger that gives each signed-in subject    *)
(* an alias, shared by the server processes of one store                      *)
(* (src/cpersona/aliases.py).                                                 *)
(*                                                                           *)
(* Inside one process a lookup and an issuance run without an await; other    *)
(* processes and the operator, who edits the file by hand and takes no lock,  *)
(* come between the re-read and the rename of an issuance.  An alias is a     *)
(* member of AliasNames, the reserved prefix; a file's fingerprint is its     *)
(* version.  Tokens, refusal texts and the owners of export files are left    *)
(* out.                                                                       *)
EXTENDS Naturals, FiniteSets, FiniteSetsExt, Functions

CONSTANTS
  Servers,       \* server processes over one store and one ledger
  Subjects,      \* the (issuer, subject) pairs of the partitioned client
  AliasNames,    \* the agent ids under the reserved prefix
  PlainAgents,   \* the other agent ids
  AclRequests,      \* the calls made: who asks (bounded: the client is partitioned, per_subject), and for what
  NoSubject,     \* no subject on the principal
  Omitted,       \* an argument that was not sent
  Wild,          \* WILDCARD, "*"
  Me,            \* SELF_SENTINEL, "@me"
  MaxAclCalls,   \* bound: calls that reach a guard
  MaxLedgerEdits       \* bound: edits of the operator

Read == 1
Writing == 2
AgentIds == AliasNames \cup PlainAgents
NoOne == "none"

\* The tools, one of each kind of demand.
AclTools == {"status", "pause", "findings", "recall", "store", "merge_copy", "merge_move", "fix_own", "fix_all"}

\* A client's grants: the level of an agent it names, or of all the others.
Grants == UNION {[named -> 0..Writing] : named \in SUBSET (AgentIds \cup {Wild})}

ASSUME AccessAssumption ==
  /\ AliasNames \cap PlainAgents = {} /\ Wild \notin AgentIds /\ NoOne \notin Servers
  /\ AclRequests \subseteq [grants : Grants, bounded : BOOLEAN, subject : Subjects \cup {NoSubject}, tool : AclTools,
                           agent : AgentIds \cup {Omitted, Me}, target : AgentIds \cup {Omitted, Me},
                           alias : {NoOne}]

VARIABLES
  ledger,    \* the file: its rows, its version, and whether it parses
  server,    \* per process: up, the rows in memory, the version they are of, the call in its guard
  holder,    \* the process that holds the lock file, if any
  running,   \* the handlers under way
  occupied,  \* the agent ids that have rows in the store
  told,      \* the (subject, alias) pairs answered to a caller
  cut,       \* the subjects and the aliases whose rows the operator has edited
  made,      \* calls made
  ledgerEdits      \* edits made

accessVars == <<ledger, server, holder, running, occupied, told, cut, made, ledgerEdits>>

Idle == [st |-> "idle"]

-----------------------------------------------------------------------------
(* The grant table.                                                          *)

\* effective_permission without the weakest named grant.
PermissionOfWild(grants, agent) ==
  IF agent \in DOMAIN grants THEN grants[agent] ELSE IF Wild \in DOMAIN grants THEN grants[Wild] ELSE 0

EffectivePermission(grants, agent) ==
  IF agent = Wild
  THEN IF Wild \in DOMAIN grants THEN Min({grants[a] : a \in DOMAIN grants}) ELSE 0
  ELSE IF agent \in DOMAIN grants THEN grants[agent]
  ELSE IF Wild \in DOMAIN grants THEN grants[Wild] ELSE 0

ConnectionAgent(grants) ==
  LET writable == {a \in DOMAIN grants \ {Wild} : grants[a] >= Writing}
  IN  IF Wild \in DOMAIN grants /\ grants[Wild] >= Writing THEN Omitted
      ELSE IF Cardinality(writable) = 1 THEN CHOOSE a \in writable : TRUE ELSE Omitted

-----------------------------------------------------------------------------
(* The tools, by what they demand.                                           *)

AgentArg(a) == IF a = Omitted THEN Wild ELSE a

Demands(tool, agent, target) ==
  CASE tool = "status"     -> {}
    [] tool = "pause"      -> {<<Wild, Writing>>}
    [] tool = "findings"   -> {<<Wild, Read>>}
    [] tool = "recall"     -> {<<AgentArg(agent), Read>>}
    [] tool = "store"      -> {<<AgentArg(agent), Writing>>}
    [] tool = "merge_copy" -> {<<AgentArg(agent), Read>>, <<AgentArg(target), Writing>>}
    [] tool = "merge_move" -> {<<AgentArg(agent), Writing>>, <<AgentArg(target), Writing>>}
    [] tool = "fix_own"    -> {<<AgentArg(agent), Writing>>}
    [] tool = "fix_all"    -> {<<AgentArg(agent), Writing>>, <<Wild, Writing>>}

\* _ROW_CREATING_SCOPE: the argument that names the agent new rows are filed under.
CreatesUnder(tool, agent, target) ==
  CASE tool = "store" -> agent
    [] tool \in {"merge_copy", "merge_move"} -> target
    [] OTHER -> Omitted

-----------------------------------------------------------------------------
(* The ledger in a process.                                                  *)

\* _trusted: the fingerprint of a file written a moment ago is not remembered.
Seens == {ledger.version, 0}

\* _refresh: the rows and the version a process holds after it, of which a
\* strict one refuses a file that does not parse.
Unchanged(m) == m.seen = ledger.version \/ ledger.version = 0 \/ ~ledger.parses
RefreshedLedger(m, seen) == IF Unchanged(m) THEN m ELSE [m EXCEPT !.rows = ledger.rows, !.seen = seen]

\* An issuance over the rows in memory, without the strict re-read.
RereadNothing(m, seen) == m
Reread(m, seen) == RefreshedLedger(m, seen)

Aliases(rows) == {rows[s] : s \in DOMAIN rows}
With(rows, s, alias) == [x \in DOMAIN rows \cup {s} |-> IF x = s THEN alias ELSE rows[x]]

-----------------------------------------------------------------------------
(* The guard.                                                                *)

\* The agent an omitted agent_id of store takes.
Defaulted(call) ==
  IF call.tool # "store" \/ call.agent # Omitted THEN call.agent
  ELSE IF call.bounded THEN Me ELSE ConnectionAgent(call.grants)

NamesSelf(call) == Me \in {call.agent, call.target}

Resolved(call, alias) ==
  [call EXCEPT !.agent = IF @ = Me THEN alias ELSE @, !.target = IF @ = Me THEN alias ELSE @, !.alias = alias]

\* The checks of a call whose arguments are settled, over the rows in memory.
Granted(call, rows) ==
  LET demands == Demands(call.tool, call.agent, call.target)
      own == IF call.alias # NoOne THEN call.alias
             ELSE IF call.subject \in DOMAIN rows THEN rows[call.subject] ELSE NoOne
      new == CreatesUnder(call.tool, call.agent, call.target)
  IN  /\ call.bounded => \A d \in demands : own # NoOne /\ d[1] = own
      /\ \A d \in demands : EffectivePermission(call.grants, d[1]) >= d[2]
      /\ new \in AliasNames \cup {Me} => new \in Aliases(rows)

\* The guard lets the handler start, or refuses.
Decided(p, call, m) ==
  /\ server' = [server EXCEPT ![p] = [m EXCEPT !.guard = Idle]]
  /\ running' = IF Granted(call, m.rows) THEN running \cup {[at |-> p, call |-> call]} ELSE running

AskAcl(p, request, seen) ==
  LET call == [request EXCEPT !.agent = Defaulted(request)]
      m == RefreshedLedger(server[p], seen)
  IN  /\ server[p].up /\ server[p].guard = Idle
      /\ made < MaxAclCalls
      /\ made' = made + 1
      /\ IF (call.bounded /\ call.subject = NoSubject) \/ (NamesSelf(call) /\ ~call.bounded)
         THEN UNCHANGED <<server, running>>
         ELSE IF ~NamesSelf(call) THEN Decided(p, call, m)
         ELSE IF call.subject \in DOMAIN m.rows THEN Decided(p, Resolved(call, m.rows[call.subject]), m)
         ELSE /\ server' = [server EXCEPT ![p] = [m EXCEPT !.guard = [st |-> "miss", call |-> call]]]
              /\ UNCHANGED running
      /\ UNCHANGED <<ledger, holder, occupied, told, cut, ledgerEdits>>

\* The lock is taken; the re-read refuses, finds the subject, or mints.
Lock(p, alias, seen) ==
  LET m == Reread(server[p], seen)
      call == server[p].guard.call
  IN  /\ server[p].guard.st = "miss"
      /\ holder = NoOne
      /\ IF ~ledger.parses
         THEN /\ server' = [server EXCEPT ![p].guard = Idle]
              /\ UNCHANGED <<running, holder>>
         ELSE IF call.subject \in DOMAIN m.rows
         THEN Decided(p, Resolved(call, m.rows[call.subject]), m) /\ UNCHANGED holder
         ELSE /\ alias \notin Aliases(m.rows)
              /\ server' = [server EXCEPT ![p] =
                   [m EXCEPT !.rows = With(m.rows, call.subject, alias),
                             !.guard = [st |-> "minted", call |-> Resolved(call, alias)]]]
              /\ holder' = p
              /\ UNCHANGED running
      /\ UNCHANGED <<ledger, occupied, told, cut, made, ledgerEdits>>

\* The rename of the whole file, and the release of the lock.
Persist(p) ==
  /\ server[p].guard.st = "minted"
  /\ LET m == [server[p] EXCEPT !.seen = ledger.version + 1]
     IN  /\ ledger' = [rows |-> m.rows, version |-> ledger.version + 1, parses |-> TRUE]
         /\ Decided(p, server[p].guard.call, m)
  /\ holder' = NoOne
  /\ UNCHANGED <<occupied, told, cut, made, ledgerEdits>>

\* A write that fails takes the entry back out of memory.
PersistFails(p) ==
  /\ server[p].guard.st = "minted"
  /\ server' = [server EXCEPT ![p].rows = Restrict(@, DOMAIN @ \ {server[p].guard.call.subject}),
                              ![p].guard = Idle]
  /\ holder' = NoOne
  /\ UNCHANGED <<ledger, running, occupied, told, cut, made, ledgerEdits>>

\* The handler writes its rows, and the answer echoes the alias.
Handle(h) ==
  /\ LET new == CreatesUnder(h.call.tool, h.call.agent, h.call.target)
     IN  occupied' = occupied \cup ({new} \ {Omitted})
  /\ told' = told \cup (IF h.call.alias = NoOne THEN {} ELSE {<<h.call.subject, h.call.alias>>})
  /\ running' = running \ {h}
  /\ UNCHANGED <<ledger, server, holder, cut, made, ledgerEdits>>

-----------------------------------------------------------------------------
(* Restarts, and the operator.                                               *)

NoRows == [s \in {} |-> NoOne]
Down == [up |-> FALSE, rows |-> NoRows, seen |-> 0, guard |-> Idle]

Stop(p) ==
  /\ server[p].up
  /\ server' = [server EXCEPT ![p] = Down]
  /\ holder' = IF holder = p THEN NoOne ELSE holder
  /\ running' = {h \in running : h.at # p}
  /\ UNCHANGED <<ledger, occupied, told, cut, made, ledgerEdits>>

\* A start refuses a ledger that does not parse and a store with rows under a
\* reserved id that the ledger has not issued.
Start(p, seen) ==
  /\ ~server[p].up
  /\ ledger.parses
  /\ occupied \cap AliasNames \subseteq Aliases(ledger.rows)
  /\ server' = [server EXCEPT ![p] = [Down EXCEPT !.up = TRUE, !.rows = ledger.rows, !.seen = seen]]
  /\ UNCHANGED <<ledger, holder, running, occupied, told, cut, made, ledgerEdits>>

Edit(rows, subject) ==
  /\ ledger.parses
  /\ ledgerEdits < MaxLedgerEdits
  /\ ledgerEdits' = ledgerEdits + 1
  /\ ledger' = [ledger EXCEPT !.rows = rows, !.version = @ + 1]
  /\ cut' = cut \cup {subject} \cup {ledger.rows[s] : s \in DOMAIN ledger.rows \cap {subject}}
  /\ UNCHANGED <<server, holder, running, occupied, told, made>>

Unlink(s) == s \in DOMAIN ledger.rows /\ Edit(Restrict(ledger.rows, DOMAIN ledger.rows \ {s}), s)
Link(s, t) == t \in DOMAIN ledger.rows /\ s # t /\ Edit(With(ledger.rows, s, ledger.rows[t]), s)

\* A save that is still being typed, and its end.
Tear ==
  /\ ledger.parses /\ ledger.version > 0
  /\ ledgerEdits < MaxLedgerEdits
  /\ ledgerEdits' = ledgerEdits + 1
  /\ ledger' = [ledger EXCEPT !.parses = FALSE, !.version = @ + 1]
  /\ UNCHANGED <<server, holder, running, occupied, told, cut, made>>

Mend ==
  /\ ~ledger.parses
  /\ ledger' = [ledger EXCEPT !.parses = TRUE, !.version = @ + 1]
  /\ UNCHANGED <<server, holder, running, occupied, told, cut, made, ledgerEdits>>

-----------------------------------------------------------------------------
AccessInit ==
  /\ ledger = [rows |-> NoRows, version |-> 0, parses |-> TRUE]
  /\ server = [p \in Servers |-> [Down EXCEPT !.up = TRUE]]
  /\ holder = NoOne
  /\ running = {}
  /\ occupied = PlainAgents
  /\ told = {}
  /\ cut = {}
  /\ made = 0
  /\ ledgerEdits = 0

AccessNext ==
  \/ \E p \in Servers :
       \/ \E request \in AclRequests, seen \in Seens : AskAcl(p, request, seen)
       \/ \E alias \in AliasNames, seen \in Seens : Lock(p, alias, seen)
       \/ Persist(p)
       \/ PersistFails(p)
       \/ Stop(p)
       \/ \E seen \in Seens : Start(p, seen)
  \/ \E h \in running : Handle(h)
  \/ \E s \in Subjects : Unlink(s)
  \/ \E s, t \in Subjects : Link(s, t)
  \/ Tear
  \/ Mend

AccessSpec == AccessInit /\ [][AccessNext]_accessVars

-----------------------------------------------------------------------------
(* However the server processes, their crashes and the operator's edits       *)
(* interleave: two subjects never share an alias, and the alias a subject was *)
(* answered stays its row in the ledger, unless the operator edited that      *)
(* subject's row; and the rows of the store never make the next start refuse. *)
AliasesHold ==
  /\ \A x \in told : x[1] \notin cut =>
       /\ x[1] \in DOMAIN ledger.rows
       /\ ledger.rows[x[1]] = x[2]
       /\ \A y \in told : y[2] = x[2] /\ y[1] \notin cut => y[1] = x[1]
  /\ (occupied \cap AliasNames) \ cut \subseteq Aliases(ledger.rows)

\* What a tool reads or writes of the agents' data, whatever its arguments were
\* called: an unscoped tool reaches every agent.
Reaches(call) ==
  UNION {{<<a, d[2]>> : a \in IF d[1] = Wild THEN AgentIds ELSE {d[1]}}
           : d \in Demands(call.tool, call.agent, call.target)}

Level(grants, a) == IF a \in DOMAIN grants THEN grants[a] ELSE IF Wild \in DOMAIN grants THEN grants[Wild] ELSE 0

(* A handler runs only if the caller's grants cover every agent it reaches,   *)
(* each at the level it needs, a grant by name overriding the one for all; a  *)
(* signed-in subject reaches nothing but its own space.                       *)
ReachIsGranted ==
  \A h \in running :
    /\ \A r \in Reaches(h.call) : Level(h.call.grants, r[1]) >= r[2]
    /\ h.call.bounded => Cardinality({r[1] : r \in Reaches(h.call)}) <= 1

(* The ledger of aliases and the guard together keep every caller to what it  *)
(* was granted, across processes, crashes and the operator's edits.           *)
SpacesStayApart == AliasesHold /\ ReachIsGranted
============================================================================
