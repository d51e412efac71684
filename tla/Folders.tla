------------------------------- MODULE Folders -------------------------------
(***************************************************************************)
(* The declared folders of folders.py: a tree per agent and project, kept  *)
(* by the operations of organize_folders, the filing a store asks for, the *)
(* trees an import or a merge carries in, the triggers that follow deleted *)
(* records and folders, and the repair of check_folder_integrity.          *)
(*                                                                         *)
(* Abstracted: a name stands for what normalize() makes of it, a scope for *)
(* an agent and a project; who declared what, the report's wording and the *)
(* operation bound are left out. One operation of organize() is one step:  *)
(* they share a transaction, and the write lock admits no other writer.    *)
(***************************************************************************)
EXTENDS Naturals, Sequences, FiniteSets

CONSTANTS FolderAgents, FolderProjects, FolderNames,
          MaxFolders,          \* folder ids handed out (AUTOINCREMENT)
          FolderRecords,       \* the records there may be
          Ceiling,             \* FOLDER_MAX_DEPTH_CEILING
          Limits,              \* values FOLDER_MAX_DEPTH is started with
          FirstLimit           \* the one of the first server

ASSUME FoldersAssumption == Ceiling \in Nat /\ Limits \subseteq 1..Ceiling /\ FirstLimit \in Limits

Scopes == FolderAgents \X FolderProjects
NoScope == <<>>
Paths == UNION {[1..n -> FolderNames] : n \in 0..Ceiling}

VARIABLES folders,     \* id -> [scope, parent, name], the ids in use
          handed,      \* the last folder id handed out
          member,      \* record -> the folder it is filed in, 0 for none
          scopeOf,     \* record -> its agent and project, NoScope when there is none
          depthLimit,  \* FOLDER_MAX_DEPTH of the running server
          deepest,     \* the highest limit so far, or the depth of a carried tree
          triggers,    \* the triggers on records and folders are there
          lapse        \* they were missing since the last repair

folderVars == <<folders, handed, member, scopeOf, depthLimit, deepest, triggers, lapse>>

----------------------------------------------------------------------------
(* Reading the tree                                                        *)

Child(fs, s, p, name) == {f \in DOMAIN fs : fs[f] = [scope |-> s, parent |-> p, name |-> name]}
Children(p) == {f \in DOMAIN folders : folders[f].parent = p}

\* The folder a path names, or {} when a name of it is missing.
Resolve(fs, s, path) ==
    LET at[n \in 0..Len(path)] ==
            IF n = 0 THEN {0} ELSE UNION {Child(fs, s, p, path[n]) : p \in at[n - 1]}
    IN  at[Len(path)]

ParentOf(f) == IF f \in DOMAIN folders THEN folders[f].parent ELSE 0

\* A folder and the folders above it, at most Ceiling + 1 steps up.
Line(f) ==
    LET up[n \in 0..Ceiling + 1] == IF n = 0 THEN f ELSE ParentOf(up[n - 1])
    IN  {up[n] : n \in 0..Ceiling + 1}

Depth(f) == Cardinality(Line(f) \ {0})
Below(f) == {g \in DOMAIN folders : f \in Line(g)}
Tallest(S) == CHOOSE n \in S : \A k \in S : k <= n
Height(f) == Tallest({Depth(g) - Depth(f) : g \in Below(f)})

----------------------------------------------------------------------------
(* organize_folders                                                        *)

\* Whether a record may be filed at a path of a scope: it is a record of that very
\* agent and project, and the folder exists within the limit.
Filable(s, r, path) ==
    /\ scopeOf[r] = s
    /\ path # <<>>
    /\ Resolve(folders, s, path) # {}
    /\ Len(path) <= depthLimit

FileRecord(s, r, path) ==
    /\ Filable(s, r, path)
    /\ \E f \in Resolve(folders, s, path) : member' = [member EXCEPT ![r] = f]
    /\ UNCHANGED <<folders, handed, scopeOf, depthLimit, deepest, triggers, lapse>>

Unfile(s, r) ==
    /\ member[r] \in DOMAIN folders
    /\ folders[member[r]].scope = s
    /\ member' = [member EXCEPT ![r] = 0]
    /\ UNCHANGED <<folders, handed, scopeOf, depthLimit, deepest, triggers, lapse>>

WithFolder(fs, id, s, p, name) == [f \in DOMAIN fs \cup {id} |->
    IF f = id THEN [scope |-> s, parent |-> p, name |-> name] ELSE fs[f]]

CreateFolder(s, path) ==
    /\ Len(path) \in 1..depthLimit
    /\ handed < MaxFolders
    /\ \E p \in Resolve(folders, s, SubSeq(path, 1, Len(path) - 1)) :
          /\ Child(folders, s, p, path[Len(path)]) = {}
          /\ folders' = WithFolder(folders, handed + 1, s, p, path[Len(path)])
    /\ handed' = handed + 1
    /\ UNCHANGED <<member, scopeOf, depthLimit, deepest, triggers, lapse>>

RenameFolder(s, path, name) ==
    /\ path # <<>>
    /\ \E f \in Resolve(folders, s, path) :
          /\ Child(folders, s, folders[f].parent, name) \subseteq {f}
          /\ folders' = [folders EXCEPT ![f].name = name]
    /\ UNCHANGED <<handed, member, scopeOf, depthLimit, deepest, triggers, lapse>>

\* The conditions of a move: not into itself or below itself, not past the limit with
\* everything below it, not beside a folder of the same name.
MoveIgnoringHeight(f, t, target, s) ==
    /\ f \notin Line(t)
    /\ Len(target) + 1 <= depthLimit
    /\ Child(folders, s, t, folders[f].name) \subseteq {f}

Movable(f, t, target, s) ==
    /\ f \notin Line(t)
    /\ Len(target) + 1 + Height(f) <= depthLimit
    /\ Child(folders, s, t, folders[f].name) \subseteq {f}

MoveFolder(s, path, target) ==
    /\ path # <<>>
    /\ \E f \in Resolve(folders, s, path), t \in Resolve(folders, s, target) :
          /\ Movable(f, t, target, s)
          /\ folders' = [folders EXCEPT ![f].parent = t]
    /\ UNCHANGED <<handed, member, scopeOf, depthLimit, deepest, triggers, lapse>>

\* A folder that is deleted takes its memberships along, by trigger.
Emptied(gone) == [r \in FolderRecords |-> IF triggers /\ member[r] \in gone THEN 0 ELSE member[r]]

DeleteFolder(s, path) ==
    /\ path # <<>>
    /\ \E f \in Resolve(folders, s, path) :
          /\ Children(f) = {}
          /\ \A r \in FolderRecords : member[r] # f
          /\ folders' = [g \in DOMAIN folders \ {f} |-> folders[g]]
          /\ member' = Emptied({f})
    /\ UNCHANGED <<handed, scopeOf, depthLimit, deepest, triggers, lapse>>

----------------------------------------------------------------------------
(* Records, wipes, carried trees                                           *)

\* A store; with `folder` the record is filed in a transaction of its own, FileRecord.
\* Record ids are not reused, so none that a membership was left behind for.
StoreRecord(s, r) ==
    /\ scopeOf[r] = NoScope
    /\ member[r] = 0
    /\ scopeOf' = [scopeOf EXCEPT ![r] = s]
    /\ UNCHANGED <<folders, handed, member, depthLimit, deepest, triggers, lapse>>

\* The records that go, and the memberships the triggers of their tables drop.
Unfiled(gone) == [r \in FolderRecords |-> IF triggers /\ r \in gone THEN 0 ELSE member[r]]

DeleteRecord(r) ==
    /\ scopeOf[r] # NoScope
    /\ scopeOf' = [scopeOf EXCEPT ![r] = NoScope]
    /\ member' = Unfiled({r})
    /\ UNCHANGED <<folders, handed, depthLimit, deepest, triggers, lapse>>

\* _delete_agent_rows: the agent's records, then its folders.
WipeFolders(a) ==
    LET gone == {r \in FolderRecords : scopeOf[r] # NoScope /\ scopeOf[r][1] = a}
        felled == {f \in DOMAIN folders : folders[f].scope[1] = a}
    IN  /\ scopeOf' = [r \in FolderRecords |-> IF r \in gone THEN NoScope ELSE scopeOf[r]]
        /\ folders' = [f \in DOMAIN folders \ felled |-> folders[f]]
        /\ member' = [r \in FolderRecords |->
                        IF triggers /\ (r \in gone \/ member[r] \in felled) THEN 0 ELSE member[r]]
        /\ UNCHANGED <<handed, depthLimit, deepest, triggers, lapse>>

\* carry() of one branch of another tree and a record filed at its end: a folder of the
\* same name is taken for the carried one, the others are made, and the record is
\* filed unless it is filed already or is not of that agent and project. The limit is
\* not consulted: the tree was within the limit of the server it comes from.
Carry(s, path, r) ==
    LET known(n) == Resolve(folders, s, SubSeq(path, 1, n))
        held == Cardinality({n \in 1..Len(path) : known(n) # {}})
        id(n) == IF known(n) # {} THEN CHOOSE f \in known(n) : TRUE ELSE handed + n - held
        made == {handed + n - held : n \in (held + 1)..Len(path)}
        at(f) == f - handed + held
        end == id(Len(path))
    IN  /\ path # <<>>
        /\ handed + Len(path) - held <= MaxFolders
        /\ folders' = [f \in DOMAIN folders \cup made |->
                         IF f \in made
                         THEN [scope |-> s, parent |-> id(at(f) - 1), name |-> path[at(f)]]
                         ELSE folders[f]]
        /\ handed' = handed + Len(path) - held
        /\ deepest' = Tallest({deepest, Len(path)})
        /\ member' = IF scopeOf[r] = s /\ member[r] = 0 THEN [member EXCEPT ![r] = end] ELSE member
        /\ UNCHANGED <<scopeOf, depthLimit, triggers, lapse>>

----------------------------------------------------------------------------
(* Restarts, lost triggers, the repair                                     *)

\* FOLDERS_SQL runs on every boot and puts missing triggers back.
RestartFolders(limit) ==
    /\ depthLimit' = limit
    /\ deepest' = Tallest({deepest, limit})
    /\ triggers' = TRUE
    /\ UNCHANGED <<folders, handed, member, scopeOf, lapse>>

LoseTriggers ==
    /\ triggers
    /\ triggers' = FALSE
    /\ lapse' = TRUE
    /\ UNCHANGED <<folders, handed, member, scopeOf, depthLimit, deepest>>

\* check_folder_integrity: memberships whose folder or record is gone, or whose record
\* is of another agent or project than the folder.
Dangling == {r \in FolderRecords : member[r] # 0
                                   /\ (member[r] \notin DOMAIN folders \/ scopeOf[r] = NoScope)}
Misplaced == {r \in FolderRecords : /\ member[r] \in DOMAIN folders
                                    /\ scopeOf[r] # NoScope
                                    /\ folders[member[r]].scope # scopeOf[r]}

\* A fix of the whole store: check_schema_objects recreates the triggers first.
RepairFolders ==
    /\ triggers' = TRUE
    /\ lapse' = FALSE
    /\ member' = [r \in FolderRecords |-> IF r \in Dangling \cup Misplaced THEN 0 ELSE member[r]]
    /\ UNCHANGED <<folders, handed, scopeOf, depthLimit, deepest>>

FoldersInit ==
    /\ folders = [f \in {} |-> 0]
    /\ handed = 0
    /\ member = [r \in FolderRecords |-> 0]
    /\ scopeOf = [r \in FolderRecords |-> NoScope]
    /\ depthLimit = FirstLimit
    /\ deepest = depthLimit
    /\ triggers = TRUE
    /\ lapse = FALSE

FoldersNext ==
    \/ \E s \in Scopes, r \in FolderRecords, path \in Paths : FileRecord(s, r, path) \/ Carry(s, path, r)
    \/ \E s \in Scopes, r \in FolderRecords : Unfile(s, r) \/ StoreRecord(s, r)
    \/ \E s \in Scopes, path \in Paths : CreateFolder(s, path) \/ DeleteFolder(s, path)
    \/ \E s \in Scopes, path \in Paths, name \in FolderNames : RenameFolder(s, path, name)
    \/ \E s \in Scopes, path \in Paths, target \in Paths : MoveFolder(s, path, target)
    \/ \E r \in FolderRecords : DeleteRecord(r)
    \/ \E a \in FolderAgents : WipeFolders(a)
    \/ \E limit \in Limits : RestartFolders(limit)
    \/ LoseTriggers
    \/ RepairFolders

FoldersSpec == FoldersInit /\ [][FoldersNext]_folderVars

----------------------------------------------------------------------------
(* do_list_folder_view: what a folder's view counts and lists.             *)

InFolder(s, r) ==
    IF member[r] \in DOMAIN folders /\ folders[member[r]].scope = s THEN member[r] ELSE 0

Under(s, f) == {r \in FolderRecords : scopeOf[r] = s /\ (f = 0 \/ f \in Line(InFolder(s, r)))}
Direct(s, f) == {r \in Under(s, f) : InFolder(s, r) = f}

(***************************************************************************)
(* Properties                                                              *)
(***************************************************************************)

\* However folders are created, renamed, moved, carried in and deleted beside records
\* that come and go (_apply, carry, the triggers), the tree stays one: parents exist in
\* the same agent and project, no folder is above itself, siblings have distinct names,
\* no folder is deeper than a limit allowed; a record is filed only in a folder of its
\* own agent and project unless the triggers were lost; and the view of every folder
\* counts each of its records exactly once, under one child or as its own.
FoldersSound ==
    /\ \A f \in DOMAIN folders :
          /\ f \notin Line(ParentOf(f)) /\ 0 \in Line(f)
          /\ ParentOf(f) # 0 => ParentOf(f) \in DOMAIN folders
                                /\ folders[ParentOf(f)].scope = folders[f].scope
          /\ Depth(f) <= deepest
          /\ Child(folders, folders[f].scope, folders[f].parent, folders[f].name) = {f}
    /\ ~lapse => Dangling = {} /\ Misplaced = {}
    /\ \A s \in Scopes : \A f \in {0} \cup {g \in DOMAIN folders : folders[g].scope = s} :
          LET kids == {g \in Children(f) : folders[g].scope = s}
          IN  /\ Under(s, f) = Direct(s, f) \cup UNION {Under(s, g) : g \in kids}
              /\ \A g \in kids : /\ Under(s, g) \cap Direct(s, f) = {}
                                 /\ \A h \in kids \ {g} : Under(s, g) \cap Under(s, h) = {}
=============================================================================
