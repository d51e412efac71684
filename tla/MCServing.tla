----------------------------- MODULE MCServing -----------------------------
(***************************************************************************)
(* What runs around the records, checked in one run: the start of a server *)
(* over a database (SchemaBoot), declared folders (Folders), calibration   *)
(* (Calibration), the statistics cache (ScopeStats), the guard and the     *)
(* alias ledger (Access), the way in over HTTP (FrontDoor), the update     *)
(* check (UpdateCheck), the stdio bridge (StdioProxy) and the health of    *)
(* the embedding backend (EmbeddingHealth).  These models share no state:  *)
(* a behaviour moves one of them, named by `part`, and leaves the others   *)
(* at rest.                                                                *)
(***************************************************************************)
EXTENDS SchemaBoot, Folders, Calibration, ScopeStats, Access, UpdateCheck, StdioProxy, EmbeddingHealth, FrontDoor, TLC

VARIABLE part

\* Folders: three folders of the agent's own project, or two where the other one has any.
FewFolders == (\E f \in DOMAIN folders' : folders'[f].scope[2] = "p") => handed' <= 2

\* Access: the grants, and the calls made under them.
Call(g, b, s, tool, agent, target) ==
    [grants |-> g, bounded |-> b, subject |-> s, tool |-> tool, agent |-> agent, target |-> target, alias |-> NoOne]
Everyone == "*" :> 2
ReadsB == "*" :> 2 @@ "b" :> 1
OnlyA == "a" :> 2
SomeCalls ==
    {Call(Everyone, TRUE, s, t[1], t[2], t[3]) : s \in {"s1", "s2", NoSubject},
        t \in {<<"store", Omitted, Omitted>>, <<"recall", Me, Omitted>>, <<"merge_move", Me, "u1">>,
               <<"merge_move", Me, "u2">>, <<"recall", "u1", Omitted>>, <<"recall", "u2", Omitted>>,
               <<"status", Omitted, Omitted>>, <<"pause", Omitted, Omitted>>}}
    \cup
    {Call(g, FALSE, NoSubject, t[1], t[2], t[3]) : g \in {ReadsB, OnlyA},
        t \in {<<"store", Omitted, Omitted>>, <<"store", "u1", Omitted>>, <<"store", "u2", Omitted>>,
               <<"store", Me, Omitted>>, <<"recall", "b", Omitted>>, <<"fix_own", "a", Omitted>>,
               <<"merge_copy", "b", "a">>, <<"merge_copy", "a", "b">>, <<"fix_all", "a", Omitted>>,
               <<"findings", Omitted, Omitted>>}}

\* Calibration: an idle call is like any other, so the first one begins; and before
\* anything happened so is a server, or an agent.
InTurn ==
    LET begins == {c \in Calls_ : inFlight[c] = AtEase /\ inFlight'[c] # AtEase}
    IN  \A c \in begins : /\ \A d \in Calls_ : d < c => inFlight[d] # AtEase
                          /\ CalibrationInit => inFlight'[c].p = "p1" /\ inFlight'[c].a # "a2"

\* ScopeStats: the first read is caller "c" of scope "s", the others being alike.
FirstRead == asked = 0 /\ asked' = 1 => reads'["c"] # NoRead /\ reads'["c"].scope = "s"

\* FrontDoor: the configurations, and the requests: sound tokens of both issuers, one of
\* each flaw, and what comes without one.
SomeSetups == {[auth |-> "acl", body |-> "reject", gated |-> TRUE], [auth |-> "acl", body |-> "off", gated |-> FALSE],
               [auth |-> "token", body |-> "reject", gated |-> FALSE], [auth |-> "open", body |-> "warn", gated |-> FALSE]}
Token(i, kid, signer) ==
    [iss |-> i, kid |-> kid, signer |-> signer, allowed |-> TRUE, fits |-> TRUE, act |-> FALSE, client |-> "c"]
SignedTokens == {Token("i", 1, <<"i", 1>>), Token("i", 2, <<"i", 2>>), Token("w", 0, <<"w", 1>>), Token("w", 0, <<"i", 1>>)}
FlawedTokens == LET t == Token("i", 0, <<"i", 1>>) IN
    {[t EXCEPT !.allowed = FALSE], [t EXCEPT !.fits = FALSE], [t EXCEPT !.act = TRUE],
     [t EXCEPT !.client = ""], [t EXCEPT !.iss = "z"], Token("w", 1, <<"w", 1>>)}
SomeRequests ==
    {[kind |-> "call", cred |-> t, parts |-> 0] : t \in SignedTokens \cup FlawedTokens} \cup
    {[kind |-> "call", cred |-> StaticToken, parts |-> 2], [kind |-> "call", cred |-> NoCredential, parts |-> 1],
     [kind |-> "metadata", cred |-> NoCredential, parts |-> 0], [kind |-> "websocket", cred |-> NoCredential, parts |-> 0]}

\* FrontDoor: slots fill in order.  Where no token is verified, and while a flawed one is,
\* time and the providers stand still; either one issuer changes its keys or the other loses
\* documents.
QuietDoor ==
    LET unsigned == {r \in DoorSlots : "q" \in DOMAIN door'[r] /\ door'[r].q.cred \notin SignedTokens}
        moves == doorClock' # doorClock \/ provider' # provider
    IN  /\ door[1] = NoRequest /\ door' # door => door'[1] # NoRequest
        /\ moves => setup.auth = "acl" /\ unsigned = {}
        /\ doorClock > 0 \/ spent.changes > 0 => unsigned = {}
        /\ provider'["i"].docs = provider["i"].docs /\ provider'["i"].keys \in {{1}, {1, 2}, {2, 3}}
        /\ provider'["w"].keys = provider["w"].keys /\ provider'["w"].jwks = provider["w"].jwks
        /\ "w" \in hidden' \/ provider'["w"].docs[1] # "good" => provider'["i"].keys = {1} /\ provider'["i"].jwks = "good"

ServingInit ==
    /\ part \in {"boot", "folders", "calibration", "stats", "access", "update", "proxy", "advisory", "door"}
    /\ BootInit /\ FoldersInit /\ CalibrationInit /\ StatsInit
    /\ AccessInit /\ UpdateInit /\ ProxyInit /\ AdvisoryInit
    /\ DoorInit /\ provider["i"].keys = {1} /\ (part # "door" => setup.auth = "open")

BootPart == part = "boot" /\ BootNext
    /\ UNCHANGED <<part, folderVars, calibrationVars, statsVars, accessVars, updateVars, proxyVars, advisoryVars, doorVars>>
FoldersPart == part = "folders" /\ FoldersNext /\ FewFolders
    /\ UNCHANGED <<part, bootVars, calibrationVars, statsVars, accessVars, updateVars, proxyVars, advisoryVars, doorVars>>
CalibrationPart == part = "calibration" /\ CalibrationNext /\ InTurn
    /\ UNCHANGED <<part, bootVars, folderVars, statsVars, accessVars, updateVars, proxyVars, advisoryVars, doorVars>>
StatsPart == part = "stats" /\ StatsNext /\ FirstRead
    /\ UNCHANGED <<part, bootVars, folderVars, calibrationVars, accessVars, updateVars, proxyVars, advisoryVars, doorVars>>
AccessPart == part = "access" /\ AccessNext
    /\ UNCHANGED <<part, bootVars, folderVars, calibrationVars, statsVars, updateVars, proxyVars, advisoryVars, doorVars>>
UpdatePart == part = "update" /\ UpdateNext
    /\ UNCHANGED <<part, bootVars, folderVars, calibrationVars, statsVars, accessVars, proxyVars, advisoryVars, doorVars>>
ProxyPart == part = "proxy" /\ ProxyNext
    /\ UNCHANGED <<part, bootVars, folderVars, calibrationVars, statsVars, accessVars, updateVars, advisoryVars, doorVars>>
AdvisoryPart == part = "advisory" /\ AdvisoryNext
    /\ UNCHANGED <<part, bootVars, folderVars, calibrationVars, statsVars, accessVars, updateVars, proxyVars, doorVars>>
DoorPart == part = "door" /\ DoorNext /\ QuietDoor
    /\ UNCHANGED <<part, bootVars, folderVars, calibrationVars, statsVars, accessVars, updateVars, proxyVars, advisoryVars>>

ServingNext == BootPart \/ FoldersPart \/ CalibrationPart \/ StatsPart \/ AccessPart
             \/ UpdatePart \/ ProxyPart \/ AdvisoryPart \/ DoorPart

ServingSpec == ServingInit /\ [][ServingNext]_<<part, bootVars, folderVars, calibrationVars, statsVars, accessVars, updateVars, proxyVars, advisoryVars, doorVars>>
=============================================================================
