----------------------------- MODULE FrontDoor -----------------------------
(* What an HTTP request passes before a tool sees it: the body budget and the *)
(* credential check (src/cpersona/server.py, RequestBodyBudgetMiddleware and  *)
(* BearerTokenMiddleware), and the verification of a token an identity        *)
(* provider signed, with the signing keys cached per issuer                   *)
(* (src/cpersona/oauth.py, IdpTokenVerifier).                                 *)
(*                                                                           *)
(* Requests run beside each other and await at the lock of an issuer's keys,  *)
(* at every document they fetch and at every part of a body; meanwhile time   *)
(* passes and the provider rotates its keys, fails and comes back.  A key is  *)
(* a number, which is its kid too; a document is what its reader makes of it. *)
(* Audience, expiry and required claims are one bit of a token.  An issuer    *)
(* has no path, so its metadata has two spellings, and a document that names  *)
(* another issuer is as good as none.  Of the rate-limited warnings two are   *)
(* kept, the ones one walk can write in turn; scopes, challenge headers, the  *)
(* warning of an exposed open server and the count of oversized requests are  *)
(* left out.                                                                  *)
EXTENDS Integers, Sequences, FiniteSets

CONSTANTS
  Issuers,                   \* the configured authorization servers
  PairwiseIssuers,           \* those whose discovery document declares pairwise subjects only
  KidlessIssuers,            \* those that publish their keys without a kid
  KeyNumbers,                \* the keys of an issuer
  EncryptionKeys,            \* those published for encryption
  JwksUriOverride,           \* CPERSONA_OAUTH_JWKS_URI is set
  JWKS_TTL_SECONDS,          \* how long a fetched key set is reused
  JWKS_MIN_REFETCH_SECONDS,  \* the floor between two fetches, and between two like warnings
  DoorSetups,                \* [auth, body, gated]: credential mode, body mode, require_public_subject
  DoorRequests,              \* [kind, cred, parts]: what arrives
  MaxBodyParts,              \* CPERSONA_HTTP_MAX_BODY_BYTES, in parts
  DoorSlots,                 \* requests served at once
  MaxDoorClock, MaxKnocks, MaxProviderChanges   \* bounds

ASSUME FrontDoorAssumption ==
  /\ JWKS_MIN_REFETCH_SECONDS \in Nat \ {0}
  /\ JWKS_TTL_SECONDS \in Nat /\ JWKS_TTL_SECONDS > JWKS_MIN_REFETCH_SECONDS
  /\ PairwiseIssuers \cup KidlessIssuers \subseteq Issuers
  /\ \A q \in DoorRequests : q.kind \in {"call", "websocket", "dashboard", "metadata", "preflight"}
  /\ MaxBodyParts \in Nat
  /\ MaxDoorClock \in Nat /\ MaxDoorClock >= JWKS_MIN_REFETCH_SECONDS

VARIABLES
  setup,      \* the configuration the process started with
  doorClock,  \* _now
  provider,   \* per issuer: the keys it publishes, its two metadata documents and its key set
  keyCache,   \* _cache: keys, fetchedAt, lastAttempt, whether the location is known, loggedAt
  keyLock,    \* the request that holds an issuer's lock, if any
  door,       \* per slot: the request under way, or how the last one was answered
  withdrawn,  \* per issuer and key: when it was last withdrawn
  hidden,     \* the issuers whose discovery document could not be read at some moment
  ruled,      \* per issuer: when it was last refused for its pairwise subjects
  closest,    \* per issuer: the least time between two refreshes
  spent       \* knocks and changes of a provider

doorVars == <<setup, doorClock, provider, keyCache, keyLock, door, withdrawn, hidden, ruled, closest, spent>>

NoCredential == [iss |-> "none"]
StaticToken == [iss |-> "static"]
NoPrincipal == [client |-> ""]
LongAgo == -JWKS_MIN_REFETCH_SECONDS
NoKey == 0
NoRequest == [at |-> "idle"]
Diagnostics == {"placeless", "pairwise"}

-----------------------------------------------------------------------------
(* The cached keys of one issuer.                                            *)

\* The key a set holds under a kid, or its sole key for a token that names none.
HeldKey(i, e, kid) ==
  IF kid # NoKey THEN IF kid \in e.keys /\ i \notin KidlessIssuers THEN kid ELSE NoKey
  ELSE IF Cardinality(e.keys) = 1 THEN CHOOSE k \in e.keys : TRUE ELSE NoKey

\* Mutant of FromCache: a key set never ages.
FromCacheForever(i, e, kid) == HeldKey(i, e, kid)

\* _from_cache.
FromCache(i, e, kid) ==
  IF e.keys = {} \/ doorClock - e.fetchedAt >= JWKS_TTL_SECONDS THEN NoKey ELSE HeldKey(i, e, kid)

\* The override of the key set's location, ignored with several issuers.
Overridden == JwksUriOverride /\ Cardinality(Issuers) = 1

\* _log_outage: the line is written, unless one like it was within the window.
Logged(e, diagnostic) ==
  IF doorClock - e.loggedAt[diagnostic] < JWKS_MIN_REFETCH_SECONDS THEN e
  ELSE [e EXCEPT !.loggedAt[diagnostic] = doorClock]

-----------------------------------------------------------------------------
(* A request's credential.                                                   *)

\* The identity of a verified token, or none: jwt.decode, act, client_id.  With
\* it goes how long ago its key was withdrawn, and whether the issuer's
\* discovery document had always been readable.
PrincipalOf(token, key) ==
  IF key # NoKey /\ token.signer = <<token.iss, key>> /\ token.fits /\ ~token.act
  THEN [client |-> token.client, iss |-> token.iss, hidden |-> token.iss \in hidden,
        late |-> IF key \in provider[token.iss].keys THEN 0 ELSE doorClock - withdrawn[token.iss][key]]
  ELSE NoPrincipal

\* The application is entered with a principal; a refusal;
\* a closed websocket.
Entered(q, who) == [at |-> "app", q |-> q, who |-> who, seen |-> 0, wire |-> <<>>]
Done(seen, wire) == [at |-> "done", seen |-> seen, wire |-> wire]
Refused == Done(0, <<401>>)
Closed == Done(0, <<1008>>)

\* _oauth_principal once the key is found, or not.
Verified(q, key) ==
  LET who == PrincipalOf(q.cred, key) IN IF who.client = "" THEN Refused ELSE Entered(q, who)

\* _is_dashboard_request, _is_public_metadata_request, OPTIONS.
Exempt(q) == q.kind \in {"dashboard", "metadata", "preflight"}

\* Whether the verifier has a candidate issuer for the credential.
Candidate(cred) == setup.auth = "acl" /\ cred # NoCredential /\ cred.iss \in Issuers /\ cred.allowed

\* BearerTokenMiddleware: what becomes of a request as it arrives.
Admitted(q) ==
  CASE setup.auth = "open" \/ Exempt(q) -> Entered(q, NoPrincipal)
    [] q.kind = "websocket" /\ setup.auth # "open" -> Closed
    [] q.kind = "call" /\ setup.auth # "open" /\ q.cred = StaticToken -> Entered(q, [client |-> "static"])
    [] q.kind = "call" /\ setup.auth # "open" /\ q.cred # StaticToken ->
         IF ~Candidate(q.cred) THEN Refused
         ELSE LET i == q.cred.iss
                  key == FromCache(i, keyCache[i], q.cred.kid)
              IN  IF key # NoKey THEN Verified(q, key) ELSE [at |-> "wait", q |-> q]

Knock(r, q) ==
  /\ door[r].at \in {"idle", "done"}
  /\ spent.knocks < MaxKnocks
  /\ spent' = [spent EXCEPT !.knocks = @ + 1]
  /\ door' = [door EXCEPT ![r] = Admitted(q)]
  /\ UNCHANGED <<setup, doorClock, provider, keyCache, keyLock, withdrawn, hidden, ruled, closest>>

-----------------------------------------------------------------------------
(* _signing_key past the first look.                                         *)

Lesser(x, y) == IF x < y THEN x ELSE y

\* Under the lock the cache is asked again; then a refresh begins, unless the
\* last one is too recent.
TakeKeyLock(r) ==
  LET q == door[r].q
      i == q.cred.iss
      served == FromCache(i, keyCache[i], q.cred.kid)
      gap == doorClock - keyCache[i].lastAttempt
  IN  /\ door[r].at = "wait"
      /\ keyLock[i] = {}
      /\ IF served # NoKey \/ gap < JWKS_MIN_REFETCH_SECONDS
         THEN /\ door' = [door EXCEPT ![r] = Verified(q, served)]
              /\ UNCHANGED <<keyCache, keyLock, closest>>
         ELSE /\ keyLock' = [keyLock EXCEPT ![i] = {r}]
              /\ keyCache' = [keyCache EXCEPT ![i].lastAttempt = doorClock]
              /\ closest' = [closest EXCEPT ![i] = IF keyCache[i].lastAttempt = LongAgo THEN @ ELSE Lesser(@, gap)]
              /\ door' = [door EXCEPT ![r] =
                   IF Overridden \/ keyCache[i].located THEN [at |-> "keys", q |-> q]
                   ELSE [at |-> "metadata", q |-> q, doc |-> 1, found |-> FALSE]]
      /\ UNCHANGED <<setup, doorClock, provider, withdrawn, hidden, ruled, spent>>

\* The refresh is over and leaves the entry e: the lock is released and the
\* cache has the last word, with no await in between.
Finish(r, i, e) ==
  /\ keyCache' = [keyCache EXCEPT ![i] = e]
  /\ keyLock' = [keyLock EXCEPT ![i] = {}]
  /\ door' = [door EXCEPT ![r] = Verified(@.q, FromCache(i, e, @.q.cred.kid))]

\* _discover_jwks_uri: one metadata document of the walk.  A gated walk goes on
\* to the discovery document, and gives the whole issuer up for pairwise subjects.
ReadMetadata(r) ==
  LET i == door[r].q.cred.iss
      document == provider[i].docs[door[r].doc]
      pairwise == setup.gated /\ document = "pairwise"
      placed == document \in {"good", "pairwise"}
      found == door[r].found \/ placed
      e == IF document = "placeless" THEN Logged(keyCache[i], "placeless") ELSE keyCache[i]
  IN  /\ door[r].at = "metadata"
      /\ IF pairwise THEN Finish(r, i, Logged(e, "pairwise"))
         ELSE IF door[r].doc = 1 /\ (setup.gated \/ ~placed)
         THEN /\ keyCache' = [keyCache EXCEPT ![i] = e]
              /\ door' = [door EXCEPT ![r].doc = 2, ![r].found = found]
              /\ UNCHANGED keyLock
         ELSE IF ~found THEN Finish(r, i, e)
         ELSE /\ keyCache' = [keyCache EXCEPT ![i] = [e EXCEPT !.located = TRUE]]
              /\ door' = [door EXCEPT ![r] = [at |-> "keys", q |-> @.q]]
              /\ UNCHANGED keyLock
      /\ ruled' = IF pairwise THEN [ruled EXCEPT ![i] = doorClock] ELSE ruled
      /\ UNCHANGED <<setup, doorClock, provider, withdrawn, hidden, closest, spent>>

\* _refresh, the key set: a location that does not answer is forgotten, a set
\* nobody can use replaces nothing.
ReadKeySet(r) ==
  LET i == door[r].q.cred.iss
      signing == provider[i].keys \ EncryptionKeys
      usable == signing # {} /\ (i \in KidlessIssuers => Cardinality(signing) = 1)
  IN  /\ door[r].at = "keys"
      /\ Finish(r, i,
           CASE provider[i].jwks = "down" -> [keyCache[i] EXCEPT !.located = FALSE]
             [] provider[i].jwks = "good" /\ usable -> [keyCache[i] EXCEPT !.keys = signing, !.fetchedAt = doorClock]
             [] OTHER -> keyCache[i])
      /\ UNCHANGED <<setup, doorClock, provider, withdrawn, hidden, ruled, closest, spent>>

-----------------------------------------------------------------------------
(* The body, under its budget.                                               *)

CutOff(d) == 413 \in {d.wire[n] : n \in DOMAIN d.wire}
OverBudget(d) == setup.body # "off" /\ d.seen > MaxBodyParts

\* budgeted_receive: the application pulls a part.
PullPart(r) ==
  LET d == [door[r] EXCEPT !.seen = @ + 1] IN
  /\ door[r].at = "app"
  /\ door[r].seen < door[r].q.parts /\ ~CutOff(door[r])
  /\ door' = [door EXCEPT ![r] =
       IF setup.body = "reject" /\ OverBudget(d) /\ ~OverBudget(door[r])
       THEN [d EXCEPT !.wire = Append(@, 413)] ELSE d]
  /\ UNCHANGED <<setup, doorClock, provider, keyCache, keyLock, withdrawn, hidden, ruled, closest, spent>>

\* budgeted_send.
Sent(d, status) == IF CutOff(d) THEN d.wire ELSE Append(d.wire, status)

\* The application answers: after the whole body, or after the disconnect it is
\* handed in place of the rest.
AppAnswers(r) ==
  /\ door[r].at = "app"
  /\ door[r].seen = door[r].q.parts \/ CutOff(door[r])
  /\ door' = [door EXCEPT ![r] = Done(@.seen, Sent(@, 200))]
  /\ UNCHANGED <<setup, doorClock, provider, keyCache, keyLock, withdrawn, hidden, ruled, closest, spent>>

-----------------------------------------------------------------------------
(* Time, and the identity provider.                                          *)

DoorTick ==
  /\ doorClock < MaxDoorClock
  /\ doorClock' = doorClock + 1
  /\ UNCHANGED <<setup, provider, keyCache, keyLock, door, withdrawn, hidden, ruled, closest, spent>>

Declares(i) == IF i \in PairwiseIssuers THEN "pairwise" ELSE "good"

ProviderChanges(i, new) ==
  /\ spent.changes < MaxProviderChanges
  /\ spent' = [spent EXCEPT !.changes = @ + 1]
  /\ new # provider[i]
  /\ provider' = [provider EXCEPT ![i] = new]
  /\ withdrawn' = [withdrawn EXCEPT ![i] = [k \in KeyNumbers |->
       IF k \in provider[i].keys \ new.keys THEN doorClock ELSE @[k]]]
  /\ hidden' = IF new.docs[2] = "down" THEN hidden \cup {i} ELSE hidden
  /\ UNCHANGED <<setup, doorClock, keyCache, keyLock, door, ruled, closest>>

\* A rotation, a document or the key set that fails or comes back.
News_(i) ==
  {[provider[i] EXCEPT !.keys = ks] : ks \in (SUBSET KeyNumbers) \ {{}}}
    \cup {[provider[i] EXCEPT !.docs[1] = d] : d \in {"good", "placeless", "down"}}
    \cup {[provider[i] EXCEPT !.docs[2] = d] : d \in {Declares(i), "down"}}
    \cup {[provider[i] EXCEPT !.jwks = j] : j \in {"good", "junk", "down"}}

DoorInit ==
  /\ setup \in DoorSetups
  /\ doorClock = 0
  /\ \E k \in KeyNumbers \ EncryptionKeys :
       provider = [i \in Issuers |-> [keys |-> {k}, docs |-> <<"good", Declares(i)>>, jwks |-> "good"]]
  /\ keyCache = [i \in Issuers |-> [keys |-> {}, fetchedAt |-> 0, lastAttempt |-> LongAgo, located |-> FALSE,
                                    loggedAt |-> [d \in Diagnostics |-> LongAgo]]]
  /\ keyLock = [i \in Issuers |-> {}]
  /\ door = [r \in DoorSlots |-> NoRequest]
  /\ withdrawn = [i \in Issuers |-> [k \in KeyNumbers |-> LongAgo - JWKS_TTL_SECONDS]]
  /\ hidden = {}
  /\ ruled = [i \in Issuers |-> LongAgo]
  /\ closest = [i \in Issuers |-> MaxDoorClock + 1]
  /\ spent = [knocks |-> 0, changes |-> 0]

DoorNext ==
  \/ \E r \in DoorSlots :
       \/ \E q \in DoorRequests : Knock(r, q)
       \/ TakeKeyLock(r)
       \/ ReadMetadata(r)
       \/ ReadKeySet(r)
       \/ PullPart(r)
       \/ AppAnswers(r)
  \/ DoorTick
  \/ \E i \in Issuers : \E new \in News_(i) : ProviderChanges(i, new)

DoorSpec == DoorInit /\ [][DoorNext]_doorVars

-----------------------------------------------------------------------------
(* However requests, fetches, rotations and outages interleave: a call runs   *)
(* under the principal its credential proves, and a token proves one only if  *)
(* the issuer it names signed it with a key that is published or was          *)
(* withdrawn less than the TTL ago, provider outage or not; an issuer that    *)
(* always declared its pairwise subjects authenticates nobody while public    *)
(* ones are required, and no such verdict goes unlogged for a whole window;   *)
(* one issuer's refreshes stay the cooldown apart, whoever asks; and every    *)
(* request gets exactly one answer, the 413 when the body crossed an enforced *)
(* budget.                                                                    *)
DoorHolds ==
  /\ \A r \in DoorSlots :
       LET d == door[r] IN
       d.at \in {"app", "done"} =>
         /\ d.at = "app" /\ d.q.kind \in {"call", "websocket"} /\ setup.auth # "open" =>
              /\ d.q.kind = "call" /\ d.who.client # ""
              /\ d.q.cred # StaticToken =>
                   /\ setup.auth = "acl"
                   /\ d.q.cred.signer[1] = d.who.iss /\ d.q.cred.iss = d.who.iss
                   /\ d.who.late < JWKS_TTL_SECONDS
                   /\ setup.gated /\ d.who.iss \in PairwiseIssuers /\ ~Overridden => d.who.hidden
         /\ d.at = "done" => Len(d.wire) = 1 /\ (CutOff(d) <=> setup.body = "reject" /\ OverBudget(d))
  /\ \A i \in Issuers :
       /\ ruled[i] - keyCache[i].loggedAt["pairwise"] < JWKS_MIN_REFETCH_SECONDS
       /\ closest[i] >= JWKS_MIN_REFETCH_SECONDS
============================================================================
