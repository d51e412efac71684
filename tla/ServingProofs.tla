---------------------------- MODULE ServingProofs ----------------------------
(***************************************************************************)
(* Proofs about what runs around the records: the embedding advisory       *)
(* (EmbeddingHealth), the release check (UpdateCheck), the way in over     *)
(* HTTP (FrontDoor), access control (Access), the calibration of the       *)
(* recall gate (Calibration) and the stdio bridge (StdioProxy).  They      *)
(* share no state; each has an inductive invariant of its own.             *)
(***************************************************************************)
EXTENDS EmbeddingHealth, UpdateCheck, FrontDoor, Access, Calibration, StdioProxy, FiniteSetTheorems, SequenceTheorems, TLAPS

----------------------------------------------------------------------------
(* The advisory of the embedding backend.                                  *)

Advice == [to : AdvisedCallers, what : {"silence", "full", "short"}, told : BOOLEAN, unanswered : Nat]

AdvisoryTypeOK ==
  /\ modeNone \in BOOLEAN
  /\ backend \in {"unknown", "healthy", "hint", "fault"}
  /\ failures \in Nat /\ unanswered \in Nat
  /\ advisedTo \in Seq(AdvisoryKeys) /\ emitted \in BOOLEAN
  /\ asking \in [AdvisedCallers -> {"idle", "asked", "searched"}]
  /\ fullTo \subseteq AdvisedCallers
  /\ advice \in Advice

\* The counter of the code is the number of calls nobody answered, and the state of the
\* backend follows from it; only a mode without embedding is a hint.
BackendFollows ==
  /\ failures = unanswered
  /\ backend = "hint" => modeNone
  /\ ~modeNone => (backend = "fault" <=> failures >= FAULT_PROMOTE_THRESHOLD)

\* A key remembered as told has had the full runbook since the backend was healthy.
ToldInFull == \A n \in DOMAIN advisedTo : advisedTo[n] \in fullTo

AdvisoryInv == AdvisoryTypeOK /\ BackendFollows /\ ToldInFull /\ OutageIsTold

\* A key remembered keeps to the ones remembered before and itself.
LEMMA RememberedKeys ==
  ASSUME NEW S, NEW keys \in Seq(S), NEW k \in S
  PROVE  /\ RememberedTold(keys, k) \in Seq(S)
         /\ \A n \in DOMAIN RememberedTold(keys, k) :
              RememberedTold(keys, k)[n] = k \/ \E m \in DOMAIN keys : RememberedTold(keys, k)[n] = keys[m]
<1> DEFINE with == IF \E i \in DOMAIN keys : keys[i] = k THEN keys ELSE Append(keys, k)
<1>1. with \in Seq(S) /\ \A n \in DOMAIN with : with[n] = k \/ \E m \in DOMAIN keys : with[n] = keys[m]
  OBVIOUS
<1> HIDE DEF with
<1>2. CASE Len(with) > ADVISORY_SESSION_CAP
  <2>1. with # <<>>
    BY <1>1, <1>2, EmbeddingHealthAssumption
  <2>2. /\ Tail(with) \in Seq(S)
        /\ \A n \in DOMAIN Tail(with) : n + 1 \in DOMAIN with /\ Tail(with)[n] = with[n + 1]
    BY <1>1, <2>1
  <2>3. RememberedTold(keys, k) = Tail(with)
    BY <1>2 DEF RememberedTold, with
  <2> QED
    BY <1>1, <2>2, <2>3
<1>3. CASE ~(Len(with) > ADVISORY_SESSION_CAP)
  <2>1. RememberedTold(keys, k) = with
    BY <1>3 DEF RememberedTold, with
  <2> QED
    BY <1>1, <2>1
<1> QED
  BY <1>2, <1>3

\* Nobody is told yet.
LEMMA NobodyTold == <<>> \in Seq(AdvisoryKeys)
  OBVIOUS

\* The process starts with nothing to say.
LEMMA AdvisoryInitHolds == AdvisoryInit => AdvisoryInv
<1> SUFFICES ASSUME AdvisoryInit PROVE AdvisoryInv
  OBVIOUS
<1>1. FAULT_PROMOTE_THRESHOLD \in Nat /\ FAULT_PROMOTE_THRESHOLD >= 1
  BY EmbeddingHealthAssumption
<1>2. NoAdvice \in Advice /\ NoAdvice.what = "silence" /\ NoAdvice.unanswered = 0
  BY DEF NoAdvice, Advice, AdvisedCallers
<1>3. AdvisoryTypeOK
  BY <1>2, NobodyTold DEF AdvisoryInit, AdvisoryTypeOK
<1> QED
  BY <1>1, <1>2, <1>3 DEF AdvisoryInit, AdvisoryInv, BackendFollows, ToldInFull, OutageIsTold

\* Each report, advice and restart keeps the invariant.
LEMMA AdvisoryStepHolds == AdvisoryInv /\ [AdvisoryNext]_advisoryVars => AdvisoryInv'
<1> SUFFICES ASSUME AdvisoryInv, [AdvisoryNext]_advisoryVars PROVE AdvisoryInv'
  OBVIOUS
<1>t. FAULT_PROMOTE_THRESHOLD \in Nat /\ FAULT_PROMOTE_THRESHOLD >= 1
  BY EmbeddingHealthAssumption
<1>i. AdvisoryTypeOK /\ BackendFollows /\ ToldInFull /\ OutageIsTold
  BY DEF AdvisoryInv
<1>1. ASSUME NEW c \in AdvisedCallers, ObserveConfig(c) PROVE AdvisoryInv'
  <2>1. AdvisoryTypeOK'
    BY <1>i, <1>1 DEF AdvisoryTypeOK, ObserveConfig
  <2> QED
    BY <1>i, <1>1, <2>1 DEF AdvisoryInv, ObserveConfig, AdvisoryTypeOK, BackendFollows, ToldInFull, OutageIsTold
\* A failure counted on both sides.
<1>f. ASSUME ObserveFailure, ~modeNone, unanswered' = unanswered + 1, UNCHANGED <<modeNone, advice>>,
             asking' \in [AdvisedCallers -> {"idle", "asked", "searched"}]
      PROVE  AdvisoryInv'
  <2>1. failures' = failures + 1 /\ fullTo' = fullTo
    BY <1>f DEF ObserveFailure
  <2>2. CASE failures' < FAULT_PROMOTE_THRESHOLD
    <3>1. UNCHANGED <<backend, advisedTo, emitted>>
      BY <1>f, <2>2 DEF ObserveFailure
    <3>2. AdvisoryTypeOK'
      BY <1>i, <1>f, <2>1, <3>1, NobodyTold DEF AdvisoryTypeOK
    <3> QED
      BY <1>i, <1>f, <1>t, <2>1, <2>2, <3>1, <3>2
      DEF AdvisoryInv, AdvisoryTypeOK, BackendFollows, ToldInFull, OutageIsTold
  <2>3. CASE ~(failures' < FAULT_PROMOTE_THRESHOLD)
    <3>1. backend' = "fault" /\ (advisedTo' = advisedTo \/ advisedTo' = <<>>) /\ emitted' \in BOOLEAN
      BY <1>i, <1>f, <2>3 DEF ObserveFailure, AdvisoryTypeOK
    <3>a. advisedTo' \in Seq(AdvisoryKeys)
      BY <1>i, <3>1, NobodyTold DEF AdvisoryTypeOK
    <3>2. AdvisoryTypeOK'
      BY <1>i, <1>f, <2>1, <3>1, <3>a DEF AdvisoryTypeOK
    <3>3. ToldInFull'
      BY <1>i, <2>1, <3>1 DEF ToldInFull
    <3> QED
      BY <1>i, <1>f, <1>t, <2>1, <2>3, <3>1, <3>2, <3>3
      DEF AdvisoryInv, AdvisoryTypeOK, BackendFollows, OutageIsTold
  <2> QED
    BY <2>2, <2>3
<1>2. ASSUME NEW c \in AdvisedCallers, NEW o \in {"reached", "cached", "failed"}, SearchObserves(c, o)
      PROVE  AdvisoryInv'
  <2>1. /\ asking' \in [AdvisedCallers -> {"idle", "asked", "searched"}]
        /\ UNCHANGED <<modeNone, advice>>
    BY <1>i, <1>2 DEF SearchObserves, AdvisoryTypeOK
  <2>2. CASE o = "failed"
    BY <1>2, <1>f, <2>1, <2>2 DEF SearchObserves, AnsweredByBackend
  <2>3. CASE o = "reached"
    <3>1. ~modeNone /\ ObserveOk /\ unanswered' = 0
      BY <1>2, <2>3 DEF SearchObserves, AnsweredByBackend
    <3>2. AdvisoryTypeOK'
      BY <1>i, <2>1, <3>1, NobodyTold DEF AdvisoryTypeOK, ObserveOk
    <3> QED
      BY <1>i, <1>t, <2>1, <3>1, <3>2 DEF AdvisoryInv, ObserveOk, BackendFollows, ToldInFull, OutageIsTold
  <2>4. CASE o = "cached"
    <3>1. UNCHANGED <<backend, failures, advisedTo, emitted, fullTo, unanswered>>
      BY <1>2, <2>4 DEF SearchObserves, AnsweredByBackend
    <3> QED
      BY <1>i, <2>1, <3>1 DEF AdvisoryInv, AdvisoryTypeOK, BackendFollows, ToldInFull, OutageIsTold
  <2> QED
    BY <2>2, <2>3, <2>4
<1>3. ASSUME NEW c \in AdvisedCallers, Advise(c) PROVE AdvisoryInv'
  <2> DEFINE what == IF backend \in {"unknown", "healthy"} THEN "silence" ELSE IF Full(c) THEN "full" ELSE "short"
  <2>1. /\ advice' = [to |-> c, what |-> what, told |-> c \in fullTo, unanswered |-> unanswered]
        /\ fullTo' = IF what = "full" THEN fullTo \cup {c} ELSE fullTo
        /\ emitted' = (emitted \/ (what # "silence" /\ c = Keyless))
        /\ advisedTo' = IF what # "silence" /\ c # Keyless THEN RememberedTold(advisedTo, c) ELSE advisedTo
        /\ asking' = [asking EXCEPT ![c] = "idle"]
        /\ UNCHANGED <<modeNone, backend, failures, unanswered>>
    BY <1>3 DEF Advise
  <2>2. /\ what \in {"silence", "full", "short"}
        /\ what = "silence" <=> backend \in {"unknown", "healthy"}
        /\ what = "short" => ~Full(c) /\ backend \in {"hint", "fault"}
    BY <1>i DEF AdvisoryTypeOK
  <2> HIDE DEF what
  <2>3. c # Keyless => c \in AdvisoryKeys
    BY DEF AdvisedCallers
  \* The reminder goes to a key that is remembered, so one told in full.
  <2>4. what = "short" /\ c # Keyless => c \in fullTo
    BY <1>i, <2>2 DEF Full, ToldInFull
  <2>5. what # "silence" => c \in fullTo' \/ c = Keyless
    BY <2>1, <2>2, <2>4
  <2>6. advisedTo' \in Seq(AdvisoryKeys) /\ ToldInFull'
    <3>1. advisedTo \in Seq(AdvisoryKeys) /\ \A n \in DOMAIN advisedTo : advisedTo[n] \in fullTo'
      BY <1>i, <2>1 DEF AdvisoryTypeOK, ToldInFull
    <3>2. CASE what # "silence" /\ c # Keyless
      <4>1. advisedTo' = RememberedTold(advisedTo, c) /\ c \in AdvisoryKeys /\ c \in fullTo'
        BY <2>1, <2>3, <2>5, <3>2
      <4>2. /\ advisedTo' \in Seq(AdvisoryKeys)
            /\ \A n \in DOMAIN advisedTo' : advisedTo'[n] = c \/ \E m \in DOMAIN advisedTo : advisedTo'[n] = advisedTo[m]
        BY <3>1, <4>1, RememberedKeys
      <4> QED
        BY <3>1, <4>1, <4>2 DEF ToldInFull
    <3>3. CASE ~(what # "silence" /\ c # Keyless)
      BY <2>1, <3>1, <3>3 DEF ToldInFull
    <3> QED
      BY <3>2, <3>3
  <2>7. advice' \in Advice
    BY <1>i, <2>1, <2>2 DEF Advice, AdvisoryTypeOK
  <2>8. emitted' \in BOOLEAN
    BY <2>1
  <2>9. AdvisoryTypeOK'
    BY <1>i, <2>1, <2>6, <2>7, <2>8 DEF AdvisoryTypeOK
  <2>10. BackendFollows'
    BY <1>i, <2>1 DEF BackendFollows
  <2>11. /\ advice'.what = what /\ advice'.to = c /\ advice'.unanswered = unanswered
         /\ advice'.told = (c \in fullTo)
    BY <2>1
  <2>12. ~modeNone' => (advice'.what = "silence" <=> advice'.unanswered < FAULT_PROMOTE_THRESHOLD)
    BY <1>i, <1>t, <2>1, <2>2, <2>11 DEF BackendFollows, AdvisoryTypeOK
  <2>13. advice'.what = "short" /\ advice'.to # Keyless => advice'.told
    BY <2>4, <2>11
  <2>14. advice'.what = "short" /\ advice'.to = Keyless /\ SharedTransport => modeNone'
    BY <1>i, <2>1, <2>2, <2>11 DEF Full, BackendFollows
  <2> QED
    BY <2>6, <2>9, <2>10, <2>12, <2>13, <2>14 DEF AdvisoryInv, OutageIsTold
<1>4. CASE ProbeFails
  <2>1. /\ ObserveFailure /\ ~modeNone /\ unanswered' = unanswered + 1 /\ UNCHANGED <<modeNone, advice>>
        /\ asking' \in [AdvisedCallers -> {"idle", "asked", "searched"}]
    BY <1>i, <1>4 DEF ProbeFails, AdvisoryTypeOK
  <2> QED
    BY <1>f, <2>1
<1>5. ASSUME NEW mode \in BOOLEAN, RestartAdvisory(mode) PROVE AdvisoryInv'
  <2>1. NoAdvice \in Advice /\ NoAdvice.what = "silence" /\ NoAdvice.unanswered = 0
    BY DEF NoAdvice, Advice, AdvisedCallers
  <2>2. AdvisoryTypeOK'
    BY <1>5, <2>1, NobodyTold DEF RestartAdvisory, AdvisoryTypeOK
  <2> QED
    BY <1>5, <1>t, <2>1, <2>2 DEF RestartAdvisory, AdvisoryInv, BackendFollows, ToldInFull, OutageIsTold
<1>6. CASE UNCHANGED advisoryVars
  BY <1>i, <1>6 DEF advisoryVars, AdvisoryInv, AdvisoryTypeOK, BackendFollows, ToldInFull, OutageIsTold
<1> QED
  BY <1>1, <1>2, <1>3, <1>4, <1>5, <1>6 DEF AdvisoryNext

\* However recalls, probes and restarts interleave (health.py), the advisory is silent
\* exactly while fewer calls than the threshold have failed since the backend answered,
\* and a reminder goes only to a caller told in full: for any number of callers, any
\* threshold and any cap on the keys remembered.
THEOREM OutagesAreTold == AdvisorySpec => []OutageIsTold
<1>1. AdvisoryInit => AdvisoryInv
  BY AdvisoryInitHolds
<1>2. AdvisoryInv /\ [AdvisoryNext]_advisoryVars => AdvisoryInv'
  BY AdvisoryStepHolds
<1>3. AdvisoryInv => OutageIsTold
  BY DEF AdvisoryInv
<1> QED
  BY <1>1, <1>2, <1>3, PTL DEF AdvisorySpec

----------------------------------------------------------------------------
(* The release check.                                                      *)

Listeners == Sessions \cup {"undeclared"}

Install == [st : {"none", "probing", "between", "step"}, step : Nat, stop : BOOLEAN, waits : BOOLEAN, failed : BOOLEAN]

UpdateTypes ==
  /\ now \in Nat /\ now > 0
  /\ checkedAt \in 0..now /\ cacheFile.at \in 0..now
  /\ fetching \in [Fetchers -> 0..now]
  /\ toldTo \in Seq(Sessions)
  /\ heard = [s \in Listeners |-> heard[s]]
  /\ install \in Install

\* A question under way has a stamp nothing else has; and as long as the process knows no
\* answer, one later than the file's.
StampsApart ==
  \A f \in Fetchers : fetching[f] # 0 =>
    /\ fetching[f] # cacheFile.at /\ fetching[f] # checkedAt
    /\ checkedAt = 0 => cacheFile.at < fetching[f]
    /\ \A g \in Fetchers : g # f => fetching[g] # fetching[f]

\* An installer told to stop has nobody waiting for it.
StoppedUnwatched == install.stop => ~install.waits

UpdateInv == UpdateTypes /\ StampsApart /\ StoppedUnwatched /\ UpdatesAreHonest

\* Remembering a session adds no other.
LEMMA RememberedSessions ==
  ASSUME toldTo \in Seq(Sessions), NEW s \in Sessions
  PROVE  Remembered(s) \in Seq(Sessions) /\ ToSet(Remembered(s)) \subseteq ToSet(toldTo) \cup {s}
<1> DEFINE longer == Append(toldTo, s)
           from == 1 + (IF Len(longer) > NoticeCap THEN Len(longer) - NoticeCap ELSE 0)
<1>1. /\ longer \in Seq(Sessions) /\ Len(longer) \in Nat
      /\ \A n \in DOMAIN longer : longer[n] = s \/ \E m \in DOMAIN toldTo : longer[n] = toldTo[m]
  OBVIOUS
<1>2. from \in Nat /\ from >= 1
  BY <1>1, UpdateCheckAssumption
<1>3. Remembered(s) = SubSeq(longer, from, Len(longer))
  BY DEF Remembered
<1> HIDE DEF longer, from
<1>4. /\ SubSeq(longer, from, Len(longer)) \in Seq(Sessions)
      /\ \A n \in DOMAIN SubSeq(longer, from, Len(longer)) :
           n + from - 1 \in DOMAIN longer /\ SubSeq(longer, from, Len(longer))[n] = longer[n + from - 1]
  BY <1>1, <1>2
<1>5. \A n \in DOMAIN Remembered(s) : Remembered(s)[n] = s \/ \E m \in DOMAIN toldTo : Remembered(s)[n] = toldTo[m]
  BY <1>1, <1>3, <1>4
<1> QED
  BY <1>3, <1>4, <1>5 DEF ToSet

\* A server starts with no verdict, no question under way and nobody told.
LEMMA UpdateInitHolds == UpdateInit => UpdateInv
<1> SUFFICES ASSUME UpdateInit PROVE UpdateInv
  OBVIOUS
<1>1. toldTo \in Seq(Sessions) /\ ToSet(toldTo) = {}
  BY DEF UpdateInit, ToSet
<1>2. NoInstall \in Install /\ NoInstall.stop = FALSE
  BY DEF NoInstall, Install
<1>3. UpdateTypes
  BY <1>1, <1>2 DEF UpdateInit, UpdateTypes, Listeners
<1> QED
  BY <1>1, <1>2, <1>3 DEF UpdateInit, UpdateInv, StampsApart, StoppedUnwatched, UpdatesAreHonest

\* The steps of a fetch.
LEMMA FetchStepHolds ==
  ASSUME UpdateInv, NEW f \in Fetchers, Question(f) \/ Unanswered(f) \/ \E saved \in BOOLEAN : Answered(f, saved)
  PROVE  UpdateInv'
<1>i. UpdateTypes /\ StampsApart /\ StoppedUnwatched /\ UpdatesAreHonest
  BY DEF UpdateInv
<1>e. <<>> \in Seq(Sessions) /\ ToSet(<<>>) = {}
  BY DEF ToSet
<1>1. CASE Question(f)
  <2>1. /\ now' = now + 1 /\ fetching' = [fetching EXCEPT ![f] = now + 1] /\ now' \in Nat
        /\ UNCHANGED <<verdict, checkedAt, cacheFile, toldTo, notified, heard, latest, install, answer>>
    BY <1>1, <1>i DEF Question, UpdateTypes
  <2>2. UpdateTypes'
    BY <1>i, <2>1 DEF UpdateTypes
  <2>3. StampsApart'
    BY <1>i, <2>1 DEF UpdateTypes, StampsApart
  <2> QED
    BY <1>i, <2>1, <2>2, <2>3 DEF UpdateInv, StoppedUnwatched, UpdatesAreHonest
<1>2. CASE Unanswered(f)
  <2>1. /\ fetching' = [fetching EXCEPT ![f] = 0]
        /\ UNCHANGED <<now, cacheFile, heard, latest, install, answer>>
    BY <1>2 DEF Unanswered
  <2>2. /\ verdict' = verdict /\ checkedAt' = checkedAt
        /\ (toldTo' = toldTo /\ notified' = notified) \/ (toldTo' = <<>> /\ notified' = FALSE)
    BY <1>2 DEF Unanswered, Store, Superseded
  <2>3. toldTo' \in Seq(Sessions) /\ ToSet(toldTo') \subseteq ToSet(toldTo)
    BY <1>i, <1>e, <2>2 DEF UpdateTypes
  <2>4. UpdateTypes'
    BY <1>i, <2>1, <2>2, <2>3 DEF UpdateTypes
  <2>5. StampsApart'
    BY <1>i, <2>1, <2>2 DEF UpdateTypes, StampsApart
  <2> QED
    BY <1>i, <2>1, <2>2, <2>3, <2>4, <2>5 DEF UpdateInv, StoppedUnwatched, UpdatesAreHonest
<1>3. ASSUME NEW saved \in BOOLEAN, Answered(f, saved) PROVE UpdateInv'
  <2> DEFINE at == fetching[f]
             v == Decide(index)
  <2>1. /\ at # 0 /\ at \in 1..now
        /\ fetching' = [fetching EXCEPT ![f] = 0] /\ latest' = Later(at)
        /\ cacheFile' = IF saved /\ ~Superseded(at) THEN [at |-> at, verdict |-> v] ELSE cacheFile
        /\ Store(v, at)
        /\ UNCHANGED <<now, heard, install, answer>>
    BY <1>3, <1>i DEF Answered, UpdateTypes
  <2>2. fetching' \in [Fetchers -> 0..now]
    BY <1>i, <2>1 DEF UpdateTypes
  <2>s. StoppedUnwatched'
    BY <1>i, <2>1 DEF StoppedUnwatched
  <2>a. /\ at # cacheFile.at /\ at # checkedAt /\ (checkedAt = 0 => cacheFile.at < at)
        /\ \A g \in Fetchers : g # f => fetching[g] # at
    BY <1>i, <2>1 DEF StampsApart
  <2>b. \A g \in Fetchers : fetching'[g] # 0 => g # f /\ fetching'[g] = fetching[g]
    BY <1>i, <2>1 DEF UpdateTypes
  <2> HIDE DEF at, v
  <2>3. CASE Superseded(at)
    <3>1. UNCHANGED <<verdict, checkedAt, toldTo, notified, cacheFile>> /\ latest' = latest
      BY <1>i, <2>1, <2>3 DEF Store, Superseded, Later, UpdatesAreHonest, UpdateTypes
    <3>2. UpdateTypes'
      BY <1>i, <2>1, <2>2, <3>1 DEF UpdateTypes
    <3>3. StampsApart'
      BY <1>i, <2>b, <3>1 DEF StampsApart
    <3> QED
      BY <1>i, <2>1, <2>s, <3>1, <3>2, <3>3 DEF UpdateInv, UpdatesAreHonest
  <2>4. CASE ~Superseded(at)
    <3>1. verdict' = v /\ checkedAt' = at /\ checkedAt <= at
      BY <1>i, <2>1, <2>4 DEF Store, Superseded, UpdateTypes
    <3>2. latest' = at
      BY <1>i, <2>1, <3>1 DEF Later, UpdatesAreHonest, UpdateTypes
    <3>3. \/ toldTo' = <<>> /\ notified' = FALSE
          \/ News(verdict) = News(v) /\ toldTo' = toldTo /\ notified' = notified
      BY <2>1, <2>4 DEF Store
    <3>4. toldTo' \in Seq(Sessions)
      BY <1>i, <1>e, <3>3 DEF UpdateTypes
    <3>5. /\ cacheFile'.at \in 0..now
          /\ \/ cacheFile'.at = at /\ cacheFile'.verdict = v
             \/ cacheFile' = cacheFile
      BY <1>i, <2>1, <2>4 DEF UpdateTypes
    <3>6. UpdateTypes'
      BY <1>i, <2>1, <2>2, <3>1, <3>4, <3>5 DEF UpdateTypes
    <3>7. StampsApart'
      BY <1>i, <2>1, <2>a, <2>b, <3>1, <3>5 DEF StampsApart, UpdateTypes
    <3>8. /\ \A s \in ToSet(toldTo') : heard'[s] = News(verdict')
          /\ notified' => heard'["undeclared"] = News(verdict')
      BY <1>i, <1>e, <2>1, <3>1, <3>3 DEF UpdatesAreHonest
    <3>9. /\ cacheFile'.at = checkedAt' /\ checkedAt' # 0 => cacheFile'.verdict = verdict'
          /\ cacheFile'.at <= checkedAt' \/ checkedAt' = 0
      BY <1>i, <2>1, <2>a, <3>1, <3>5 DEF UpdatesAreHonest, UpdateTypes
    <3> QED
      BY <1>i, <2>1, <2>s, <3>1, <3>2, <3>6, <3>7, <3>8, <3>9 DEF UpdateInv, UpdatesAreHonest
  <2> QED
    BY <2>3, <2>4
<1> QED
  BY <1>1, <1>2, <1>3

\* The steps of an installer.
LEMMA InstallStepHolds ==
  ASSUME UpdateInv, UNCHANGED <<now, verdict, checkedAt, cacheFile, fetching, toldTo, notified, heard, latest>>,
         install' \in Install, install'.stop => ~install'.waits,
         answer'.what = "applied" => answer'.steps = InstallSteps
  PROVE  UpdateInv'
BY DEF UpdateInv, UpdateTypes, StampsApart, StoppedUnwatched, UpdatesAreHonest

\* Every step of the release check keeps its invariant.
LEMMA UpdateStepHolds == UpdateInv /\ [UpdateNext]_updateVars => UpdateInv'
<1> SUFFICES ASSUME UpdateInv, [UpdateNext]_updateVars PROVE UpdateInv'
  OBVIOUS
<1>i. UpdateTypes /\ StampsApart /\ StoppedUnwatched /\ UpdatesAreHonest
  BY DEF UpdateInv
<1>n. NoInstall \in Install /\ NoInstall.stop = FALSE /\ NoInstall.waits = FALSE
  BY DEF NoInstall, Install
<1>1. ASSUME NEW f \in Fetchers, Question(f) \/ Unanswered(f) \/ \E saved \in BOOLEAN : Answered(f, saved)
      PROVE  UpdateInv'
  BY <1>1, FetchStepHolds
<1>2. CASE RestartCheck
  <2>1. /\ toldTo' = <<>> /\ notified' = FALSE /\ install' = NoInstall /\ latest' = checkedAt'
        /\ fetching' = [f \in Fetchers |-> 0] /\ UNCHANGED <<now, cacheFile, answer>>
        /\ heard' = [s \in Listeners |-> News(Unknown)]
    BY <1>2 DEF RestartCheck, Listeners
  <2>2. \/ checkedAt' = cacheFile.at /\ verdict' = cacheFile.verdict
        \/ checkedAt' = 0
    BY <1>2 DEF RestartCheck
  <2>3. toldTo' \in Seq(Sessions) /\ ToSet(toldTo') = {}
    BY <2>1 DEF ToSet
  <2>4. checkedAt' \in 0..now /\ cacheFile.at \in 0..now /\ now \in Nat
    BY <1>i, <2>2 DEF UpdateTypes
  <2>5. UpdateTypes'
    BY <1>i, <1>n, <2>1, <2>3, <2>4 DEF UpdateTypes
  <2>6. StampsApart'
    BY <2>1 DEF StampsApart
  <2> QED
    BY <1>i, <1>n, <2>1, <2>2, <2>3, <2>4, <2>5, <2>6 DEF UpdateInv, StoppedUnwatched, UpdatesAreHonest
<1>3. ASSUME NEW s \in Sessions, NoticeDeclared(s) PROVE UpdateInv'
  <2>1. /\ toldTo' = Remembered(s) /\ heard' = [heard EXCEPT ![s] = News(verdict)]
        /\ UNCHANGED <<now, verdict, checkedAt, cacheFile, fetching, notified, latest, install, answer>>
    BY <1>3 DEF NoticeDeclared
  <2>2. toldTo' \in Seq(Sessions) /\ ToSet(toldTo') \subseteq ToSet(toldTo) \cup {s}
    BY <1>i, <2>1, RememberedSessions DEF UpdateTypes
  <2>3. /\ heard' = [t \in Listeners |-> heard'[t]]
        /\ \A t \in Listeners : heard'[t] = IF t = s THEN News(verdict) ELSE heard[t]
    BY <1>i, <2>1 DEF UpdateTypes, Listeners
  <2>4. UpdateTypes'
    BY <1>i, <2>1, <2>2, <2>3 DEF UpdateTypes
  <2>5. ToSet(toldTo) \subseteq Sessions
    BY <1>i DEF UpdateTypes, ToSet
  <2>6. /\ \A t \in ToSet(toldTo') : heard'[t] = News(verdict')
        /\ notified' => heard'["undeclared"] = News(verdict')
    BY <1>i, <2>1, <2>2, <2>3, <2>5 DEF UpdatesAreHonest, Listeners
  <2> QED
    BY <1>i, <2>1, <2>4, <2>6 DEF UpdateInv, StampsApart, StoppedUnwatched, UpdatesAreHonest
<1>4. CASE NoticeUndeclared
  <2>1. /\ heard' = [heard EXCEPT !["undeclared"] = News(verdict)]
        /\ UNCHANGED <<now, verdict, checkedAt, cacheFile, fetching, toldTo, latest, install, answer>>
    BY <1>4 DEF NoticeUndeclared
  <2>3. /\ heard' = [t \in Listeners |-> heard'[t]]
        /\ \A t \in Listeners : heard'[t] = IF t = "undeclared" THEN News(verdict) ELSE heard[t]
    BY <1>i, <2>1 DEF UpdateTypes, Listeners
  <2>4. UpdateTypes'
    BY <1>i, <2>1, <2>3 DEF UpdateTypes
  <2>5. ToSet(toldTo) \subseteq Sessions
    BY <1>i DEF UpdateTypes, ToSet
  <2>6. /\ \A t \in ToSet(toldTo') : heard'[t] = News(verdict')
        /\ notified' => heard'["undeclared"] = News(verdict')
    BY <1>i, <2>1, <2>3, <2>5 DEF UpdatesAreHonest, Listeners
  <2> QED
    BY <1>i, <2>1, <2>4, <2>6 DEF UpdateInv, StampsApart, StoppedUnwatched, UpdatesAreHonest
<1>u. ASSUME UNCHANGED <<now, verdict, checkedAt, cacheFile, fetching, toldTo, notified, heard, latest>>,
             install' \in Install, install'.stop => ~install'.waits,
             answer'.what = "applied" => answer'.steps = InstallSteps
      PROVE  UpdateInv'
  BY <1>u, InstallStepHolds
<1>a. /\ install \in Install /\ (install.stop => ~install.waits)
      /\ answer.what = "applied" => answer.steps = InstallSteps
  BY <1>i DEF UpdateTypes, StoppedUnwatched, UpdatesAreHonest
\* An answer other than "applied", or the answer of an installer whose every step ran.
<1>e. ASSUME NEW result, Ending(result), result = "applied" /\ install.waits => install.step = InstallSteps
      PROVE  /\ install' \in Install /\ (install'.stop => ~install'.waits)
             /\ answer'.what = "applied" => answer'.steps = InstallSteps
  BY <1>a, <1>e, <1>n DEF Ending
<1>5. CASE Apply
  <2>1. install' \in Install /\ (install'.stop => ~install'.waits)
    <3>1. CASE install' = install
      BY <1>a, <3>1
    <3>2. CASE \E st \in {"probing", "between"} : install' = [NoInstall EXCEPT !.st = st, !.waits = TRUE]
      <4>1. PICK st \in {"probing", "between"} : install' = [NoInstall EXCEPT !.st = st, !.waits = TRUE]
        BY <3>2
      <4>2. install' = [st |-> st, step |-> 0, stop |-> FALSE, waits |-> TRUE, failed |-> FALSE]
        BY <4>1 DEF NoInstall
      <4> QED
        BY <4>2 DEF Install
    <3> QED
      BY <1>5, <3>1, <3>2 DEF Apply
  <2>2. answer'.what = "applied" => answer'.steps = InstallSteps
    BY <1>5, <1>a DEF Apply
  <2> QED
    BY <1>5, <1>u, <2>1, <2>2 DEF Apply
<1>6. CASE ApplyAgain
  BY <1>6, <1>a, <1>u DEF ApplyAgain
<1>7. ASSUME NEW branch \in Probes, Probed(branch) PROVE UpdateInv'
  <2>1. CASE Ending("refused")
    BY <1>7, <1>e, <1>u, <2>1 DEF Probed
  <2>2. CASE install' = [install EXCEPT !.st = "between"] /\ answer' = answer
    <3>1. install' \in Install /\ (install'.stop => ~install'.waits)
      BY <1>a, <2>2 DEF Install
    <3> QED
      BY <1>7, <1>a, <1>u, <2>2, <3>1 DEF Probed
  <2> QED
    BY <1>7, <2>1, <2>2 DEF Probed
<1>8. CASE NextStep
  <2>1. CASE Ending("failed")
    BY <1>8, <1>e, <1>u, <2>1 DEF NextStep
  <2>2. CASE Ending("applied") /\ (install.stop \/ install.step = InstallSteps)
    BY <1>8, <1>a, <1>e, <1>u, <2>2 DEF NextStep
  <2>3. CASE install' = [install EXCEPT !.st = "step", !.step = @ + 1] /\ answer' = answer
    <3>0. install.step + 1 \in Nat
      BY <1>a DEF Install
    <3>1. install' \in Install /\ (install'.stop => ~install'.waits)
      BY <1>a, <2>3, <3>0 DEF Install
    <3> QED
      BY <1>8, <1>a, <1>u, <2>3, <3>1 DEF NextStep
  <2> QED
    BY <1>8, <2>1, <2>2, <2>3 DEF NextStep
<1>9. ASSUME NEW ok \in BOOLEAN, StepEnds(ok) PROVE UpdateInv'
  <2>1. install' \in Install /\ (install'.stop => ~install'.waits)
    BY <1>9, <1>a DEF StepEnds, Install
  <2> QED
    BY <1>9, <1>a, <1>u, <2>1 DEF StepEnds
<1>10. CASE CancelApply
  <2>1. install' \in Install /\ (install'.stop => ~install'.waits)
    BY <1>10, <1>a DEF CancelApply, Install
  <2> QED
    BY <1>10, <1>a, <1>u, <2>1 DEF CancelApply
<1>11. ASSUME NEW listed, NEW yanked, Publish(listed, yanked) PROVE UpdateInv'
  BY <1>11, <1>a, <1>u DEF Publish
<1>12. CASE UpdateTick
  <2>1. /\ now' = now + 1
        /\ UNCHANGED <<verdict, checkedAt, cacheFile, fetching, toldTo, notified, heard, latest, install, answer>>
    BY <1>12 DEF UpdateTick
  <2>2. UpdateTypes'
    BY <1>i, <2>1 DEF UpdateTypes
  <2> QED
    BY <1>i, <2>1, <2>2 DEF UpdateInv, StampsApart, StoppedUnwatched, UpdatesAreHonest
<1>13. CASE UNCHANGED updateVars
  BY <1>13, <1>a, <1>u DEF updateVars
<1> QED
  BY <1>1, <1>2, <1>3, <1>4, <1>5, <1>6, <1>7, <1>8, <1>9, <1>10, <1>11, <1>12, <1>13 DEF UpdateNext

\* In whatever order the answers of the package index arrive (update_check.py), the
\* verdict and its file are those of the latest question answered, a session remembered
\* as told has heard the news that stands, and an update is reported applied only after
\* its every step: for any releases, sessions, fetchers and cap.
THEOREM UpdatesStayHonest == UpdateSpec => []UpdatesAreHonest
<1>1. UpdateInit => UpdateInv
  BY UpdateInitHolds
<1>2. UpdateInv /\ [UpdateNext]_updateVars => UpdateInv'
  BY UpdateStepHolds
<1>3. UpdateInv => UpdatesAreHonest
  BY DEF UpdateInv
<1> QED
  BY <1>1, <1>2, <1>3, PTL DEF UpdateSpec

----------------------------------------------------------------------------
(* The way in over HTTP.                                                   *)

Entry == [keys : SUBSET KeyNumbers, fetchedAt : Int, lastAttempt : Int, located : BOOLEAN,
          loggedAt : [Diagnostics -> Int]]

Provider == [keys : SUBSET KeyNumbers, docs : [1..2 -> {"good", "placeless", "pairwise", "down"}],
             jwks : {"good", "junk", "down"}]

DoorTypes ==
  /\ doorClock \in Nat
  /\ provider \in [Issuers -> Provider]
  /\ keyCache \in [Issuers -> Entry]
  /\ withdrawn \in [Issuers -> [KeyNumbers -> Int]]
  /\ ruled \in [Issuers -> Int] /\ closest \in [Issuers -> Int]
  /\ door = [r \in DoorSlots |-> door[r]]

\* The issuers nobody is to be authenticated by, as long as they say what they are.
Barred == IF setup.gated /\ ~Overridden THEN PairwiseIssuers ELSE {}

\* An entry of the key cache: its keys were published when they were fetched, and a barred
\* issuer's were not fetched unless its document had been hidden.
Trusted(i, e) ==
  /\ e.fetchedAt <= doorClock
  /\ \A k \in e.keys : k \in provider[i].keys \/ withdrawn[i][k] >= e.fetchedAt
  /\ i \in Barred /\ (e.located \/ e.keys # {}) => i \in hidden

KeysTrusted == \A i \in Issuers : Trusted(i, keyCache[i])

\* A provider says what it is, or is known to have hidden it.
ProvidersPlain ==
  \A i \in Issuers :
    /\ provider[i].docs[1] # "pairwise"
    /\ provider[i].docs[2] \in {Declares(i), "down"}
    /\ provider[i].docs[2] = "down" => i \in hidden

\* A request that waits for a key.
Seeking(q) == q.kind = "call" /\ setup.auth = "acl" /\ q.cred # StaticToken /\ q.cred.iss \in Issuers

\* What the application may be entered with.
EnteredWell(q, who) ==
  q.kind \in {"call", "websocket"} /\ setup.auth # "open" =>
    /\ q.kind = "call" /\ who.client # ""
    /\ q.cred # StaticToken =>
         /\ setup.auth = "acl"
         /\ q.cred.signer[1] = who.iss /\ q.cred.iss = who.iss
         /\ who.late < JWKS_TTL_SECONDS
         /\ who.iss \in Barred => who.hidden

\* The 413 is on the wire exactly when an enforced budget was crossed.
CutInTime(d) == d.wire = <<413>> <=> setup.body = "reject" /\ OverBudget(d)

VisitOK(d) ==
  /\ d.at \in {"idle", "wait", "metadata", "keys", "app", "done"}
  /\ d.at \in {"wait", "metadata", "keys"} => Seeking(d.q)
  /\ d.at = "metadata" => d = [at |-> "metadata", q |-> d.q, doc |-> d.doc, found |-> d.found] /\ d.doc \in {1, 2}
  /\ d.at = "keys" /\ d.q.cred.iss \in Barred => d.q.cred.iss \in hidden
  /\ d.at = "app" =>
       /\ d = [at |-> "app", q |-> d.q, who |-> d.who, seen |-> d.seen, wire |-> d.wire]
       /\ d.seen \in Nat /\ d.wire \in {<<>>, <<413>>} /\ CutInTime(d)
       /\ EnteredWell(d.q, d.who)
  /\ d.at = "done" =>
       d.seen \in Nat /\ d.wire \in {<<200>>, <<401>>, <<413>>, <<1008>>} /\ CutInTime(d)

VisitsOK == \A r \in DoorSlots : VisitOK(door[r])

\* The verdicts on pairwise subjects are logged, and the refreshes apart.
RefreshesApart ==
  \A i \in Issuers :
    /\ ruled[i] - keyCache[i].loggedAt["pairwise"] < JWKS_MIN_REFETCH_SECONDS
    /\ closest[i] >= JWKS_MIN_REFETCH_SECONDS

DoorInv == DoorTypes /\ KeysTrusted /\ ProvidersPlain /\ VisitsOK /\ RefreshesApart

\* What the invariant says of the requests is what the property asks.
LEMMA DoorInvHolds == DoorInv => DoorHolds
<1> SUFFICES ASSUME DoorInv PROVE DoorHolds
  OBVIOUS
<1>1. ASSUME NEW r \in DoorSlots, door[r].at = "app", door[r].q.kind \in {"call", "websocket"}, setup.auth # "open"
      PROVE  /\ door[r].q.kind = "call" /\ door[r].who.client # ""
             /\ door[r].q.cred # StaticToken =>
                  /\ setup.auth = "acl"
                  /\ door[r].q.cred.signer[1] = door[r].who.iss /\ door[r].q.cred.iss = door[r].who.iss
                  /\ door[r].who.late < JWKS_TTL_SECONDS
                  /\ setup.gated /\ door[r].who.iss \in PairwiseIssuers /\ ~Overridden => door[r].who.hidden
  <2>1. VisitOK(door[r])
    BY DEF DoorInv, VisitsOK
  <2>2. EnteredWell(door[r].q, door[r].who)
    BY <1>1, <2>1 DEF VisitOK
  <2>3. setup.gated /\ door[r].who.iss \in PairwiseIssuers /\ ~Overridden => door[r].who.iss \in Barred
    BY DEF Barred
  <2> QED
    BY <1>1, <2>2, <2>3 DEF EnteredWell
<1>2. ASSUME NEW r \in DoorSlots, door[r].at = "done"
      PROVE  Len(door[r].wire) = 1 /\ (CutOff(door[r]) <=> setup.body = "reject" /\ OverBudget(door[r]))
  <2>1. door[r].wire \in {<<200>>, <<401>>, <<413>>, <<1008>>} /\ CutInTime(door[r])
    <3>1. VisitOK(door[r])
      BY DEF DoorInv, VisitsOK
    <3> QED
      BY <1>2, <3>1 DEF VisitOK
  <2>2. Len(door[r].wire) = 1 /\ (CutOff(door[r]) <=> door[r].wire = <<413>>)
    BY <2>1 DEF CutOff
  <2> QED
    BY <2>1, <2>2 DEF CutInTime
<1>3. \A i \in Issuers : /\ ruled[i] - keyCache[i].loggedAt["pairwise"] < JWKS_MIN_REFETCH_SECONDS
                         /\ closest[i] >= JWKS_MIN_REFETCH_SECONDS
  BY DEF DoorInv, RefreshesApart
<1> QED
  BY <1>1, <1>2, <1>3 DEF DoorHolds

\* A token checked against a key of a trusted entry enters as its issuer's, or is refused.
LEMMA TokenVerified ==
  ASSUME DoorTypes, NEW i \in Issuers, NEW e \in Entry, Trusted(i, e),
         NEW q, Seeking(q), q.cred.iss = i
  PROVE  VisitOK(Verified(q, FromCache(i, e, q.cred.kid)))
<1>0. JWKS_TTL_SECONDS \in Nat /\ JWKS_TTL_SECONDS > 0 /\ MaxBodyParts \in Nat
  BY FrontDoorAssumption
<1> DEFINE key == FromCache(i, e, q.cred.kid)
           who == PrincipalOf(q.cred, key)
<1>r. VisitOK(Refused)
  BY <1>0 DEF VisitOK, Refused, Done, CutInTime, OverBudget
<1>1. CASE who.client = ""
  BY <1>1, <1>r DEF Verified
<1>2. CASE who.client # ""
  <2>1. key # NoKey /\ q.cred.signer = <<i, key>>
    BY <1>2 DEF PrincipalOf, NoPrincipal
  <2>2. key \in e.keys /\ doorClock - e.fetchedAt < JWKS_TTL_SECONDS
    <3>1. ~(e.keys = {} \/ doorClock - e.fetchedAt >= JWKS_TTL_SECONDS) /\ key = HeldKey(i, e, q.cred.kid)
      BY <2>1 DEF FromCache
    <3>2. key \in e.keys
      BY <2>1, <3>1 DEF HeldKey
    <3> QED
      BY <1>0, <3>1, <3>2 DEF Entry, DoorTypes
  <2> DEFINE late == IF key \in provider[i].keys THEN 0 ELSE doorClock - withdrawn[i][key]
  <2>3. who = [client |-> q.cred.client, iss |-> i, hidden |-> i \in hidden, late |-> late]
    BY <1>2 DEF PrincipalOf, NoPrincipal
  <2> HIDE DEF key, who
  <2>4. late < JWKS_TTL_SECONDS
    <3>1. key \in KeyNumbers
      BY <2>2 DEF Entry
    <3>2. CASE key \in provider[i].keys
      BY <1>0, <3>2
    <3>3. CASE key \notin provider[i].keys
      <4>1. withdrawn[i][key] >= e.fetchedAt /\ withdrawn[i][key] \in Int /\ e.fetchedAt \in Int /\ doorClock \in Int
        BY <2>2, <3>1, <3>3 DEF Trusted, DoorTypes, Entry
      <4> QED
        BY <1>0, <2>2, <3>3, <4>1
    <3> QED
      BY <3>2, <3>3
  <2> HIDE DEF late
  <2>a. who.iss = i /\ who.late = late /\ who.hidden = (i \in hidden)
    BY <2>3
  <2>b. q.cred.signer[1] = i
    BY <2>1
  <2>c. i \in Barred => i \in hidden
    BY <2>2 DEF Trusted
  <2>5. EnteredWell(q, who)
    BY <1>2, <2>4, <2>a, <2>b, <2>c DEF EnteredWell, Seeking
  <2>6. Verified(q, key) = Entered(q, who)
    BY <1>2 DEF Verified, who
  <2>7. Entered(q, who) = [at |-> "app", q |-> q, who |-> who, seen |-> 0, wire |-> <<>>]
    BY DEF Entered
  <2>8. VisitOK(Entered(q, who))
    BY <1>0, <2>5, <2>7 DEF VisitOK, CutInTime, OverBudget
  <2> QED
    BY <2>6, <2>8 DEF key
<1> QED
  BY <1>1, <1>2

\* What is right about a request under way stays right.
LEMMA VisitLasts ==
  ASSUME NEW d, VisitOK(d), setup' = setup, hidden \subseteq hidden'
  PROVE  VisitOK(d)'
<1>1. Barred' = Barred
  BY DEF Barred, Overridden
<1>2. ASSUME NEW x PROVE OverBudget(x)' = OverBudget(x)
  BY DEF OverBudget
<1>3. CutInTime(d)' = CutInTime(d)
  BY DEF CutInTime, OverBudget
<1>4. \A q, who : EnteredWell(q, who)' <=> EnteredWell(q, who)
  BY <1>1 DEF EnteredWell
<1>5. \A q : Seeking(q)' <=> Seeking(q)
  BY DEF Seeking
<1> QED
  BY <1>1, <1>3, <1>4, <1>5 DEF VisitOK

\* One request moves on.
LEMMA VisitMoves ==
  ASSUME DoorTypes, VisitsOK, setup' = setup, hidden \subseteq hidden',
         NEW r \in DoorSlots, NEW v, VisitOK(v), door' = [door EXCEPT ![r] = v]
  PROVE  VisitsOK' /\ door' = [s \in DoorSlots |-> door'[s]]
<1>1. door' = [s \in DoorSlots |-> IF s = r THEN v ELSE door[s]]
  BY DEF DoorTypes
<1>2. ASSUME NEW s \in DoorSlots PROVE VisitOK(door[s])'
  <2>1. PICK d : d = door'[s]
    OBVIOUS
  <2>2. VisitOK(d)
    BY <1>1, <2>1 DEF VisitsOK
  <2>3. VisitOK(d)'
    BY <2>2, VisitLasts
  <2> QED
    BY <2>1, <2>3 DEF VisitOK, CutInTime, OverBudget
<1> QED
  BY <1>1, <1>2 DEF VisitsOK

\* No request moves.
LEMMA VisitsLast ==
  ASSUME VisitsOK, setup' = setup, hidden \subseteq hidden', door' = door
  PROVE  VisitsOK'
<1>1. ASSUME NEW s \in DoorSlots PROVE VisitOK(door[s])'
  <2>1. PICK d : d = door[s]
    OBVIOUS
  <2>2. VisitOK(d)'
    BY <2>1, VisitLasts DEF VisitsOK
  <2> QED
    BY <2>1, <2>2 DEF VisitOK, CutInTime, OverBudget
<1> QED
  BY <1>1 DEF VisitsOK

\* One entry of the key cache is replaced by one as good.
LEMMA EntryMoves ==
  ASSUME DoorTypes, KeysTrusted, UNCHANGED <<setup, doorClock, provider, withdrawn, hidden>>,
         NEW i \in Issuers, NEW e \in Entry, Trusted(i, e), keyCache' = [keyCache EXCEPT ![i] = e]
  PROVE  /\ KeysTrusted' /\ keyCache' \in [Issuers -> Entry]
         /\ \A j \in Issuers : keyCache'[j] = IF j = i THEN e ELSE keyCache[j]
<1>1. /\ keyCache' \in [Issuers -> Entry]
      /\ \A j \in Issuers : keyCache'[j] = IF j = i THEN e ELSE keyCache[j]
  BY DEF DoorTypes
<1>2. Barred' = Barred
  BY DEF Barred, Overridden
<1>3. ASSUME NEW j \in Issuers PROVE Trusted(j, keyCache[j])'
  <2>1. PICK x : x = keyCache'[j]
    OBVIOUS
  <2>2. Trusted(j, x)
    BY <1>1, <2>1 DEF KeysTrusted
  <2> QED
    BY <1>2, <2>1, <2>2 DEF Trusted
<1> QED
  BY <1>1, <1>3 DEF KeysTrusted

\* A step that touches neither keys nor providers nor the clock.
LEMMA RestKept ==
  ASSUME DoorInv, UNCHANGED <<setup, doorClock, provider, keyCache, withdrawn, hidden, ruled, closest>>,
         VisitsOK', door' = [s \in DoorSlots |-> door'[s]]
  PROVE  DoorInv'
<1>1. DoorTypes'
  BY DEF DoorInv, DoorTypes
<1>2. Barred' = Barred
  BY DEF Barred, Overridden
<1>3. KeysTrusted'
  BY <1>2 DEF DoorInv, KeysTrusted, Trusted
<1>4. ProvidersPlain' /\ RefreshesApart'
  BY DEF DoorInv, ProvidersPlain, RefreshesApart, Declares
<1> QED
  BY <1>1, <1>3, <1>4 DEF DoorInv

\* The way in starts with empty caches.
LEMMA DoorInitHolds == DoorInit => DoorInv
<1> SUFFICES ASSUME DoorInit PROVE DoorInv
  OBVIOUS
<1>0. /\ JWKS_MIN_REFETCH_SECONDS \in Nat /\ JWKS_MIN_REFETCH_SECONDS > 0 /\ JWKS_TTL_SECONDS \in Nat
      /\ MaxDoorClock \in Nat /\ MaxDoorClock >= JWKS_MIN_REFETCH_SECONDS
      /\ LongAgo \in Int /\ LongAgo - JWKS_TTL_SECONDS \in Int
  BY FrontDoorAssumption DEF LongAgo
<1>1. PICK k \in KeyNumbers \ EncryptionKeys :
        provider = [i \in Issuers |-> [keys |-> {k}, docs |-> <<"good", Declares(i)>>, jwks |-> "good"]]
  BY DEF DoorInit
<1>2. \A i \in Issuers : Declares(i) \in {"good", "pairwise"}
  BY DEF Declares
<1>3. \A i \in Issuers : /\ provider[i].docs = <<"good", Declares(i)>>
                         /\ provider[i].docs[1] = "good" /\ provider[i].docs[2] = Declares(i)
                         /\ provider[i] \in Provider
  BY <1>1, <1>2 DEF Provider
<1>4. provider \in [Issuers -> Provider]
  BY <1>1, <1>3
<1>5. /\ keyCache \in [Issuers -> Entry]
      /\ \A i \in Issuers : /\ keyCache[i].keys = {} /\ keyCache[i].fetchedAt = 0 /\ keyCache[i].located = FALSE
                            /\ keyCache[i].loggedAt["pairwise"] = LongAgo
  BY <1>0 DEF DoorInit, Entry, Diagnostics
<1>a. withdrawn \in [Issuers -> [KeyNumbers -> Int]]
  BY <1>0 DEF DoorInit
<1>b. ruled \in [Issuers -> Int] /\ closest \in [Issuers -> Int]
  BY <1>0 DEF DoorInit
<1>c. door = [r \in DoorSlots |-> door[r]] /\ doorClock \in Nat
  BY DEF DoorInit
<1>6. DoorTypes
  BY <1>4, <1>5, <1>a, <1>b, <1>c DEF DoorTypes
<1>7. KeysTrusted
  BY <1>5 DEF DoorInit, KeysTrusted, Trusted
<1>8. ProvidersPlain
  BY <1>2, <1>3 DEF ProvidersPlain
<1>9. VisitsOK
  <2>1. VisitOK(NoRequest)
    BY DEF VisitOK, NoRequest
  <2> QED
    BY <2>1 DEF DoorInit, VisitsOK
<1>10. RefreshesApart
  BY <1>0, <1>5 DEF DoorInit, RefreshesApart
<1> QED
  BY <1>6, <1>7, <1>8, <1>9, <1>10 DEF DoorInv

\* A request arrives.
LEMMA KnockHolds == ASSUME DoorInv, NEW r \in DoorSlots, NEW q \in DoorRequests, Knock(r, q) PROVE DoorInv'
<1>0. MaxBodyParts \in Nat /\ q.kind \in {"call", "websocket", "dashboard", "metadata", "preflight"}
  BY FrontDoorAssumption
<1>e. ASSUME NEW who, EnteredWell(q, who) PROVE VisitOK(Entered(q, who))
  BY <1>0, <1>e DEF VisitOK, Entered, CutInTime, OverBudget
<1>1. VisitOK(Admitted(q))
  <2>1. CASE setup.auth = "open" \/ Exempt(q)
    <3>1. Admitted(q) = Entered(q, NoPrincipal)
      BY <1>0, <2>1 DEF Admitted, Exempt
    <3>2. EnteredWell(q, NoPrincipal)
      BY <2>1 DEF EnteredWell, Exempt
    <3> QED
      BY <1>e, <3>1, <3>2
  <2>2. CASE q.kind = "websocket" /\ setup.auth # "open"
    <3>1. Admitted(q) = Closed
      BY <2>2 DEF Admitted, Exempt
    <3> QED
      BY <1>0, <3>1 DEF VisitOK, Closed, Done, CutInTime, OverBudget
  <2>3. CASE q.kind = "call" /\ setup.auth # "open" /\ q.cred = StaticToken
    <3>1. Admitted(q) = Entered(q, [client |-> "static"])
      BY <2>3 DEF Admitted, Exempt
    <3>2. EnteredWell(q, [client |-> "static"])
      BY <2>3 DEF EnteredWell
    <3> QED
      BY <1>e, <3>1, <3>2
  <2>4. CASE q.kind = "call" /\ setup.auth # "open" /\ q.cred # StaticToken
    <3> DEFINE i == q.cred.iss
               key == FromCache(i, keyCache[i], q.cred.kid)
    <3>1. Admitted(q) = IF ~Candidate(q.cred) THEN Refused
                        ELSE IF key # NoKey THEN Verified(q, key) ELSE [at |-> "wait", q |-> q]
      BY <2>4 DEF Admitted, Exempt
    <3>2. VisitOK(Refused)
      BY <1>0 DEF VisitOK, Refused, Done, CutInTime, OverBudget
    <3>3. CASE Candidate(q.cred)
      <4>1. i \in Issuers /\ Seeking(q)
        BY <2>4, <3>3 DEF Candidate, Seeking
      <4>2. keyCache[i] \in Entry /\ Trusted(i, keyCache[i]) /\ DoorTypes
        BY <4>1 DEF DoorInv, DoorTypes, KeysTrusted
      <4>3. VisitOK(Verified(q, key))
        BY <4>1, <4>2, TokenVerified
      <4>4. VisitOK([at |-> "wait", q |-> q])
        BY <4>1 DEF VisitOK
      <4> HIDE DEF key
      <4> QED
        BY <3>1, <3>3, <4>3, <4>4
    <3> QED
      BY <3>1, <3>2, <3>3
  <2> QED
    BY <1>0, <2>1, <2>2, <2>3, <2>4 DEF Exempt
<1>2. PICK v : v = Admitted(q)
  OBVIOUS
<1>3. VisitsOK' /\ door' = [s \in DoorSlots |-> door'[s]]
  BY <1>1, <1>2, VisitMoves DEF Knock, DoorInv
<1> QED
  BY <1>3, RestKept DEF Knock

\* The body's parts and the answer.
LEMMA BodyHolds == ASSUME DoorInv, NEW r \in DoorSlots, PullPart(r) \/ AppAnswers(r) PROVE DoorInv'
<1>1. PICK x : x = door[r]
  OBVIOUS
<1>2. /\ x.at = "app" /\ x = [at |-> "app", q |-> x.q, who |-> x.who, seen |-> x.seen, wire |-> x.wire]
      /\ x.seen \in Nat /\ x.wire \in {<<>>, <<413>>} /\ CutInTime(x) /\ EnteredWell(x.q, x.who)
  <2>1. VisitOK(x) /\ x.at = "app"
    BY <1>1 DEF DoorInv, VisitsOK, PullPart, AppAnswers
  <2> QED
    BY <2>1 DEF VisitOK
<1>3. CutOff(x) <=> x.wire = <<413>>
  BY <1>2 DEF CutOff
<1>b. MaxBodyParts \in Nat
  BY FrontDoorAssumption
<1>4. CASE PullPart(r)
  <2> DEFINE d == [x EXCEPT !.seen = @ + 1]
             v == IF setup.body = "reject" /\ OverBudget(d) /\ ~OverBudget(x)
                  THEN [d EXCEPT !.wire = Append(@, 413)] ELSE d
  <2>1. door' = [door EXCEPT ![r] = v] /\ ~CutOff(x)
    BY <1>1, <1>4 DEF PullPart
  <2>2. d = [at |-> "app", q |-> x.q, who |-> x.who, seen |-> x.seen + 1, wire |-> x.wire] /\ x.wire = <<>>
    BY <1>2, <1>3, <2>1
  <2>3. ~(setup.body = "reject" /\ OverBudget(x))
    BY <1>2, <2>2 DEF CutInTime
  <2>v. v = IF setup.body = "reject" /\ OverBudget(d) THEN [d EXCEPT !.wire = Append(@, 413)] ELSE d
    BY <2>3
  <2> HIDE DEF v, d
  <2>4. /\ v.at = "app" /\ v = [at |-> "app", q |-> x.q, who |-> x.who, seen |-> x.seen + 1, wire |-> v.wire]
        /\ v.wire = IF setup.body = "reject" /\ OverBudget(d) THEN <<413>> ELSE <<>>
    <3>1. CASE setup.body = "reject" /\ OverBudget(d)
      <4>1. v = [d EXCEPT !.wire = Append(d.wire, 413)]
        BY <2>v, <3>1
      <4>2. Append(d.wire, 413) = <<413>>
        BY <2>2
      <4>3. v = [at |-> "app", q |-> x.q, who |-> x.who, seen |-> x.seen + 1, wire |-> <<413>>]
        BY <2>2, <4>1, <4>2
      <4> QED
        BY <3>1, <4>3
    <3>2. CASE ~(setup.body = "reject" /\ OverBudget(d))
      <4>1. v = [at |-> "app", q |-> x.q, who |-> x.who, seen |-> x.seen + 1, wire |-> <<>>]
        BY <2>2, <2>v, <3>2
      <4> QED
        BY <3>2, <4>1
    <3> QED
      BY <3>1, <3>2
  <2>5. OverBudget(v) = OverBudget(d)
    BY <2>2, <2>4 DEF OverBudget
  <2>6. VisitOK(v)
    BY <1>2, <2>4, <2>5 DEF VisitOK, CutInTime
  <2>7. PICK w : w = v
    OBVIOUS
  <2>8. VisitsOK' /\ door' = [s \in DoorSlots |-> door'[s]]
    BY <1>4, <2>1, <2>6, <2>7, VisitMoves DEF PullPart, DoorInv
  <2> QED
    BY <1>4, <2>8, RestKept DEF PullPart
<1>5. CASE AppAnswers(r)
  <2> DEFINE v == Done(x.seen, Sent(x, 200))
  <2>1. door' = [door EXCEPT ![r] = v]
    BY <1>1, <1>5 DEF AppAnswers
  <2>s. Sent(x, 200) = IF x.wire = <<413>> THEN <<413>> ELSE <<200>>
    <3>1. CASE x.wire = <<>>
      BY <1>3, <3>1 DEF Sent
    <3>2. CASE x.wire = <<413>>
      BY <1>3, <3>2 DEF Sent
    <3> QED
      BY <1>2, <3>1, <3>2
  <2>2. v = [at |-> "done", seen |-> x.seen, wire |-> v.wire] /\ v.wire = IF x.wire = <<413>> THEN <<413>> ELSE <<200>>
    BY <2>s DEF Done
  <2> HIDE DEF v
  <2>3. OverBudget(v) = OverBudget(x)
    BY <2>2 DEF OverBudget
  <2>4. VisitOK(v)
    BY <1>2, <2>2, <2>3 DEF VisitOK, CutInTime
  <2>5. PICK w : w = v
    OBVIOUS
  <2>6. VisitsOK' /\ door' = [s \in DoorSlots |-> door'[s]]
    BY <1>5, <2>1, <2>4, <2>5, VisitMoves DEF AppAnswers, DoorInv
  <2> QED
    BY <1>5, <2>6, RestKept DEF AppAnswers
<1> QED
  BY <1>4, <1>5

\* A refresh step of one request and the entry of its issuer.
LEMMA RefreshStep ==
  ASSUME DoorInv, UNCHANGED <<setup, doorClock, provider, withdrawn, hidden>>,
         NEW r \in DoorSlots, NEW v, VisitOK(v), door' = [door EXCEPT ![r] = v],
         NEW i \in Issuers, NEW e \in Entry, Trusted(i, e), keyCache' = [keyCache EXCEPT ![i] = e],
         ruled' \in [Issuers -> Int], closest' \in [Issuers -> Int],
         \A j \in Issuers :
           /\ ruled'[j] - (IF j = i THEN e ELSE keyCache[j]).loggedAt["pairwise"] < JWKS_MIN_REFETCH_SECONDS
           /\ closest'[j] >= JWKS_MIN_REFETCH_SECONDS
  PROVE  DoorInv'
<1>i. DoorTypes /\ KeysTrusted /\ ProvidersPlain /\ VisitsOK /\ RefreshesApart
  BY DEF DoorInv
<1>1. /\ KeysTrusted' /\ keyCache' \in [Issuers -> Entry]
      /\ \A j \in Issuers : keyCache'[j] = IF j = i THEN e ELSE keyCache[j]
  BY <1>i, EntryMoves
<1>2. VisitsOK' /\ door' = [s \in DoorSlots |-> door'[s]]
  BY <1>i, VisitMoves
<1>3. DoorTypes'
  BY <1>i, <1>1, <1>2 DEF DoorTypes
<1>4. ProvidersPlain'
  BY <1>i DEF ProvidersPlain, Declares
<1>5. RefreshesApart'
  BY <1>1 DEF RefreshesApart
<1> QED
  BY <1>1, <1>2, <1>3, <1>4, <1>5 DEF DoorInv

\* A request that waits for a key takes the lock.
LEMMA TakeKeyLockHolds == ASSUME DoorInv, NEW r \in DoorSlots, TakeKeyLock(r) PROVE DoorInv'
<1>i. DoorTypes /\ KeysTrusted /\ ProvidersPlain /\ VisitsOK /\ RefreshesApart
  BY DEF DoorInv
<1>0. JWKS_MIN_REFETCH_SECONDS \in Nat
  BY FrontDoorAssumption
<1>1. PICK q, i, e : q = door[r].q /\ i = q.cred.iss /\ e = keyCache[i]
  OBVIOUS
<1>2. door[r].at = "wait" /\ Seeking(q) /\ i \in Issuers
  <2>1. door[r].at = "wait" /\ VisitOK(door[r])
    BY <1>i DEF TakeKeyLock, VisitsOK
  <2> QED
    BY <1>1, <2>1 DEF VisitOK, Seeking
<1>3. e \in Entry /\ Trusted(i, e)
  BY <1>i, <1>1, <1>2 DEF DoorTypes, KeysTrusted
<1> DEFINE served == FromCache(i, e, q.cred.kid)
           gap == doorClock - e.lastAttempt
<1>4. CASE served # NoKey \/ gap < JWKS_MIN_REFETCH_SECONDS
  <2>1. /\ door' = [door EXCEPT ![r] = Verified(q, served)]
        /\ UNCHANGED <<setup, doorClock, provider, keyCache, withdrawn, hidden, ruled, closest>>
    BY <1>1, <1>4 DEF TakeKeyLock
  <2>2. VisitOK(Verified(q, served))
    BY <1>i, <1>1, <1>2, <1>3, TokenVerified
  <2>3. PICK v : v = Verified(q, served)
    OBVIOUS
  <2>4. VisitsOK' /\ door' = [s \in DoorSlots |-> door'[s]]
    BY <1>i, <2>1, <2>2, <2>3, VisitMoves
  <2> QED
    BY <2>1, <2>4, RestKept
<1>5. CASE ~(served # NoKey \/ gap < JWKS_MIN_REFETCH_SECONDS)
  <2> DEFINE w == IF Overridden \/ e.located THEN [at |-> "keys", q |-> q]
                  ELSE [at |-> "metadata", q |-> q, doc |-> 1, found |-> FALSE]
             n == [e EXCEPT !.lastAttempt = doorClock]
  <2>1. /\ keyCache' = [keyCache EXCEPT ![i].lastAttempt = doorClock]
        /\ closest' = [closest EXCEPT ![i] = IF keyCache[i].lastAttempt = LongAgo THEN @ ELSE Lesser(@, gap)]
        /\ door' = [door EXCEPT ![r] = w]
        /\ UNCHANGED <<setup, doorClock, provider, withdrawn, hidden, ruled>>
    BY <1>1, <1>5 DEF TakeKeyLock
  <2>2. keyCache' = [keyCache EXCEPT ![i] = n]
    BY <1>1, <2>1
  <2>3. /\ n \in Entry /\ n.loggedAt = e.loggedAt
        /\ n.keys = e.keys /\ n.located = e.located /\ n.fetchedAt = e.fetchedAt
    <3>1. doorClock \in Int
      BY <1>i DEF DoorTypes
    <3>2. n = [keys |-> e.keys, fetchedAt |-> e.fetchedAt, lastAttempt |-> doorClock, located |-> e.located,
               loggedAt |-> e.loggedAt]
      BY <1>3 DEF Entry
    <3> QED
      BY <1>3, <3>1, <3>2 DEF Entry
  <2>4. Trusted(i, n)
    BY <1>3, <2>3 DEF Trusted
  <2>5. VisitOK(w)
    <3>1. CASE Overridden \/ e.located
      <4>1. i \in Barred => i \in hidden
        BY <1>3, <3>1 DEF Trusted, Barred
      <4>2. w = [at |-> "keys", q |-> q]
        BY <3>1
      <4> HIDE DEF w
      <4> QED
        BY <1>1, <1>2, <4>1, <4>2 DEF VisitOK
    <3>2. CASE ~(Overridden \/ e.located)
      <4>1. w = [at |-> "metadata", q |-> q, doc |-> 1, found |-> FALSE]
        BY <3>2
      <4> HIDE DEF w
      <4> QED
        BY <1>2, <4>1 DEF VisitOK
    <3> QED
      BY <3>1, <3>2
  <2>6. gap \in Int /\ gap >= JWKS_MIN_REFETCH_SECONDS
    BY <1>i, <1>0, <1>3, <1>5 DEF Entry, DoorTypes
  <2> HIDE DEF gap, n, w
  <2>7. closest' \in [Issuers -> Int] /\ \A j \in Issuers : closest'[j] >= JWKS_MIN_REFETCH_SECONDS
    BY <1>i, <1>0, <2>1, <2>6 DEF DoorTypes, RefreshesApart, Lesser
  <2>8. \A j \in Issuers : ruled'[j] - (IF j = i THEN n ELSE keyCache[j]).loggedAt["pairwise"] < JWKS_MIN_REFETCH_SECONDS
    BY <1>i, <1>1, <2>1, <2>3 DEF RefreshesApart
  <2>9. ruled' \in [Issuers -> Int]
    BY <1>i, <2>1 DEF DoorTypes
  <2>10. PICK m, v : m = n /\ v = w
    OBVIOUS
  <2>11. \A j \in Issuers : /\ ruled'[j] - (IF j = i THEN m ELSE keyCache[j]).loggedAt["pairwise"] < JWKS_MIN_REFETCH_SECONDS
                            /\ closest'[j] >= JWKS_MIN_REFETCH_SECONDS
    BY <2>7, <2>8, <2>10
  <2> QED
    BY <1>2, <2>1, <2>2, <2>3, <2>4, <2>5, <2>7, <2>9, <2>10, <2>11, RefreshStep
<1> QED
  BY <1>4, <1>5

\* A logged line moves its own stamp to now, unless it is within the window.
LEMMA LoggedKeeps ==
  ASSUME NEW i \in Issuers, NEW e \in Entry, Trusted(i, e), NEW x \in Diagnostics, doorClock \in Nat
  PROVE  /\ Logged(e, x) \in Entry /\ Trusted(i, Logged(e, x))
         /\ Logged(e, x).keys = e.keys /\ Logged(e, x).located = e.located
         /\ \A y \in Diagnostics : y # x => Logged(e, x).loggedAt[y] = e.loggedAt[y]
         /\ doorClock - Logged(e, x).loggedAt[x] < JWKS_MIN_REFETCH_SECONDS
<1>0. JWKS_MIN_REFETCH_SECONDS \in Nat /\ JWKS_MIN_REFETCH_SECONDS > 0
  BY FrontDoorAssumption
<1>1. CASE doorClock - e.loggedAt[x] < JWKS_MIN_REFETCH_SECONDS
  BY <1>1 DEF Logged
<1>2. CASE ~(doorClock - e.loggedAt[x] < JWKS_MIN_REFETCH_SECONDS)
  <2> DEFINE n == [e EXCEPT !.loggedAt[x] = doorClock]
  <2>1. Logged(e, x) = n
    BY <1>2 DEF Logged
  <2>2. /\ n.loggedAt = [e.loggedAt EXCEPT ![x] = doorClock] /\ e.loggedAt \in [Diagnostics -> Int]
        /\ n.keys = e.keys /\ n.located = e.located /\ n.fetchedAt = e.fetchedAt /\ n.lastAttempt = e.lastAttempt
        /\ n = [keys |-> e.keys, fetchedAt |-> e.fetchedAt, lastAttempt |-> e.lastAttempt, located |-> e.located,
                loggedAt |-> n.loggedAt]
    BY DEF Entry
  <2> HIDE DEF n
  <2>3. n.loggedAt \in [Diagnostics -> Int] /\ n.loggedAt[x] = doorClock
        /\ \A y \in Diagnostics : y # x => n.loggedAt[y] = e.loggedAt[y]
    BY <2>2
  <2>4. n \in Entry
    BY <2>2, <2>3 DEF Entry
  <2>5. Trusted(i, n)
    BY <2>2 DEF Trusted
  <2>6. doorClock - n.loggedAt[x] < JWKS_MIN_REFETCH_SECONDS
    BY <1>0, <2>3
  <2> QED
    BY <2>1, <2>2, <2>3, <2>4, <2>5, <2>6
<1> QED
  BY <1>1, <1>2

\* A refresh ends with the entry e.
LEMMA FinishHolds ==
  ASSUME DoorInv, UNCHANGED <<setup, doorClock, provider, withdrawn, hidden, closest>>,
         NEW r \in DoorSlots, NEW i \in Issuers, NEW e \in Entry, Trusted(i, e), Finish(r, i, e),
         Seeking(door[r].q), door[r].q.cred.iss = i, ruled' \in [Issuers -> Int],
         \A j \in Issuers : ruled'[j] - (IF j = i THEN e ELSE keyCache[j]).loggedAt["pairwise"] < JWKS_MIN_REFETCH_SECONDS
  PROVE  DoorInv'
<1>i. DoorTypes /\ RefreshesApart
  BY DEF DoorInv
<1>1. PICK q : q = door[r].q
  OBVIOUS
<1>2. PICK v : v = Verified(q, FromCache(i, e, q.cred.kid))
  OBVIOUS
<1>3. VisitOK(v)
  BY <1>i, <1>1, <1>2, TokenVerified
<1>4. door' = [door EXCEPT ![r] = v] /\ keyCache' = [keyCache EXCEPT ![i] = e]
  BY <1>1, <1>2 DEF Finish
<1>5. closest' \in [Issuers -> Int] /\ \A j \in Issuers : closest'[j] >= JWKS_MIN_REFETCH_SECONDS
  BY <1>i DEF DoorTypes, RefreshesApart
<1> QED
  BY <1>3, <1>4, <1>5, RefreshStep

\* One metadata document of the walk.
LEMMA ReadMetadataHolds == ASSUME DoorInv, NEW r \in DoorSlots, ReadMetadata(r) PROVE DoorInv'
<1>i. DoorTypes /\ KeysTrusted /\ ProvidersPlain /\ VisitsOK /\ RefreshesApart
  BY DEF DoorInv
<1>0. JWKS_MIN_REFETCH_SECONDS \in Nat
  BY FrontDoorAssumption
<1>1. PICK x, q, i, document : /\ x = door[r] /\ q = x.q /\ i = q.cred.iss
                               /\ document = provider[i].docs[x.doc]
  OBVIOUS
<1>2. /\ Seeking(q) /\ i \in Issuers /\ x.at = "metadata" /\ x.doc \in {1, 2}
      /\ x = [at |-> "metadata", q |-> x.q, doc |-> x.doc, found |-> x.found]
  <2>1. x.at = "metadata" /\ VisitOK(x)
    BY <1>i, <1>1 DEF ReadMetadata, VisitsOK
  <2> QED
    BY <1>1, <2>1 DEF VisitOK, Seeking
<1> DEFINE pairwise == setup.gated /\ document = "pairwise"
           placed == document \in {"good", "pairwise"}
           found == x.found \/ placed
           e0 == IF document = "placeless" THEN Logged(keyCache[i], "placeless") ELSE keyCache[i]
<1>3. PICK e : e = e0
  OBVIOUS
<1>4. keyCache[i] \in Entry /\ Trusted(i, keyCache[i]) /\ doorClock \in Nat
  BY <1>i, <1>2 DEF DoorTypes, KeysTrusted
<1>5. e \in Entry /\ Trusted(i, e) /\ e.loggedAt["pairwise"] = keyCache[i].loggedAt["pairwise"]
  BY <1>2, <1>3, <1>4, LoggedKeeps DEF Diagnostics
<1>6. /\ IF pairwise THEN Finish(r, i, Logged(e, "pairwise"))
         ELSE IF x.doc = 1 /\ (setup.gated \/ ~placed)
         THEN /\ keyCache' = [keyCache EXCEPT ![i] = e]
              /\ door' = [door EXCEPT ![r].doc = 2, ![r].found = found]
         ELSE IF ~found THEN Finish(r, i, e)
         ELSE /\ keyCache' = [keyCache EXCEPT ![i] = [e EXCEPT !.located = TRUE]]
              /\ door' = [door EXCEPT ![r] = [at |-> "keys", q |-> q]]
      /\ ruled' = IF pairwise THEN [ruled EXCEPT ![i] = doorClock] ELSE ruled
      /\ UNCHANGED <<setup, doorClock, provider, withdrawn, hidden, closest>>
  BY <1>1, <1>3 DEF ReadMetadata
<1>7. closest' \in [Issuers -> Int] /\ \A j \in Issuers : closest'[j] >= JWKS_MIN_REFETCH_SECONDS
  BY <1>i, <1>6 DEF DoorTypes, RefreshesApart
<1>8. CASE pairwise
  <2>1. PICK n : n = Logged(e, "pairwise")
    OBVIOUS
  <2>2. n \in Entry /\ Trusted(i, n) /\ doorClock - n.loggedAt["pairwise"] < JWKS_MIN_REFETCH_SECONDS
    BY <1>2, <1>4, <1>5, <2>1, LoggedKeeps DEF Diagnostics
  <2>3. ruled' = [ruled EXCEPT ![i] = doorClock] /\ Finish(r, i, n)
    BY <1>6, <1>8, <2>1
  <2>4. ruled' \in [Issuers -> Int]
    <3>1. doorClock \in Int /\ ruled \in [Issuers -> Int]
      BY <1>i DEF DoorTypes
    <3> QED
      BY <2>3, <3>1
  <2>5. \A j \in Issuers : ruled'[j] - (IF j = i THEN n ELSE keyCache[j]).loggedAt["pairwise"] < JWKS_MIN_REFETCH_SECONDS
    BY <1>i, <2>2, <2>3 DEF DoorTypes, RefreshesApart
  <2> QED
    BY <1>1, <1>2, <1>6, <2>2, <2>3, <2>4, <2>5, FinishHolds
<1>9. CASE ~pairwise
  <2>1. ruled' = ruled /\ ruled' \in [Issuers -> Int]
    BY <1>i, <1>6, <1>9 DEF DoorTypes
  <2>2. \A j \in Issuers : ruled'[j] - (IF j = i THEN e ELSE keyCache[j]).loggedAt["pairwise"] < JWKS_MIN_REFETCH_SECONDS
    BY <1>i, <1>5, <2>1 DEF RefreshesApart
  <2>3. CASE x.doc = 1 /\ (setup.gated \/ ~placed)
    <3> HIDE DEF found
    <3>1. PICK f, v : f = found /\ v = [at |-> "metadata", q |-> q, doc |-> 2, found |-> f]
      OBVIOUS
    <3>2. VisitOK(v)
      BY <1>2, <3>1 DEF VisitOK
    <3>3. keyCache' = [keyCache EXCEPT ![i] = e] /\ door' = [door EXCEPT ![r].doc = 2, ![r].found = found]
      BY <1>6, <1>9, <2>3
    <3>4. door' = [door EXCEPT ![r] = v]
      <4>1. PICK y, d : y = [x EXCEPT !.doc = 2] /\ d = [door EXCEPT ![r] = y]
        OBVIOUS
      <4>2. d[r] = y /\ d = [s \in DoorSlots |-> IF s = r THEN y ELSE door[s]]
        BY <1>i, <4>1 DEF DoorTypes
      <4>3. door' = [d EXCEPT ![r] = [d[r] EXCEPT !.found = f]]
        BY <1>1, <3>1, <3>3, <4>1
      <4>4. y = [at |-> "metadata", q |-> q, doc |-> 2, found |-> x.found]
        BY <1>1, <1>2, <4>1
      <4>5. [y EXCEPT !.found = f] = v
        BY <3>1, <4>4
      <4>6. door' = [s \in DoorSlots |-> IF s = r THEN v ELSE door[s]]
        BY <4>2, <4>3, <4>5
      <4> QED
        BY <1>i, <4>6 DEF DoorTypes
    <3> QED
      BY <1>2, <1>5, <1>6, <1>7, <2>1, <2>2, <3>2, <3>3, <3>4, RefreshStep
  <2>4. CASE ~(x.doc = 1 /\ (setup.gated \/ ~placed)) /\ ~found
    <3>1. Finish(r, i, e)
      BY <1>6, <1>9, <2>4
    <3> QED
      BY <1>1, <1>2, <1>5, <1>6, <2>1, <2>2, <3>1, FinishHolds
  <2>5. CASE ~(x.doc = 1 /\ (setup.gated \/ ~placed)) /\ found
    <3>1. PICK n : n = [e EXCEPT !.located = TRUE]
      OBVIOUS
    <3>2. PICK v : v = [at |-> "keys", q |-> q]
      OBVIOUS
    <3>3. keyCache' = [keyCache EXCEPT ![i] = n] /\ door' = [door EXCEPT ![r] = v]
      BY <1>6, <1>9, <2>5, <3>1, <3>2
    <3>4. n \in Entry /\ n.keys = e.keys /\ n.fetchedAt = e.fetchedAt /\ n.loggedAt = e.loggedAt
      BY <1>5, <3>1 DEF Entry
    \* A barred issuer's walk got past its discovery document only if that was hidden.
    <3>5. i \in Barred => i \in hidden
      <4> SUFFICES ASSUME i \in Barred PROVE i \in hidden
        OBVIOUS
      <4>1. setup.gated /\ i \in PairwiseIssuers
        BY DEF Barred
      <4>2. x.doc = 2 /\ document # "pairwise"
        BY <1>2, <1>9, <2>5, <4>1
      <4>3. document = "down"
        BY <1>i, <1>1, <1>2, <4>1, <4>2 DEF ProvidersPlain, Declares
      <4> QED
        BY <1>i, <1>1, <1>2, <4>2, <4>3 DEF ProvidersPlain
    <3>6. Trusted(i, n)
      BY <1>5, <3>4, <3>5 DEF Trusted
    <3>7. VisitOK(v)
      BY <1>1, <1>2, <3>2, <3>5 DEF VisitOK
    <3>8. \A j \in Issuers : ruled'[j] - (IF j = i THEN n ELSE keyCache[j]).loggedAt["pairwise"] < JWKS_MIN_REFETCH_SECONDS
      BY <2>2, <3>4
    <3> QED
      BY <1>2, <1>6, <1>7, <2>1, <3>3, <3>4, <3>6, <3>7, <3>8, RefreshStep
  <2> QED
    BY <2>3, <2>4, <2>5
<1> QED
  BY <1>8, <1>9

\* The key set arrives, or does not.
LEMMA ReadKeySetHolds == ASSUME DoorInv, NEW r \in DoorSlots, ReadKeySet(r) PROVE DoorInv'
<1>i. DoorTypes /\ KeysTrusted /\ ProvidersPlain /\ VisitsOK /\ RefreshesApart
  BY DEF DoorInv
<1>1. PICK x, i : x = door[r] /\ i = x.q.cred.iss
  OBVIOUS
<1>2. Seeking(x.q) /\ i \in Issuers /\ (i \in Barred => i \in hidden)
  <2>1. x.at = "keys" /\ VisitOK(x)
    BY <1>i, <1>1 DEF ReadKeySet, VisitsOK
  <2> QED
    BY <1>1, <2>1 DEF VisitOK, Seeking
<1> DEFINE signing == provider[i].keys \ EncryptionKeys
           usable == signing # {} /\ (i \in KidlessIssuers => Cardinality(signing) = 1)
           e0 == CASE provider[i].jwks = "down" -> [keyCache[i] EXCEPT !.located = FALSE]
                   [] provider[i].jwks = "good" /\ usable -> [keyCache[i] EXCEPT !.keys = signing, !.fetchedAt = doorClock]
                   [] OTHER -> keyCache[i]
<1>3. PICK e : e = e0
  OBVIOUS
<1>4. Finish(r, i, e) /\ UNCHANGED <<setup, doorClock, provider, withdrawn, hidden, ruled, closest>>
  BY <1>1, <1>3 DEF ReadKeySet
<1>5. /\ keyCache[i] \in Entry /\ Trusted(i, keyCache[i]) /\ doorClock \in Nat
      /\ provider[i].keys \subseteq KeyNumbers
  BY <1>i, <1>2 DEF DoorTypes, KeysTrusted, Provider
<1>6. e \in Entry /\ Trusted(i, e) /\ e.loggedAt = keyCache[i].loggedAt
  <2>1. CASE e = keyCache[i]
    BY <1>5, <2>1
  <2>2. CASE e = [keyCache[i] EXCEPT !.located = FALSE]
    <3>1. /\ e \in Entry /\ e.keys = keyCache[i].keys /\ e.fetchedAt = keyCache[i].fetchedAt
          /\ e.located = FALSE /\ e.loggedAt = keyCache[i].loggedAt
      BY <1>5, <2>2 DEF Entry
    <3> QED
      BY <1>5, <3>1 DEF Trusted
  <2>3. CASE e = [keyCache[i] EXCEPT !.keys = signing, !.fetchedAt = doorClock]
    <3>1. signing \subseteq KeyNumbers /\ signing \subseteq provider[i].keys /\ doorClock \in Int
      BY <1>5
    <3> HIDE DEF signing
    <3>2. e \in Entry /\ e.keys = signing /\ e.fetchedAt = doorClock /\ e.loggedAt = keyCache[i].loggedAt
      BY <1>5, <2>3, <3>1 DEF Entry
    <3> QED
      BY <1>2, <1>5, <3>1, <3>2 DEF Trusted
  <2> QED
    BY <1>3, <2>1, <2>2, <2>3
<1>7. /\ ruled' \in [Issuers -> Int]
      /\ \A j \in Issuers : ruled'[j] - (IF j = i THEN e ELSE keyCache[j]).loggedAt["pairwise"] < JWKS_MIN_REFETCH_SECONDS
  BY <1>i, <1>4, <1>6 DEF DoorTypes, RefreshesApart
<1> QED
  BY <1>1, <1>2, <1>4, <1>6, <1>7, FinishHolds

\* Time passes.
LEMMA DoorTickHolds == ASSUME DoorInv, DoorTick PROVE DoorInv'
<1>i. DoorTypes /\ KeysTrusted /\ ProvidersPlain /\ VisitsOK /\ RefreshesApart
  BY DEF DoorInv
<1>1. /\ doorClock' = doorClock + 1 /\ doorClock' \in Nat
      /\ UNCHANGED <<setup, provider, keyCache, door, withdrawn, hidden, ruled, closest>>
  BY <1>i DEF DoorTick, DoorTypes
<1>2. DoorTypes'
  BY <1>i, <1>1 DEF DoorTypes
<1>3. Barred' = Barred
  BY <1>1 DEF Barred, Overridden
<1>4. \A i \in Issuers : keyCache[i].fetchedAt \in Int
  BY <1>i DEF DoorTypes, Entry
<1>5. KeysTrusted'
  BY <1>i, <1>1, <1>3, <1>4 DEF KeysTrusted, Trusted, DoorTypes
<1>6. VisitsOK'
  BY <1>i, <1>1, VisitsLast
<1>7. ProvidersPlain' /\ RefreshesApart'
  BY <1>i, <1>1 DEF ProvidersPlain, RefreshesApart, Declares
<1> QED
  BY <1>2, <1>5, <1>6, <1>7 DEF DoorInv

\* A provider rotates its keys, or loses or regains a document.
LEMMA ProviderHolds ==
  ASSUME DoorInv, NEW i \in Issuers, NEW new \in News_(i), ProviderChanges(i, new)
  PROVE  DoorInv'
<1>i. DoorTypes /\ KeysTrusted /\ ProvidersPlain /\ VisitsOK /\ RefreshesApart
  BY DEF DoorInv
<1>1. PICK old : old = provider[i]
  OBVIOUS
<1>2. /\ old \in Provider /\ old.docs[1] # "pairwise" /\ old.docs[2] \in {Declares(i), "down"}
      /\ Declares(i) \in {"good", "pairwise"}
  BY <1>i, <1>1 DEF DoorTypes, ProvidersPlain, Declares
<1>3. /\ provider' = [provider EXCEPT ![i] = new]
      /\ withdrawn' = [withdrawn EXCEPT ![i] = [k \in KeyNumbers |->
            IF k \in old.keys \ new.keys THEN doorClock ELSE withdrawn[i][k]]]
      /\ hidden' = IF new.docs[2] = "down" THEN hidden \cup {i} ELSE hidden
      /\ UNCHANGED <<setup, doorClock, keyCache, door, ruled, closest>>
  BY <1>1 DEF ProviderChanges
<1>4. /\ new \in Provider /\ new.docs[1] # "pairwise" /\ new.docs[2] \in {Declares(i), "down"}
  <2>1. CASE \E ks \in (SUBSET KeyNumbers) \ {{}} : new = [old EXCEPT !.keys = ks]
    BY <1>2, <2>1 DEF Provider
  <2>2. CASE \E d \in {"good", "placeless", "down"} : new = [old EXCEPT !.docs[1] = d]
    <3>1. PICK d \in {"good", "placeless", "down"} : new = [old EXCEPT !.docs[1] = d]
      BY <2>2
    <3>2. new = [keys |-> old.keys, docs |-> [old.docs EXCEPT ![1] = d], jwks |-> old.jwks]
      BY <1>2, <3>1 DEF Provider
    <3>3. /\ [old.docs EXCEPT ![1] = d] \in [1..2 -> {"good", "placeless", "pairwise", "down"}]
          /\ [old.docs EXCEPT ![1] = d][1] = d /\ [old.docs EXCEPT ![1] = d][2] = old.docs[2]
      BY <1>2 DEF Provider
    <3> QED
      BY <1>2, <3>2, <3>3 DEF Provider
  <2>3. CASE \E d \in {Declares(i), "down"} : new = [old EXCEPT !.docs[2] = d]
    <3>1. PICK d \in {Declares(i), "down"} : new = [old EXCEPT !.docs[2] = d]
      BY <2>3
    <3>2. new = [keys |-> old.keys, docs |-> [old.docs EXCEPT ![2] = d], jwks |-> old.jwks]
      BY <1>2, <3>1 DEF Provider
    <3>3. /\ [old.docs EXCEPT ![2] = d] \in [1..2 -> {"good", "placeless", "pairwise", "down"}]
          /\ [old.docs EXCEPT ![2] = d][2] = d /\ [old.docs EXCEPT ![2] = d][1] = old.docs[1]
      BY <1>2 DEF Provider
    <3> QED
      BY <1>2, <3>2, <3>3 DEF Provider
  <2>4. CASE \E j \in {"good", "junk", "down"} : new = [old EXCEPT !.jwks = j]
    BY <1>2, <2>4 DEF Provider
  <2> QED
    BY <1>1, <2>1, <2>2, <2>3, <2>4 DEF News_
<1>5. /\ provider' \in [Issuers -> Provider]
      /\ \A j \in Issuers : provider'[j] = IF j = i THEN new ELSE provider[j]
  BY <1>i, <1>3, <1>4 DEF DoorTypes
<1>6. /\ withdrawn' \in [Issuers -> [KeyNumbers -> Int]]
      /\ \A j \in Issuers, k \in KeyNumbers :
           withdrawn'[j][k] = IF j = i /\ k \in old.keys \ new.keys THEN doorClock ELSE withdrawn[j][k]
  <2>1. PICK w : w = [k \in KeyNumbers |-> IF k \in old.keys \ new.keys THEN doorClock ELSE withdrawn[i][k]]
    OBVIOUS
  <2>2. w \in [KeyNumbers -> Int]
    BY <1>i, <2>1 DEF DoorTypes
  <2>3. withdrawn' = [withdrawn EXCEPT ![i] = w]
    BY <1>3, <2>1
  <2> QED
    BY <1>i, <2>1, <2>2, <2>3 DEF DoorTypes
<1>7. hidden \subseteq hidden' /\ Barred' = Barred
  BY <1>3 DEF Barred, Overridden
<1>8. DoorTypes'
  BY <1>i, <1>3, <1>5, <1>6 DEF DoorTypes
<1>9. ASSUME NEW j \in Issuers PROVE Trusted(j, keyCache[j])'
  <2>1. PICK e : e = keyCache[j]
    OBVIOUS
  <2>2. e \in Entry /\ Trusted(j, e) /\ doorClock \in Nat
    BY <1>i, <2>1 DEF DoorTypes, KeysTrusted
  <2>3. ASSUME NEW k \in e.keys PROVE k \in provider'[j].keys \/ withdrawn'[j][k] >= e.fetchedAt
    <3>1. k \in KeyNumbers /\ e.fetchedAt \in Int /\ e.fetchedAt <= doorClock
      BY <2>2 DEF Entry, Trusted
    <3>2. k \in provider[j].keys \/ withdrawn[j][k] >= e.fetchedAt
      BY <2>2 DEF Trusted
    <3> QED
      BY <1>1, <1>5, <1>6, <2>2, <3>1, <3>2
  <2> QED
    BY <1>3, <1>7, <2>1, <2>2, <2>3 DEF Trusted
<1>10. KeysTrusted'
  BY <1>9 DEF KeysTrusted
<1>11. ProvidersPlain'
  BY <1>i, <1>3, <1>4, <1>5 DEF ProvidersPlain, Declares
<1>12. VisitsOK' /\ RefreshesApart'
  BY <1>i, <1>3, <1>7, VisitsLast DEF RefreshesApart
<1> QED
  BY <1>8, <1>10, <1>11, <1>12 DEF DoorInv

\* Every step of the way in keeps its invariant.
LEMMA DoorStepHolds == DoorInv /\ [DoorNext]_doorVars => DoorInv'
<1> SUFFICES ASSUME DoorInv, [DoorNext]_doorVars PROVE DoorInv'
  OBVIOUS
<1>1. ASSUME NEW r \in DoorSlots, NEW q \in DoorRequests, Knock(r, q) PROVE DoorInv'
  BY <1>1, KnockHolds
<1>2. ASSUME NEW r \in DoorSlots, TakeKeyLock(r) PROVE DoorInv'
  BY <1>2, TakeKeyLockHolds
<1>3. ASSUME NEW r \in DoorSlots, ReadMetadata(r) PROVE DoorInv'
  BY <1>3, ReadMetadataHolds
<1>4. ASSUME NEW r \in DoorSlots, ReadKeySet(r) PROVE DoorInv'
  BY <1>4, ReadKeySetHolds
<1>5. ASSUME NEW r \in DoorSlots, PullPart(r) \/ AppAnswers(r) PROVE DoorInv'
  BY <1>5, BodyHolds
<1>6. CASE DoorTick
  BY <1>6, DoorTickHolds
<1>7. ASSUME NEW i \in Issuers, NEW new \in News_(i), ProviderChanges(i, new) PROVE DoorInv'
  BY <1>7, ProviderHolds
<1>8. CASE UNCHANGED doorVars
  <2>1. UNCHANGED <<setup, doorClock, provider, keyCache, withdrawn, hidden, ruled, closest, door>>
    BY <1>8 DEF doorVars
  <2>2. VisitsOK' /\ door' = [s \in DoorSlots |-> door'[s]]
    BY <2>1, VisitsLast DEF DoorInv, DoorTypes
  <2> QED
    BY <2>1, <2>2, RestKept
<1> QED
  BY <1>1, <1>2, <1>3, <1>4, <1>5, <1>6, <1>7, <1>8 DEF DoorNext

\* However requests, refreshes, rotations and outages interleave (oauth.py, server.py), a
\* call runs only under the principal its credential proves, with a key published or
\* withdrawn less than the TTL ago; barred issuers authenticate nobody; refreshes keep
\* their distance; and each request has one answer: for any issuers, keys, requests,
\* slots, budget and clock.
THEOREM TheDoorHolds == DoorSpec => []DoorHolds
<1>1. DoorInit => DoorInv
  BY DoorInitHolds
<1>2. DoorInv /\ [DoorNext]_doorVars => DoorInv'
  BY DoorStepHolds
<1>3. DoorInv => DoorHolds
  BY DoorInvHolds
<1> QED
  BY <1>1, <1>2, <1>3, PTL DEF DoorSpec

----------------------------------------------------------------------------
(* Access control: what a granted call reaches.                            *)

\* A call as the guard passes it on.
IsCall(c) ==
  /\ c = [grants |-> c.grants, bounded |-> c.bounded, subject |-> c.subject, tool |-> c.tool,
          agent |-> c.agent, target |-> c.target, alias |-> c.alias]
  /\ c.grants \in Grants /\ c.tool \in AclTools /\ c.alias \in AliasNames \cup {NoOne}

\* Rows of the ledger: a function to aliases.
IsRows(R) == R = [s \in DOMAIN R |-> R[s]] /\ \A s \in DOMAIN R : R[s] \in AliasNames

\* What ReachIsGranted says of one call.
Permitted(c) ==
  /\ \A r \in Reaches(c) : Level(c.grants, r[1]) >= r[2]
  /\ c.bounded => Cardinality({r[1] : r \in Reaches(c)}) <= 1

\* The least of some levels is one of them and at most each of them.
LEMMA LeastLevel ==
  ASSUME NEW S, S \subseteq 0..Writing, S # {}
  PROVE  Min(S) \in S /\ \A n \in S : Min(S) <= n
<1>1. \E x \in S : \A y \in S : x <= y
  <2>1. CASE 0 \in S
    BY <2>1 DEF Writing
  <2>2. CASE 0 \notin S /\ 1 \in S
    BY <2>2 DEF Writing
  <2>3. CASE 0 \notin S /\ 1 \notin S
    <3>1. \A x \in 0..Writing : x = 0 \/ x = 1 \/ x = 2
      BY DEF Writing
    <3>2. \A x \in S : x = 2
      BY <2>3, <3>1
    <3>3. PICK x \in S : x = 2
      BY <3>2
    <3> QED
      BY <3>2, <3>3
  <2> QED
    BY <2>1, <2>2, <2>3
<1> QED
  BY <1>1 DEF Min

\* A grant for a pattern is one for every agent the pattern stands for.
LEMMA PatternCovers ==
  ASSUME NEW grants \in Grants, NEW p, NEW n \in {Read, Writing}, EffectivePermission(grants, p) >= n,
         NEW a \in IF p = Wild THEN AgentIds ELSE {p}
  PROVE  Level(grants, a) >= n
<1>1. PICK named \in SUBSET (AgentIds \cup {Wild}) : grants \in [named -> 0..Writing]
  BY DEF Grants
<1>2. DOMAIN grants = named /\ \A x \in named : grants[x] \in 0..Writing
  BY <1>1
<1>3. n \in 1..2
  BY DEF Read, Writing
<1>4. CASE p = Wild
  <2> DEFINE S == {grants[x] : x \in DOMAIN grants}
  <2>1. Wild \in DOMAIN grants /\ Min(S) >= n
    BY <1>3, <1>4 DEF EffectivePermission
  <2>2. S \subseteq 0..Writing /\ S # {}
    BY <1>2, <2>1
  <2>3. Min(S) \in S /\ \A x \in S : Min(S) <= x
    BY <2>2, LeastLevel
  <2>4. \A x \in DOMAIN grants : grants[x] >= n
    <3> SUFFICES ASSUME NEW x \in DOMAIN grants PROVE grants[x] >= n
      OBVIOUS
    <3>1. grants[x] \in S /\ grants[x] \in Int /\ Min(S) \in Int
      BY <2>2, <2>3 DEF Writing
    <3> HIDE DEF S
    <3> QED
      BY <1>3, <2>1, <2>3, <3>1
  <2> QED
    BY <2>1, <2>4 DEF Level
<1>5. CASE p # Wild
  BY <1>3, <1>5 DEF Level, EffectivePermission
<1> QED
  BY <1>4, <1>5

\* The guard lets a call through only if it may reach what it reaches.
LEMMA GrantedIsPermitted ==
  ASSUME NEW c, IsCall(c), NEW R, IsRows(R), Granted(c, R)
  PROVE  Permitted(c)
<1> DEFINE demands == Demands(c.tool, c.agent, c.target)
           own == IF c.alias # NoOne THEN c.alias
                  ELSE IF c.subject \in DOMAIN R THEN R[c.subject] ELSE NoOne
<1>1. \A d \in demands : d = <<d[1], d[2]>> /\ d[2] \in {Read, Writing}
  BY DEF IsCall, AclTools, Demands
<1>2. /\ c.bounded => \A d \in demands : own # NoOne /\ d[1] = own
      /\ \A d \in demands : EffectivePermission(c.grants, d[1]) >= d[2]
  BY DEF Granted
<1>3. own \in AliasNames \cup {NoOne}
  BY DEF IsCall, IsRows
<1> HIDE DEF demands, own
<1>4. ASSUME NEW r \in Reaches(c)
      PROVE  \E d \in demands : \E a \in IF d[1] = Wild THEN AgentIds ELSE {d[1]} : r = <<a, d[2]>>
  BY DEF Reaches, demands
<1>5. ASSUME NEW r \in Reaches(c) PROVE Level(c.grants, r[1]) >= r[2]
  <2>1. PICK d \in demands : \E a \in IF d[1] = Wild THEN AgentIds ELSE {d[1]} : r = <<a, d[2]>>
    BY <1>4
  <2>2. PICK a \in IF d[1] = Wild THEN AgentIds ELSE {d[1]} : r = <<a, d[2]>>
    BY <2>1
  <2>3. Level(c.grants, a) >= d[2]
    BY <1>1, <1>2, PatternCovers DEF IsCall
  <2> QED
    BY <2>2, <2>3
<1>6. ASSUME c.bounded PROVE Cardinality({r[1] : r \in Reaches(c)}) <= 1
  <2> DEFINE T == {r[1] : r \in Reaches(c)}
  <2>1. \A r \in Reaches(c) : r[1] = own
    <3> SUFFICES ASSUME NEW r \in Reaches(c) PROVE r[1] = own
      OBVIOUS
    <3>1. PICK d \in demands : \E a \in IF d[1] = Wild THEN AgentIds ELSE {d[1]} : r = <<a, d[2]>>
      BY <1>4
    <3>2. d[1] = own /\ own # NoOne
      BY <1>2, <1>6
    <3>3. own # Wild
      BY <1>3, <3>2, AccessAssumption DEF AgentIds
    <3> QED
      BY <3>1, <3>2, <3>3
  <2>2. T \subseteq {own}
    BY <2>1
  <2>3. IsFiniteSet({own}) /\ Cardinality({own}) = 1
    BY FS_Singleton
  <2>4. Cardinality(T) <= 1
    <3> HIDE DEF T
    <3> QED
      BY <2>2, <2>3, FS_Subset
  <2> QED
    BY <2>4
<1> QED
  BY <1>5, <1>6 DEF Permitted

----------------------------------------------------------------------------
(* Access control: how far the ledger and its copies in memory may differ. *)

\* The rows a process would hold without the alias it is issuing.
Base(m) ==
  IF m.guard.st = "minted" THEN Restrict(m.rows, DOMAIN m.rows \ {m.guard.call.subject}) ELSE m.rows

\* But for what the operator edited (C), rows R are in L and no alias of R is lost.
Behind(R, L, C) ==
  /\ \A s \in DOMAIN R \ C : s \in DOMAIN L /\ L[s] = R[s]
  /\ \A s \in DOMAIN R : R[s] \in Aliases(L) \cup C

Unique(R, C) == \A s, t \in DOMAIN R \ C : R[s] = R[t] => s = t

\* A process that has issued an alias and not written it: nobody else wrote since.
Issuing(m, L, C) ==
  /\ IsCall(m.guard.call) /\ m.guard.call.subject \in DOMAIN m.rows
  /\ m.rows[m.guard.call.subject] = m.guard.call.alias
  /\ Behind(L, Base(m), C) /\ Unique(m.rows, C)

ProcessOK(m, led, C) ==
  /\ m = [up |-> m.up, rows |-> m.rows, seen |-> m.seen, guard |-> m.guard]
  /\ IsRows(m.rows) /\ m.seen \in Nat /\ m.seen <= led.version
  /\ m.guard.st \in {"idle", "miss", "minted"}
  /\ m.seen = led.version \/ led.version = 0 => Base(m) = led.rows
  /\ Behind(Base(m), led.rows, C)
  /\ m.guard.st = "miss" => IsCall(m.guard.call)
  /\ m.guard.st = "minted" => Issuing(m, led.rows, C)

LedgerOK(led, C) ==
  /\ led = [rows |-> led.rows, version |-> led.version, parses |-> led.parses]
  /\ IsRows(led.rows) /\ led.version \in Nat
  /\ led.version = 0 => led.rows = NoRows
  /\ Unique(led.rows, C)

CreatedBy(c) == CreatesUnder(c.tool, c.agent, c.target)

HandlerOK(h, L, C) ==
  /\ IsCall(h.call) /\ Permitted(h.call)
  /\ h.call.alias # NoOne /\ h.call.subject \notin C =>
       h.call.subject \in DOMAIN L /\ L[h.call.subject] = h.call.alias
  /\ CreatedBy(h.call) \in AliasNames => CreatedBy(h.call) \in Aliases(L) \cup C

\* What was answered and what was written is still in the ledger.
AnswersStand(L, C) ==
  /\ \A x \in told : x[1] \notin C => x[1] \in DOMAIN L /\ L[x[1]] = x[2]
  /\ \A a \in occupied \cap AliasNames : a \in Aliases(L) \cup C

AccessInv ==
  /\ LedgerOK(ledger, cut)
  /\ server = [p \in Servers |-> server[p]]
  /\ \A p \in Servers : ProcessOK(server[p], ledger, cut)
  /\ \A p \in Servers : server[p].guard.st = "minted" => holder = p
  /\ \A h \in running : HandlerOK(h, ledger.rows, cut)
  /\ AnswersStand(ledger.rows, cut)

\* Rows are behind themselves.
LEMMA BehindItself ==
  ASSUME NEW R, NEW C
  PROVE  Behind(R, R, C)
BY DEF Behind, Aliases

\* What is behind is behind whatever comes after, and after more edits.
LEMMA BehindChain ==
  ASSUME NEW R, NEW L, NEW M, NEW C, NEW D, C \subseteq D, Behind(R, L, C), Behind(L, M, D)
  PROVE  Behind(R, M, D)
<1>1. ASSUME NEW s \in DOMAIN R \ D PROVE s \in DOMAIN M /\ M[s] = R[s]
  BY <1>1 DEF Behind
<1>2. ASSUME NEW s \in DOMAIN R PROVE R[s] \in Aliases(M) \cup D
  <2>1. R[s] \in Aliases(L) \cup C
    BY DEF Behind
  <2>2. CASE R[s] \in Aliases(L)
    <3>1. PICK t \in DOMAIN L : R[s] = L[t]
      BY <2>2 DEF Aliases
    <3> QED
      BY <3>1 DEF Behind
  <2> QED
    BY <2>1, <2>2
<1> QED
  BY <1>1, <1>2 DEF Behind

\* An edit by hand: what it takes away or doubles is among what was edited.
LEMMA EditedRows ==
  ASSUME NEW R, IsRows(R), NEW C, Unique(R, C), NEW s, NEW M, NEW D,
         \/ s \in DOMAIN R /\ M = Restrict(R, DOMAIN R \ {s})
         \/ \E t \in DOMAIN R : M = With(R, s, R[t]),
         D = C \cup {s} \cup {R[x] : x \in DOMAIN R \cap {s}}
  PROVE  /\ IsRows(M) /\ Unique(M, D)
         /\ Behind(R, M, D) /\ Behind(M, R, D)
<1>1. /\ s \in D /\ C \subseteq D
      /\ \A x \in DOMAIN R : x = s => R[x] \in D
  OBVIOUS
<1>2. /\ IsRows(M)
      /\ \A x \in DOMAIN R \ {s} : x \in DOMAIN M /\ M[x] = R[x]
      /\ \A x \in DOMAIN M \ {s} : x \in DOMAIN R /\ M[x] = R[x]
      /\ \A x \in DOMAIN M : M[x] \in Aliases(R)
  <2>1. CASE s \in DOMAIN R /\ M = Restrict(R, DOMAIN R \ {s})
    BY <2>1 DEF Restrict, IsRows, Aliases
  <2>2. CASE \E t \in DOMAIN R : M = With(R, s, R[t])
    <3>1. PICK t \in DOMAIN R : M = With(R, s, R[t])
      BY <2>2
    <3>2. M = [x \in DOMAIN R \cup {s} |-> IF x = s THEN R[t] ELSE R[x]]
      BY <3>1 DEF With
    <3>3. /\ DOMAIN M = DOMAIN R \cup {s}
          /\ \A x \in DOMAIN M : M[x] = IF x = s THEN R[t] ELSE R[x]
      BY <3>2
    <3>4. M = [x \in DOMAIN M |-> M[x]]
      BY <3>2
    <3>5. \A x \in DOMAIN M : M[x] \in AliasNames /\ M[x] \in Aliases(R)
      BY <3>3 DEF IsRows, Aliases
    <3> QED
      BY <3>3, <3>4, <3>5 DEF IsRows
  <2> QED
    BY <2>1, <2>2
<1>3. Unique(M, D)
  BY <1>1, <1>2 DEF Unique
<1>4. Behind(M, R, D)
  BY <1>1, <1>2 DEF Behind
<1>5. Behind(R, M, D)
  <2>1. ASSUME NEW x \in DOMAIN R PROVE R[x] \in Aliases(M) \cup D
    BY <1>1, <1>2 DEF Aliases
  <2> QED
    BY <1>1, <1>2, <2>1 DEF Behind
<1> QED
  BY <1>2, <1>3, <1>4, <1>5

\* A process keeps to a ledger that somebody else changed.
LEMMA ProcessKept ==
  ASSUME NEW m, NEW led, NEW new, NEW C, NEW D, ProcessOK(m, led, C), C \subseteq D,
         led.version \in Nat, new.version \in Nat, new.version > led.version,
         Behind(led.rows, new.rows, D),
         m.guard.st = "minted" => Behind(new.rows, led.rows, D)
  PROVE  ProcessOK(m, new, D)
<1>1. /\ m = [up |-> m.up, rows |-> m.rows, seen |-> m.seen, guard |-> m.guard]
      /\ IsRows(m.rows) /\ m.seen \in Nat /\ m.seen <= led.version
      /\ m.guard.st \in {"idle", "miss", "minted"}
      /\ m.guard.st = "miss" => IsCall(m.guard.call)
  BY DEF ProcessOK
<1>2. m.seen <= new.version /\ ~(m.seen = new.version \/ new.version = 0)
  BY <1>1
<1>3. Behind(Base(m), new.rows, D)
  <2>1. Behind(Base(m), led.rows, C)
    BY DEF ProcessOK
  <2> QED
    BY <2>1, BehindChain
<1>4. m.guard.st = "minted" => Issuing(m, new.rows, D)
  <2> SUFFICES ASSUME m.guard.st = "minted" PROVE Issuing(m, new.rows, D)
    OBVIOUS
  <2>1. Issuing(m, led.rows, C)
    BY DEF ProcessOK
  <2>2. Behind(led.rows, Base(m), C) /\ Unique(m.rows, C)
    BY <2>1 DEF Issuing
  <2>3. Behind(led.rows, Base(m), D)
    BY <2>2 DEF Behind
  <2>4. Behind(new.rows, Base(m), D)
    BY <2>3, BehindChain
  <2>5. Unique(m.rows, D)
    BY <2>2 DEF Unique
  <2> QED
    BY <2>1, <2>4, <2>5 DEF Issuing
<1> QED
  BY <1>1, <1>2, <1>3, <1>4 DEF ProcessOK

\* A handler under way keeps to it too.
LEMMA HandlerKept ==
  ASSUME NEW h, NEW L, NEW M, NEW C, NEW D, HandlerOK(h, L, C), C \subseteq D, Behind(L, M, D)
  PROVE  HandlerOK(h, M, D)
<1>1. \A a \in Aliases(L) \cup C : a \in Aliases(M) \cup D
  BY DEF Behind, Aliases
<1> QED
  BY <1>1 DEF HandlerOK, Behind

\* What was answered and written stays so.
LEMMA RememberedKept ==
  ASSUME NEW L, NEW M, NEW C, NEW D, AnswersStand(L, C), C \subseteq D, Behind(L, M, D)
  PROVE  AnswersStand(M, D)
<1>1. \A a \in Aliases(L) \cup C : a \in Aliases(M) \cup D
  BY DEF Behind, Aliases
<1> QED
  BY <1>1 DEF AnswersStand, Behind

\* A process between calls reads the file again: it holds what the file says, if the
\* file can be read, and is behind it if not.
LEMMA RefreshedOK ==
  ASSUME LedgerOK(ledger, cut), NEW o, ProcessOK(o, ledger, cut), o.guard.st # "minted",
         NEW seen \in Seens, NEW m, m = RefreshedLedger(o, seen)
  PROVE  /\ ProcessOK(m, ledger, cut) /\ m.guard = o.guard /\ m.up = o.up
         /\ ledger.parses => m.rows = ledger.rows
         /\ Base(m) = m.rows /\ Behind(m.rows, ledger.rows, cut)
<1>1. Base(o) = o.rows
  BY DEF Base
<1>2. CASE Unchanged(o)
  <2>1. m = o
    BY <1>2 DEF RefreshedLedger
  <2> QED
    BY <1>1, <1>2, <2>1 DEF Unchanged, ProcessOK
<1>3. CASE ~Unchanged(o)
  <2>1. m = [o EXCEPT !.rows = ledger.rows, !.seen = seen]
    BY <1>3 DEF RefreshedLedger
  <2>2. o = [up |-> o.up, rows |-> o.rows, seen |-> o.seen, guard |-> o.guard]
    BY DEF ProcessOK
  <2>3. m = [up |-> o.up, rows |-> ledger.rows, seen |-> seen, guard |-> o.guard]
    BY <2>1, <2>2
  <2>4. Base(m) = ledger.rows
    BY <2>3 DEF Base
  <2>5. Behind(ledger.rows, ledger.rows, cut)
    BY BehindItself
  <2>6. seen \in Nat /\ seen <= ledger.version
    BY DEF Seens, LedgerOK
  <2> QED
    BY <2>3, <2>4, <2>5, <2>6 DEF ProcessOK, LedgerOK
<1> QED
  BY <1>2, <1>3

\* The guard passes on a call that may reach what it reaches, under an alias in the ledger.
LEMMA DecidedOK ==
  ASSUME NEW p, NEW call, NEW m, NEW L, NEW C, Decided(p, call, m),
         \A h \in running : HandlerOK(h, L, C),
         IsCall(call), IsRows(m.rows), Behind(m.rows, L, C),
         call.alias # NoOne => call.subject \in DOMAIN m.rows /\ m.rows[call.subject] = call.alias
  PROVE  \A h \in running' : HandlerOK(h, L, C)
<1>1. CASE ~Granted(call, m.rows)
  <2>1. running' = running
    BY <1>1 DEF Decided
  <2> QED
    BY <2>1
<1>2. CASE Granted(call, m.rows)
  <2> DEFINE h == [at |-> p, call |-> call]
  <2>1. running' = running \cup {h}
    BY <1>2 DEF Decided
  <2>2. h.call = call
    OBVIOUS
  <2>3. Permitted(call)
    BY <1>2, GrantedIsPermitted
  <2>4. CreatedBy(call) \in AliasNames => CreatedBy(call) \in Aliases(L) \cup C
    <3>1. CreatedBy(call) \in AliasNames => CreatedBy(call) \in Aliases(m.rows)
      BY <1>2 DEF Granted, CreatedBy
    <3>2. \A a \in Aliases(m.rows) : a \in Aliases(L) \cup C
      BY DEF Behind, Aliases
    <3> QED
      BY <3>1, <3>2
  <2>5. call.alias # NoOne /\ call.subject \notin C =>
          call.subject \in DOMAIN L /\ L[call.subject] = call.alias
    BY DEF Behind
  <2>6. HandlerOK(h, L, C)
    <3> HIDE DEF h
    <3> QED
      BY <2>2, <2>3, <2>4, <2>5 DEF HandlerOK
  <2> QED
    BY <2>1, <2>6
<1> QED
  BY <1>1, <1>2

\* A step of one process, under a ledger nobody writes.
LEMMA OneProcess ==
  ASSUME AccessInv, NEW p \in Servers, NEW m, server' = [server EXCEPT ![p] = m],
         UNCHANGED <<ledger, cut, told, occupied>>, ProcessOK(m, ledger, cut),
         m.guard.st = "minted" => holder' = p,
         \A q \in Servers \ {p} : server[q].guard.st = "minted" => holder' = q,
         \A h \in running' : HandlerOK(h, ledger.rows, cut)
  PROVE  AccessInv'
<1>1. server' = [q \in Servers |-> IF q = p THEN m ELSE server[q]]
  BY DEF AccessInv
<1>2. server'[p] = m /\ \A q \in Servers \ {p} : server'[q] = server[q]
  BY <1>1
<1>3. server' = [q \in Servers |-> server'[q]]
  BY <1>1
<1>4. \A q \in Servers : ProcessOK(server'[q], ledger, cut)
  BY <1>2 DEF AccessInv
<1>5. \A q \in Servers : server'[q].guard.st = "minted" => holder' = q
  BY <1>2
<1>6. LedgerOK(ledger, cut)' /\ AnswersStand(ledger.rows, cut)'
  BY DEF AccessInv, AnswersStand
<1> QED
  BY <1>3, <1>4, <1>5, <1>6 DEF AccessInv

\* A step of no process and no ledger.
LEMMA NoProcess ==
  ASSUME AccessInv, UNCHANGED <<server, ledger, cut, holder>>,
         \A h \in running' : HandlerOK(h, ledger.rows, cut),
         AnswersStand(ledger.rows, cut)'
  PROVE  AccessInv'
BY DEF AccessInv

\* A call made, completed with the agent of the connection or under an alias, is a call.
LEMMA CallsStayCalls ==
  ASSUME NEW call, IsCall(call)
  PROVE  /\ \A agent : /\ IsCall([call EXCEPT !.agent = agent])
                       /\ [call EXCEPT !.agent = agent].alias = call.alias
         /\ \A alias \in AliasNames : /\ IsCall(Resolved(call, alias))
                                      /\ Resolved(call, alias).subject = call.subject
                                      /\ Resolved(call, alias).alias = alias
<1>1. call = [grants |-> call.grants, bounded |-> call.bounded, subject |-> call.subject, tool |-> call.tool,
              agent |-> call.agent, target |-> call.target, alias |-> call.alias]
  BY DEF IsCall
<1>2. call.grants \in Grants /\ call.tool \in AclTools /\ call.alias \in AliasNames \cup {NoOne}
  BY DEF IsCall
<1>3. ASSUME NEW agent
      PROVE  /\ IsCall([call EXCEPT !.agent = agent])
             /\ [call EXCEPT !.agent = agent].alias = call.alias
  <2>1. [call EXCEPT !.agent = agent] =
          [grants |-> call.grants, bounded |-> call.bounded, subject |-> call.subject, tool |-> call.tool,
           agent |-> agent, target |-> call.target, alias |-> call.alias]
    BY <1>1
  <2> QED
    BY <1>2, <2>1 DEF IsCall
<1>4. ASSUME NEW alias \in AliasNames
      PROVE  /\ IsCall(Resolved(call, alias))
             /\ Resolved(call, alias).subject = call.subject
             /\ Resolved(call, alias).alias = alias
  <2>1. PICK agent : agent = IF call.agent = Me THEN alias ELSE call.agent
    OBVIOUS
  <2>2. PICK target : target = IF call.target = Me THEN alias ELSE call.target
    OBVIOUS
  <2>3. Resolved(call, alias) = [call EXCEPT !.agent = agent, !.target = target, !.alias = alias]
    BY <2>1, <2>2 DEF Resolved
  <2>4. Resolved(call, alias) =
          [grants |-> call.grants, bounded |-> call.bounded, subject |-> call.subject, tool |-> call.tool,
           agent |-> agent, target |-> target, alias |-> alias]
    BY <1>1, <2>3
  <2> QED
    BY <1>2, <2>4 DEF IsCall
<1> QED
  BY <1>3, <1>4

\* A process may put a call in its guard, or clear it.
LEMMA GuardOK ==
  ASSUME NEW m, NEW led, NEW C, ProcessOK(m, led, C), m.guard.st # "minted", NEW g,
         g = Idle \/ \E call : IsCall(call) /\ g = [st |-> "miss", call |-> call]
  PROVE  /\ ProcessOK([m EXCEPT !.guard = g], led, C)
         /\ [m EXCEPT !.guard = g].guard = g /\ g.st # "minted"
<1>1. m = [up |-> m.up, rows |-> m.rows, seen |-> m.seen, guard |-> m.guard]
  BY DEF ProcessOK
<1>2. PICK n : n = [m EXCEPT !.guard = g]
  OBVIOUS
<1>3. n = [up |-> m.up, rows |-> m.rows, seen |-> m.seen, guard |-> g]
  BY <1>1, <1>2
<1>4. g.st \in {"idle", "miss"} /\ (g.st = "miss" => IsCall(g.call))
  BY DEF Idle
<1>5. Base(n) = m.rows /\ Base(m) = m.rows
  BY <1>3, <1>4 DEF Base
<1>6. n.up = m.up /\ n.rows = m.rows /\ n.seen = m.seen /\ n.guard = g
  BY <1>3
<1>7. ProcessOK(n, led, C)
  BY <1>3, <1>4, <1>5, <1>6 DEF ProcessOK
<1> QED
  BY <1>2, <1>4, <1>6, <1>7

\* A call at the guard (_acl_guard): settled from memory, refused, or left to an issuance.
LEMMA AskHolds ==
  ASSUME AccessInv, NEW p \in Servers, NEW request \in AclRequests, NEW seen \in Seens,
         AskAcl(p, request, seen)
  PROVE  AccessInv'
<1>0. PICK call : call = [request EXCEPT !.agent = Defaulted(request)]
  OBVIOUS
<1>1. PICK m : m = RefreshedLedger(server[p], seen)
  OBVIOUS
<1>2. /\ server[p].guard = Idle
      /\ IF (call.bounded /\ call.subject = NoSubject) \/ (NamesSelf(call) /\ ~call.bounded)
         THEN UNCHANGED <<server, running>>
         ELSE IF ~NamesSelf(call) THEN Decided(p, call, m)
         ELSE IF call.subject \in DOMAIN m.rows THEN Decided(p, Resolved(call, m.rows[call.subject]), m)
         ELSE /\ server' = [server EXCEPT ![p] = [m EXCEPT !.guard = [st |-> "miss", call |-> call]]]
              /\ UNCHANGED running
      /\ UNCHANGED <<ledger, holder, occupied, told, cut, ledgerEdits>>
  BY <1>0, <1>1 DEF AskAcl
<1>3. LedgerOK(ledger, cut) /\ ProcessOK(server[p], ledger, cut) /\ server[p].guard.st # "minted"
  BY <1>2 DEF AccessInv, Idle
<1>4. /\ ProcessOK(m, ledger, cut) /\ m.guard = Idle
      /\ Behind(m.rows, ledger.rows, cut) /\ IsRows(m.rows)
  <2>1. /\ ProcessOK(m, ledger, cut) /\ m.guard = server[p].guard
        /\ Behind(m.rows, ledger.rows, cut)
    BY <1>1, <1>3, RefreshedOK
  <2> QED
    BY <1>2, <2>1 DEF ProcessOK
<1>5. IsCall(call) /\ call.alias = NoOne
  <2>1. /\ request \in [grants : Grants, bounded : BOOLEAN, subject : Subjects \cup {NoSubject}, tool : AclTools,
                        agent : AgentIds \cup {Omitted, Me}, target : AgentIds \cup {Omitted, Me}, alias : {NoOne}]
    BY AccessAssumption
  <2>2. IsCall(request) /\ request.alias = NoOne
    BY <2>1 DEF IsCall
  <2> QED
    BY <1>0, <2>2, CallsStayCalls
<1>6. /\ \A q \in Servers \ {p} : server[q].guard.st = "minted" => holder' = q
      /\ \A h \in running : HandlerOK(h, ledger.rows, cut)
  BY <1>2 DEF AccessInv
<1>7. CASE UNCHANGED <<server, running>>
  <2>1. AnswersStand(ledger.rows, cut)'
    BY <1>2 DEF AccessInv, AnswersStand
  <2> QED
    BY <1>2, <1>6, <1>7, <2>1, NoProcess
<1>8. ASSUME NEW c, IsCall(c), Decided(p, c, m),
             c.alias # NoOne => c.subject \in DOMAIN m.rows /\ m.rows[c.subject] = c.alias
      PROVE  AccessInv'
  <2>1. \A h \in running' : HandlerOK(h, ledger.rows, cut)
    BY <1>4, <1>6, <1>8, DecidedOK
  <2>2. server' = [server EXCEPT ![p] = [m EXCEPT !.guard = Idle]]
    BY <1>8 DEF Decided
  <2>3. /\ ProcessOK([m EXCEPT !.guard = Idle], ledger, cut)
        /\ [m EXCEPT !.guard = Idle].guard = Idle /\ Idle.st # "minted"
    BY <1>4, GuardOK DEF Idle
  <2> QED
    BY <1>2, <1>6, <2>1, <2>2, <2>3, OneProcess
<1>9. CASE call.subject \in DOMAIN m.rows /\ Decided(p, Resolved(call, m.rows[call.subject]), m)
  <2>1. m.rows[call.subject] \in AliasNames
    BY <1>4, <1>9 DEF IsRows
  <2>2. PICK c : c = Resolved(call, m.rows[call.subject])
    OBVIOUS
  <2>3. IsCall(c) /\ c.subject = call.subject /\ c.alias = m.rows[call.subject]
    BY <1>5, <2>1, <2>2, CallsStayCalls
  <2> QED
    BY <1>8, <1>9, <2>2, <2>3
<1>10. CASE /\ server' = [server EXCEPT ![p] = [m EXCEPT !.guard = [st |-> "miss", call |-> call]]]
            /\ UNCHANGED running
  <2>1. PICK g : g = [st |-> "miss", call |-> call]
    OBVIOUS
  <2>2. /\ ProcessOK([m EXCEPT !.guard = g], ledger, cut)
        /\ [m EXCEPT !.guard = g].guard = g /\ g.st # "minted"
    BY <1>4, <1>5, <2>1, GuardOK DEF Idle
  <2> QED
    BY <1>2, <1>6, <1>10, <2>1, <2>2, OneProcess
<1> QED
  BY <1>2, <1>5, <1>7, <1>8, <1>9, <1>10

\* Rows with a fresh alias for a fresh subject.
LEMMA FreshRow ==
  ASSUME NEW R, IsRows(R), NEW C, Unique(R, C), NEW s, s \notin DOMAIN R,
         NEW alias \in AliasNames, alias \notin Aliases(R)
  PROVE  /\ IsRows(With(R, s, alias)) /\ Unique(With(R, s, alias), C)
         /\ s \in DOMAIN With(R, s, alias) /\ With(R, s, alias)[s] = alias
         /\ Restrict(With(R, s, alias), DOMAIN With(R, s, alias) \ {s}) = R
<1>1. PICK M : M = With(R, s, alias)
  OBVIOUS
<1>2. M = [x \in DOMAIN R \cup {s} |-> IF x = s THEN alias ELSE R[x]]
  BY <1>1 DEF With
<1>3. /\ DOMAIN M = DOMAIN R \cup {s} /\ M[s] = alias
      /\ \A x \in DOMAIN R : M[x] = R[x]
      /\ M = [x \in DOMAIN M |-> M[x]]
  BY <1>2
<1>4. IsRows(M)
  BY <1>3 DEF IsRows
<1>5. Unique(M, C)
  BY <1>3 DEF Unique, Aliases
<1>6. Restrict(M, DOMAIN M \ {s}) = R
  <2>1. DOMAIN M \ {s} = DOMAIN R
    BY <1>3
  <2>2. R = [x \in DOMAIN R |-> R[x]]
    BY DEF IsRows
  <2>3. [x \in DOMAIN R |-> M[x]] = R
    BY <1>3, <2>2
  <2> QED
    BY <2>1, <2>3 DEF Restrict
<1> QED
  BY <1>1, <1>3, <1>4, <1>5, <1>6

\* An issuance under the lock file (issue): the strict re-read, and an alias nobody holds.
LEMMA LockHolds ==
  ASSUME AccessInv, NEW p \in Servers, NEW alias \in AliasNames, NEW seen \in Seens, Lock(p, alias, seen)
  PROVE  AccessInv'
<1>1. PICK m : m = RefreshedLedger(server[p], seen)
  OBVIOUS
<1>2. PICK call : call = server[p].guard.call
  OBVIOUS
<1>3. /\ server[p].guard.st = "miss" /\ holder = NoOne
      /\ IF ~ledger.parses
         THEN /\ server' = [server EXCEPT ![p].guard = Idle]
              /\ UNCHANGED <<running, holder>>
         ELSE IF call.subject \in DOMAIN m.rows
         THEN Decided(p, Resolved(call, m.rows[call.subject]), m) /\ UNCHANGED holder
         ELSE /\ alias \notin Aliases(m.rows)
              /\ server' = [server EXCEPT ![p] =
                   [m EXCEPT !.rows = With(m.rows, call.subject, alias),
                             !.guard = [st |-> "minted", call |-> Resolved(call, alias)]]]
              /\ holder' = p
              /\ UNCHANGED running
      /\ UNCHANGED <<ledger, occupied, told, cut, made, ledgerEdits>>
  BY <1>1, <1>2 DEF Lock, Reread
<1>4. /\ LedgerOK(ledger, cut) /\ ProcessOK(server[p], ledger, cut) /\ server[p].guard.st # "minted"
      /\ IsCall(call)
  BY <1>2, <1>3 DEF AccessInv, ProcessOK
<1>5. /\ ProcessOK(m, ledger, cut) /\ m.guard = server[p].guard
      /\ ledger.parses => m.rows = ledger.rows
      /\ Base(m) = m.rows /\ Behind(m.rows, ledger.rows, cut)
  BY <1>1, <1>4, RefreshedOK
<1>6. m = [up |-> m.up, rows |-> m.rows, seen |-> m.seen, guard |-> m.guard] /\ IsRows(m.rows)
  BY <1>5 DEF ProcessOK
<1>7. /\ \A q \in Servers : server[q].guard.st # "minted"
      /\ \A h \in running : HandlerOK(h, ledger.rows, cut)
  BY <1>3, AccessAssumption DEF AccessInv
<1>8. CASE ~ledger.parses
  <2>1. server' = [server EXCEPT ![p] = [server[p] EXCEPT !.guard = Idle]]
    BY <1>3, <1>8
  <2>2. /\ ProcessOK([server[p] EXCEPT !.guard = Idle], ledger, cut)
        /\ [server[p] EXCEPT !.guard = Idle].guard = Idle /\ Idle.st # "minted"
    BY <1>4, GuardOK DEF Idle
  <2> QED
    BY <1>3, <1>7, <1>8, <2>1, <2>2, OneProcess
<1>9. CASE ledger.parses /\ call.subject \in DOMAIN m.rows
  <2>1. PICK c : c = Resolved(call, m.rows[call.subject])
    OBVIOUS
  <2>2. m.rows[call.subject] \in AliasNames
    BY <1>6, <1>9 DEF IsRows
  <2>3. IsCall(c) /\ c.subject = call.subject /\ c.alias = m.rows[call.subject]
    BY <1>4, <2>1, <2>2, CallsStayCalls
  <2>4. Decided(p, c, m) /\ UNCHANGED holder
    BY <1>3, <1>9, <2>1
  <2>5. \A h \in running' : HandlerOK(h, ledger.rows, cut)
    BY <1>5, <1>6, <1>7, <1>9, <2>3, <2>4, DecidedOK
  <2>6. server' = [server EXCEPT ![p] = [m EXCEPT !.guard = Idle]]
    BY <2>4 DEF Decided
  <2>7. m.guard.st # "minted"
    BY <1>4, <1>5
  <2>8. /\ ProcessOK([m EXCEPT !.guard = Idle], ledger, cut)
        /\ [m EXCEPT !.guard = Idle].guard = Idle /\ Idle.st # "minted"
    BY <1>5, <2>7, GuardOK DEF Idle
  <2> QED
    BY <1>3, <1>7, <2>5, <2>6, <2>8, OneProcess
<1>10. CASE ledger.parses /\ call.subject \notin DOMAIN m.rows
  <2>1. PICK c : c = Resolved(call, alias)
    OBVIOUS
  <2>2. PICK rows : rows = With(m.rows, call.subject, alias)
    OBVIOUS
  <2>3. PICK n : n = [m EXCEPT !.rows = rows, !.guard = [st |-> "minted", call |-> c]]
    OBVIOUS
  <2>4. /\ server' = [server EXCEPT ![p] = n] /\ holder' = p
        /\ alias \notin Aliases(m.rows) /\ UNCHANGED running
    BY <1>3, <1>10, <2>1, <2>2, <2>3
  <2>5. IsCall(c) /\ c.subject = call.subject /\ c.alias = alias
    BY <1>4, <2>1, CallsStayCalls
  <2>6. n = [up |-> m.up, rows |-> rows, seen |-> m.seen, guard |-> [st |-> "minted", call |-> c]]
    BY <1>6, <2>3
  <2>7. /\ n.rows = rows /\ n.seen = m.seen /\ n.guard.st = "minted" /\ n.guard.call = c
        /\ n = [up |-> n.up, rows |-> n.rows, seen |-> n.seen, guard |-> n.guard]
    BY <2>6
  <2>8. m.rows = ledger.rows /\ Unique(m.rows, cut)
    BY <1>4, <1>5, <1>10 DEF LedgerOK
  <2>9. /\ IsRows(rows) /\ Unique(rows, cut)
        /\ c.subject \in DOMAIN rows /\ rows[c.subject] = c.alias
        /\ Restrict(rows, DOMAIN rows \ {c.subject}) = m.rows
    BY <1>6, <1>10, <2>2, <2>4, <2>5, <2>8, FreshRow
  <2>10. Base(n) = ledger.rows
    BY <2>7, <2>8, <2>9 DEF Base
  <2>11. Behind(ledger.rows, ledger.rows, cut)
    BY BehindItself
  <2>12. Issuing(n, ledger.rows, cut)
    BY <2>5, <2>7, <2>9, <2>10, <2>11 DEF Issuing
  <2>13. ProcessOK(n, ledger, cut)
    BY <1>5, <2>7, <2>9, <2>10, <2>11, <2>12 DEF ProcessOK
  <2> QED
    BY <1>3, <1>7, <2>4, <2>13, OneProcess
<1> QED
  BY <1>8, <1>9, <1>10

\* The rename: the ledger becomes what the process holds, edits made meanwhile undone.
LEMMA PersistHolds ==
  ASSUME AccessInv, NEW p \in Servers, Persist(p)
  PROVE  AccessInv'
<1>1. PICK o : o = server[p]
  OBVIOUS
<1>2. PICK m : m = [o EXCEPT !.seen = ledger.version + 1]
  OBVIOUS
<1>3. /\ o.guard.st = "minted"
      /\ ledger' = [rows |-> m.rows, version |-> ledger.version + 1, parses |-> TRUE]
      /\ Decided(p, o.guard.call, m)
      /\ holder' = NoOne
      /\ UNCHANGED <<occupied, told, cut, made, ledgerEdits>>
  BY <1>1, <1>2 DEF Persist
<1>4. LedgerOK(ledger, cut) /\ ProcessOK(o, ledger, cut)
  BY <1>1 DEF AccessInv
<1>5. /\ o = [up |-> o.up, rows |-> o.rows, seen |-> o.seen, guard |-> o.guard]
      /\ IsRows(o.rows) /\ Behind(Base(o), ledger.rows, cut) /\ Issuing(o, ledger.rows, cut)
  BY <1>3, <1>4 DEF ProcessOK
<1>6. m = [up |-> o.up, rows |-> o.rows, seen |-> ledger.version + 1, guard |-> o.guard]
  BY <1>2, <1>5
<1>7. /\ ledger'.rows = o.rows /\ ledger'.version = ledger.version + 1 /\ cut' = cut
      /\ ledger' = [rows |-> ledger'.rows, version |-> ledger'.version, parses |-> ledger'.parses]
      /\ ledger.version \in Nat /\ ledger'.version \in Nat /\ ledger'.version > ledger.version
      /\ ledger'.version # 0
  <2>1. ledger.version \in Nat
    BY <1>4 DEF LedgerOK
  <2> QED
    BY <1>3, <1>6, <2>1
<1>8. Behind(ledger.rows, o.rows, cut)
  <2>1. Behind(ledger.rows, Base(o), cut)
    BY <1>5 DEF Issuing
  <2>2. Base(o) = Restrict(o.rows, DOMAIN o.rows \ {o.guard.call.subject})
    BY <1>3 DEF Base
  <2>3. Behind(Base(o), o.rows, cut)
    BY <2>2 DEF Restrict, Behind, Aliases
  <2> QED
    BY <2>1, <2>3, BehindChain
<1>9. LedgerOK(ledger', cut')
  BY <1>5, <1>7 DEF LedgerOK, Issuing
<1>10. PICK n : n = [m EXCEPT !.guard = Idle]
  OBVIOUS
<1>11. n = [up |-> o.up, rows |-> o.rows, seen |-> ledger.version + 1, guard |-> Idle]
  BY <1>6, <1>10
<1>12. ProcessOK(n, ledger', cut')
  <2>1. /\ n.rows = o.rows /\ n.seen = ledger'.version /\ n.guard = Idle
        /\ n = [up |-> n.up, rows |-> n.rows, seen |-> n.seen, guard |-> n.guard]
        /\ Idle.st = "idle"
    BY <1>7, <1>11 DEF Idle
  <2>2. Base(n) = ledger'.rows
    BY <1>7, <2>1 DEF Base
  <2>3. Behind(ledger'.rows, ledger'.rows, cut')
    BY BehindItself
  <2>4. ledger'.version <= ledger'.version
    BY <1>7
  <2>5. n.seen \in Nat /\ n.seen <= ledger'.version /\ n.guard.st = "idle"
    BY <1>7, <2>1, <2>4
  <2> QED
    BY <1>5, <2>1, <2>2, <2>3, <2>5 DEF ProcessOK
<1>13. server' = [q \in Servers |-> IF q = p THEN n ELSE server[q]]
  <2>1. server' = [server EXCEPT ![p] = n]
    BY <1>3, <1>10 DEF Decided
  <2> QED
    BY <2>1 DEF AccessInv
<1>14. server'[p] = n /\ \A q \in Servers \ {p} : server'[q] = server[q]
  BY <1>13
<1>15. server' = [q \in Servers |-> server'[q]]
  BY <1>13
<1>16. \A q \in Servers \ {p} : server[q].guard.st # "minted"
  BY <1>1, <1>3 DEF AccessInv
<1>17. ASSUME NEW q \in Servers \ {p} PROVE ProcessOK(server'[q], ledger', cut')
  <2>1. ProcessOK(server[q], ledger, cut) /\ server'[q] = server[q]
    BY <1>14 DEF AccessInv
  <2> QED
    BY <1>7, <1>8, <1>16, <2>1, ProcessKept
<1>18. \A h \in running : HandlerOK(h, o.rows, cut)
  BY <1>8, HandlerKept DEF AccessInv
<1>19. \A h \in running' : HandlerOK(h, o.rows, cut)
  <2>1. PICK c : c = o.guard.call
    OBVIOUS
  <2>2. /\ Decided(p, c, m) /\ IsCall(c) /\ m.rows = o.rows
        /\ c.subject \in DOMAIN m.rows /\ m.rows[c.subject] = c.alias
    BY <1>3, <1>5, <1>6, <2>1 DEF Issuing
  <2>3. Behind(m.rows, o.rows, cut) /\ IsRows(m.rows)
    BY <1>5, <2>2, BehindItself
  <2> QED
    BY <1>18, <2>2, <2>3, DecidedOK
<1>20. AnswersStand(ledger.rows, cut)'
  <2>1. AnswersStand(o.rows, cut)
    BY <1>8, RememberedKept DEF AccessInv
  <2> QED
    BY <1>3, <1>7, <2>1 DEF AnswersStand
<1>21. \A q \in Servers : server'[q].guard.st # "minted"
  BY <1>11, <1>14, <1>16 DEF Idle
<1> QED
  BY <1>7, <1>9, <1>12, <1>14, <1>15, <1>17, <1>19, <1>20, <1>21 DEF AccessInv

\* A write that fails: the process is back where it was before the issuance.
LEMMA PersistFailsHolds ==
  ASSUME AccessInv, NEW p \in Servers, PersistFails(p)
  PROVE  AccessInv'
<1>1. PICK o : o = server[p]
  OBVIOUS
<1>2. PICK rows : rows = Restrict(o.rows, DOMAIN o.rows \ {o.guard.call.subject})
  OBVIOUS
<1>3. PICK n : n = [up |-> o.up, rows |-> rows, seen |-> o.seen, guard |-> Idle]
  OBVIOUS
<1>4. /\ ProcessOK(o, ledger, cut) /\ o.guard.st = "minted"
      /\ o = [up |-> o.up, rows |-> o.rows, seen |-> o.seen, guard |-> o.guard]
      /\ p \in DOMAIN server
  BY <1>1 DEF AccessInv, ProcessOK, PersistFails
<1>5. server' = [server EXCEPT ![p] = n]
  <2>1. server' = [server EXCEPT ![p].rows = Restrict(server[p].rows, DOMAIN server[p].rows \ {server[p].guard.call.subject}),
                                 ![p].guard = Idle]
    BY DEF PersistFails
  <2>2. server' = [server EXCEPT ![p].rows = rows, ![p].guard = Idle]
    BY <1>1, <1>2, <2>1
  <2>3. PICK y : y = [o EXCEPT !.rows = rows]
    OBVIOUS
  <2>4. PICK d : d = [server EXCEPT ![p].rows = rows]
    OBVIOUS
  <2>5. d = [server EXCEPT ![p] = y]
    BY <1>1, <2>3, <2>4
  <2>6. d[p] = y
    BY <1>4, <2>5
  <2>7. server' = [d EXCEPT ![p].guard = Idle]
    BY <2>2, <2>4
  <2>8. server' = [d EXCEPT ![p] = [y EXCEPT !.guard = Idle]]
    BY <2>6, <2>7
  <2>9. [y EXCEPT !.guard = Idle] = n
    <3>1. o = [up |-> o.up, rows |-> o.rows, seen |-> o.seen, guard |-> o.guard]
      BY <1>4
    <3>2. y = [up |-> o.up, rows |-> rows, seen |-> o.seen, guard |-> o.guard]
      BY <2>3, <3>1
    <3> QED
      BY <1>3, <3>2
  <2>10. server' = [d EXCEPT ![p] = n]
    BY <2>8, <2>9
  <2> QED
    BY <2>5, <2>10
<1>6. rows = Base(o) /\ IsRows(rows)
  BY <1>2, <1>4 DEF Base, ProcessOK, IsRows, Restrict
<1>7. ProcessOK(n, ledger, cut)
  <2>1. Base(n) = rows /\ n.rows = rows /\ n.seen = o.seen /\ n.guard = Idle /\ Idle.st = "idle"
    BY <1>3 DEF Base, Idle
  <2>2. n = [up |-> n.up, rows |-> n.rows, seen |-> n.seen, guard |-> n.guard]
    BY <1>3
  <2> QED
    BY <1>4, <1>6, <2>1, <2>2 DEF ProcessOK
<1>8. /\ holder' = NoOne /\ UNCHANGED <<ledger, running, occupied, told, cut>>
      /\ \A q \in Servers \ {p} : server[q].guard.st # "minted"
      /\ \A h \in running : HandlerOK(h, ledger.rows, cut)
  BY <1>1, <1>4 DEF PersistFails, AccessInv
<1>9. n.guard.st # "minted"
  BY <1>3 DEF Idle
<1> QED
  BY <1>5, <1>7, <1>8, <1>9, OneProcess

\* A handler writes what it was let through for, and its answer names the alias.
LEMMA HandleHolds ==
  ASSUME AccessInv, NEW h \in running, Handle(h)
  PROVE  AccessInv'
<1>1. HandlerOK(h, ledger.rows, cut) /\ AnswersStand(ledger.rows, cut)
  BY DEF AccessInv
<1>2. /\ occupied' = occupied \cup ({CreatedBy(h.call)} \ {Omitted})
      /\ told' = told \cup (IF h.call.alias = NoOne THEN {} ELSE {<<h.call.subject, h.call.alias>>})
      /\ running' = running \ {h}
      /\ UNCHANGED <<ledger, server, holder, cut>>
  BY DEF Handle, CreatedBy
<1>3. ASSUME NEW x \in told', x[1] \notin cut
      PROVE  x[1] \in DOMAIN ledger.rows /\ ledger.rows[x[1]] = x[2]
  <2>1. CASE x \in told
    BY <1>1, <1>3, <2>1 DEF AnswersStand
  <2>2. CASE x \notin told
    <3>1. h.call.alias # NoOne /\ x = <<h.call.subject, h.call.alias>>
      BY <1>2, <2>2
    <3> QED
      BY <1>1, <1>3, <3>1 DEF HandlerOK
  <2> QED
    BY <2>1, <2>2
<1>4. \A a \in occupied' \cap AliasNames : a \in Aliases(ledger.rows) \cup cut
  BY <1>1, <1>2 DEF AnswersStand, HandlerOK
<1>5. AnswersStand(ledger.rows, cut)'
  BY <1>2, <1>3, <1>4 DEF AnswersStand
<1>6. \A g \in running' : HandlerOK(g, ledger.rows, cut)
  BY <1>2 DEF AccessInv
<1> QED
  BY <1>2, <1>5, <1>6, NoProcess

\* A process that stops forgets everything.
LEMMA DownOK ==
  ASSUME LedgerOK(ledger, cut)
  PROVE  ProcessOK(Down, ledger, cut) /\ Down.guard.st = "idle"
<1>1. /\ Down.rows = NoRows /\ Down.seen = 0 /\ Down.guard.st = "idle"
      /\ Down = [up |-> Down.up, rows |-> Down.rows, seen |-> Down.seen, guard |-> Down.guard]
  BY DEF Down, Idle
<1>2. Base(Down) = NoRows
  BY <1>1 DEF Base
<1>3. DOMAIN NoRows = {}
  BY DEF NoRows
<1>4. IsRows(NoRows) /\ Behind(NoRows, ledger.rows, cut)
  BY <1>3 DEF NoRows, IsRows, Behind
<1>5. ledger.version \in Nat /\ (ledger.version = 0 => ledger.rows = NoRows)
  BY DEF LedgerOK
<1>6. 0 <= ledger.version /\ 0 \in Nat
  BY <1>5
<1> QED
  BY <1>1, <1>2, <1>4, <1>5, <1>6 DEF ProcessOK

\* A crash lets go of the lock and of the handlers of that process.
LEMMA StopHolds ==
  ASSUME AccessInv, NEW p \in Servers, Stop(p)
  PROVE  AccessInv'
<1>1. /\ server' = [server EXCEPT ![p] = Down]
      /\ holder' = IF holder = p THEN NoOne ELSE holder
      /\ running' \subseteq running
      /\ UNCHANGED <<ledger, occupied, told, cut>>
  BY DEF Stop
<1>2. ProcessOK(Down, ledger, cut) /\ Down.guard.st # "minted"
  BY DownOK DEF AccessInv
<1>3. /\ \A q \in Servers \ {p} : server[q].guard.st = "minted" => holder' = q
      /\ \A h \in running' : HandlerOK(h, ledger.rows, cut)
  BY <1>1 DEF AccessInv
<1> QED
  BY <1>1, <1>2, <1>3, OneProcess

\* A start reads a ledger that parses.
LEMMA StartHolds ==
  ASSUME AccessInv, NEW p \in Servers, NEW seen \in Seens, Start(p, seen)
  PROVE  AccessInv'
<1>1. PICK n : n = [Down EXCEPT !.up = TRUE, !.rows = ledger.rows, !.seen = seen]
  OBVIOUS
<1>2. n = [up |-> n.up, rows |-> ledger.rows, seen |-> seen, guard |-> Idle]
  BY <1>1 DEF Down
<1>3. server' = [server EXCEPT ![p] = n] /\ UNCHANGED <<ledger, holder, running, occupied, told, cut>>
  BY <1>1 DEF Start
<1>4. LedgerOK(ledger, cut)
  BY DEF AccessInv
<1>5. /\ n = [up |-> n.up, rows |-> n.rows, seen |-> n.seen, guard |-> n.guard]
      /\ n.rows = ledger.rows /\ n.seen = seen /\ n.guard.st = "idle"
      /\ Base(n) = ledger.rows
  BY <1>2 DEF Idle, Base
<1>6. Behind(ledger.rows, ledger.rows, cut) /\ seen \in Nat /\ seen <= ledger.version
  BY <1>4, BehindItself DEF Seens, LedgerOK
<1>7. ProcessOK(n, ledger, cut)
  BY <1>4, <1>5, <1>6 DEF ProcessOK, LedgerOK
<1>8. /\ \A q \in Servers \ {p} : server[q].guard.st = "minted" => holder' = q
      /\ \A h \in running' : HandlerOK(h, ledger.rows, cut)
  BY <1>3 DEF AccessInv
<1> QED
  BY <1>3, <1>5, <1>7, <1>8, OneProcess

\* A write of the file by somebody else, under which no alias is lost that was not edited.
LEMMA WrittenOutside ==
  ASSUME AccessInv, LedgerOK(ledger, cut)', cut \subseteq cut',
         UNCHANGED <<server, holder, running, occupied, told>>,
         ledger'.version = ledger.version + 1,
         Behind(ledger.rows, ledger'.rows, cut'), Behind(ledger'.rows, ledger.rows, cut')
  PROVE  AccessInv'
<1>1. ledger.version \in Nat /\ ledger'.version \in Nat /\ ledger'.version > ledger.version
  BY DEF AccessInv, LedgerOK
<1>2. ASSUME NEW p \in Servers PROVE ProcessOK(server[p], ledger', cut')
  <2>1. ProcessOK(server[p], ledger, cut)
    BY DEF AccessInv
  <2> QED
    BY <1>1, <2>1, ProcessKept
<1>3. \A h \in running : HandlerOK(h, ledger'.rows, cut')
  BY HandlerKept DEF AccessInv
<1>4. AnswersStand(ledger.rows, cut)'
  <2>1. AnswersStand(ledger'.rows, cut')
    BY RememberedKept DEF AccessInv
  <2> QED
    BY <2>1 DEF AnswersStand
<1> QED
  BY <1>2, <1>3, <1>4 DEF AccessInv

\* The operator edits the ledger, tears it or mends it.
LEMMA OperatorHolds ==
  ASSUME AccessInv,
         (\E s \in Subjects : Unlink(s)) \/ (\E s, t \in Subjects : Link(s, t)) \/ Tear \/ Mend
  PROVE  AccessInv'
<1>1. LedgerOK(ledger, cut)
  BY DEF AccessInv
<1>2. /\ ledger = [rows |-> ledger.rows, version |-> ledger.version, parses |-> ledger.parses]
      /\ ledger.version \in Nat /\ ledger.version + 1 \in Nat /\ ledger.version + 1 # 0
  <2>1. ledger.version \in Nat
    BY <1>1 DEF LedgerOK
  <2> QED
    BY <1>1, <2>1 DEF LedgerOK
<1>3. ASSUME NEW s, NEW rows, Edit(rows, s),
             \/ s \in DOMAIN ledger.rows /\ rows = Restrict(ledger.rows, DOMAIN ledger.rows \ {s})
             \/ \E t \in DOMAIN ledger.rows : rows = With(ledger.rows, s, ledger.rows[t])
      PROVE  AccessInv'
  <2>1. /\ ledger' = [ledger EXCEPT !.rows = rows, !.version = ledger.version + 1]
        /\ cut' = cut \cup {s} \cup {ledger.rows[x] : x \in DOMAIN ledger.rows \cap {s}}
        /\ UNCHANGED <<server, holder, running, occupied, told>>
    BY <1>3 DEF Edit
  <2>2. ledger' = [rows |-> rows, version |-> ledger.version + 1, parses |-> ledger.parses]
    BY <1>2, <2>1
  <2>3. /\ IsRows(rows) /\ Unique(rows, cut')
        /\ Behind(ledger.rows, rows, cut') /\ Behind(rows, ledger.rows, cut')
    BY <1>1, <1>3, <2>1, EditedRows DEF LedgerOK
  <2>4. /\ ledger'.rows = rows /\ ledger'.version = ledger.version + 1
        /\ ledger' = [rows |-> ledger'.rows, version |-> ledger'.version, parses |-> ledger'.parses]
    BY <2>2
  <2>5. LedgerOK(ledger, cut)'
    BY <1>2, <2>3, <2>4 DEF LedgerOK
  <2>6. cut \subseteq cut'
    BY <2>1
  <2> QED
    BY <2>1, <2>3, <2>4, <2>5, <2>6, WrittenOutside
<1>4. ASSUME Tear \/ Mend PROVE AccessInv'
  <2>1. PICK parses \in BOOLEAN : ledger' = [ledger EXCEPT !.parses = parses, !.version = ledger.version + 1]
    <3>1. CASE Tear
      <4>1. ledger' = [ledger EXCEPT !.parses = FALSE, !.version = ledger.version + 1]
        BY <3>1 DEF Tear
      <4> QED
        BY <4>1, Zenon
    <3>2. CASE Mend
      <4>1. ledger' = [ledger EXCEPT !.parses = TRUE, !.version = ledger.version + 1]
        BY <3>2 DEF Mend
      <4> QED
        BY <4>1, Zenon
    <3> QED
      BY <1>4, <3>1, <3>2, Zenon
  <2>2. UNCHANGED <<server, holder, running, occupied, told, cut>>
    BY <1>4 DEF Tear, Mend
  <2>3. ledger' = [rows |-> ledger.rows, version |-> ledger.version + 1, parses |-> parses]
    BY <1>2, <2>1
  <2>4. /\ ledger'.rows = ledger.rows /\ ledger'.version = ledger.version + 1
        /\ ledger' = [rows |-> ledger'.rows, version |-> ledger'.version, parses |-> ledger'.parses]
    BY <2>3
  <2>5. LedgerOK(ledger, cut)'
    BY <1>1, <1>2, <2>2, <2>4 DEF LedgerOK
  <2>6. Behind(ledger.rows, ledger'.rows, cut') /\ Behind(ledger'.rows, ledger.rows, cut')
    BY <2>4, BehindItself
  <2>7. cut \subseteq cut'
    BY <2>2
  <2> QED
    BY <2>2, <2>4, <2>5, <2>6, <2>7, WrittenOutside
<1>5. ASSUME NEW s \in Subjects, Unlink(s) PROVE AccessInv'
  BY <1>3, <1>5 DEF Unlink
<1>6. ASSUME NEW s \in Subjects, NEW t \in Subjects, Link(s, t) PROVE AccessInv'
  BY <1>3, <1>6 DEF Link
<1> QED
  BY <1>4, <1>5, <1>6

\* It holds at the start,
LEMMA AccessStarts == AccessInit => AccessInv
<1> SUFFICES ASSUME AccessInit PROVE AccessInv
  OBVIOUS
<1>1. DOMAIN NoRows = {} /\ IsRows(NoRows)
  BY DEF NoRows, IsRows
<1>2. /\ ledger = [rows |-> ledger.rows, version |-> ledger.version, parses |-> ledger.parses]
      /\ ledger.rows = NoRows /\ ledger.version = 0
  BY DEF AccessInit
<1>3. LedgerOK(ledger, cut)
  BY <1>1, <1>2 DEF LedgerOK, Unique
<1>4. PICK n : n = [Down EXCEPT !.up = TRUE]
  OBVIOUS
<1>5. server = [p \in Servers |-> n]
  BY <1>4 DEF AccessInit
<1>6. server = [p \in Servers |-> server[p]] /\ \A p \in Servers : server[p] = n
  BY <1>5
<1>7. /\ n = [up |-> n.up, rows |-> n.rows, seen |-> n.seen, guard |-> n.guard]
      /\ n.rows = NoRows /\ n.seen = 0 /\ n.guard.st = "idle" /\ Base(n) = NoRows
  <2>1. n = [up |-> n.up, rows |-> NoRows, seen |-> 0, guard |-> Idle]
    BY <1>4 DEF Down
  <2> QED
    BY <2>1 DEF Idle, Base
<1>8. Behind(NoRows, ledger.rows, cut)
  BY <1>1 DEF Behind
<1>9. ProcessOK(n, ledger, cut)
  BY <1>1, <1>2, <1>7, <1>8 DEF ProcessOK
<1>10. AnswersStand(ledger.rows, cut)
  BY AccessAssumption DEF AccessInit, AnswersStand
<1> QED
  BY <1>3, <1>6, <1>7, <1>9, <1>10 DEF AccessInv, AccessInit

\* every step keeps it,
LEMMA AccessStepHolds == AccessInv /\ [AccessNext]_accessVars => AccessInv'
<1> SUFFICES ASSUME AccessInv, [AccessNext]_accessVars PROVE AccessInv'
  OBVIOUS
<1>1. ASSUME NEW p \in Servers, NEW request \in AclRequests, NEW seen \in Seens, AskAcl(p, request, seen)
      PROVE  AccessInv'
  BY <1>1, AskHolds
<1>2. ASSUME NEW p \in Servers, NEW alias \in AliasNames, NEW seen \in Seens, Lock(p, alias, seen)
      PROVE  AccessInv'
  BY <1>2, LockHolds
<1>3. ASSUME NEW p \in Servers, Persist(p) PROVE AccessInv'
  BY <1>3, PersistHolds
<1>4. ASSUME NEW p \in Servers, PersistFails(p) PROVE AccessInv'
  BY <1>4, PersistFailsHolds
<1>5. ASSUME NEW p \in Servers, Stop(p) PROVE AccessInv'
  BY <1>5, StopHolds
<1>6. ASSUME NEW p \in Servers, NEW seen \in Seens, Start(p, seen) PROVE AccessInv'
  BY <1>6, StartHolds
<1>7. ASSUME NEW h \in running, Handle(h) PROVE AccessInv'
  BY <1>7, HandleHolds
<1>8. CASE (\E s \in Subjects : Unlink(s)) \/ (\E s, t \in Subjects : Link(s, t)) \/ Tear \/ Mend
  BY <1>8, OperatorHolds
<1>9. CASE UNCHANGED accessVars
  <2>1. UNCHANGED <<ledger, server, holder, running, occupied, told, cut>>
    BY <1>9 DEF accessVars
  <2>2. AnswersStand(ledger.rows, cut)'
    BY <2>1 DEF AccessInv, AnswersStand
  <2> QED
    BY <2>1, <2>2 DEF AccessInv
<1> QED
  BY <1>1, <1>2, <1>3, <1>4, <1>5, <1>6, <1>7, <1>8, <1>9 DEF AccessNext

\* and under it no two answered subjects meet and no call reaches too far.
LEMMA AccessInvHolds == AccessInv => SpacesStayApart
<1> SUFFICES ASSUME AccessInv PROVE SpacesStayApart
  OBVIOUS
<1>1. AnswersStand(ledger.rows, cut) /\ Unique(ledger.rows, cut)
  BY DEF AccessInv, LedgerOK
<1>2. ASSUME NEW x \in told, x[1] \notin cut
      PROVE  /\ x[1] \in DOMAIN ledger.rows
             /\ ledger.rows[x[1]] = x[2]
             /\ \A y \in told : y[2] = x[2] /\ y[1] \notin cut => y[1] = x[1]
  BY <1>1, <1>2 DEF AnswersStand, Unique
<1>3. (occupied \cap AliasNames) \ cut \subseteq Aliases(ledger.rows)
  BY <1>1 DEF AnswersStand
<1>4. ReachIsGranted
  BY DEF AccessInv, HandlerOK, Permitted, ReachIsGranted
<1> QED
  BY <1>2, <1>3, <1>4 DEF SpacesStayApart, AliasesHold

\* However server processes, their crashes, failed writes and the operator's edits
\* interleave (acl.py, aliases.py), an answered alias stays its subject's alone, the next
\* start accepts the store, and no call reaches an agent its grants do not cover: for any
\* servers, subjects, aliases, agents and requests.
THEOREM SpacesKeptApart == AccessSpec => []SpacesStayApart
<1>1. AccessInit => AccessInv
  BY AccessStarts
<1>2. AccessInv /\ [AccessNext]_accessVars => AccessInv'
  BY AccessStepHolds
<1>3. AccessInv => SpacesStayApart
  BY AccessInvHolds
<1> QED
  BY <1>1, <1>2, <1>3, PTL DEF AccessSpec

----------------------------------------------------------------------------
(* Gate calibration: process memories and the sidecar they share.          *)

Measured == {"thr", "gate"}
Precisions == Betas \cup {DefaultBeta, None_}
Thresholds == [by : CalServers, epoch : Nat] \cup {None_}
Gates == [at : Precisions, by : CalServers, epoch : Nat] \cup {None_}
Sidecars == [kind : {"absent", "good", "stale", "unreadable"}, thr : [Targets -> Thresholds],
             gate : [Targets -> Gates], beta : [Targets -> Precisions]]
Memories == [thr : [Targets -> Thresholds], gate : [Targets -> Gates], beta : [Targets -> Precisions],
             own : [Axes -> SUBSET Targets], pend : [Axes -> SUBSET Targets],
             purges : [CalAgents -> Nat], guarded : BOOLEAN]
Underway == [at : {"apply", "save"}, p : CalServers, a : Targets, ov : Betas \cup {None_, Current_},
             beta : Precisions, epoch : Nat, purges : Nat]

CalibrationTypes ==
  /\ side \in Sidecars
  /\ mem \in [CalServers -> Memories]
  /\ inFlight \in [Calls_ -> Underway \cup {AtEase}]
  /\ epoch \in [CalAgents -> Nat]

\* A process holds only entries it owns, and is to write only those.
Owned(m) ==
  \A x \in Axes : /\ m.pend[x] \subseteq m.own[x]
                  /\ \A s \in Targets : m[x][s] # None_ => s \in m.own[x]

\* What process p may hold beside a sidecar f: nothing measured before its last purge,
\* nor is there any in f that it is not to rewrite; and what another process measured it
\* holds as f had it.
Lawful(p, m, f) ==
  \A a \in CalAgents, x \in Measured :
    /\ ~Old(m[x][a], p, m.purges[a])
    /\ Old(f[x][a], p, m.purges[a]) => a \in m.pend[x]
    /\ m[x][a] # None_ /\ m[x][a].by # p => a \notin m.pend[x] /\ f.kind = "good"

\* Each purge counted, and each to come, began a corpus.
PurgesCounted(w, e) ==
  \A p \in CalServers, a \in CalAgents :
    /\ mem[p].purges[a] <= e[a]
    /\ <<p, a>> \in w => mem[p].purges[a] + 1 <= e[a]

\* What a call measures belongs to a corpus its process had not purged when it began.
CallsStamped ==
  \A c \in Calls_ : inFlight[c] # AtEase /\ inFlight[c].a # GlobalScope => inFlight[c].purges <= inFlight[c].epoch

CalibrationInv ==
  /\ CalibrationTypes
  /\ \A p \in CalServers : Owned(mem[p])
  /\ PurgesCounted(wiping, epoch)
  /\ CallsStamped
  /\ ~lost => side.kind # "unreadable" /\ \A p \in CalServers : Lawful(p, mem[p], side)

\* A refresh takes from a good file the entries the process owns and has not changed.
LEMMA RefreshedKeeps ==
  ASSUME side \in Sidecars, NEW m \in Memories
  PROVE  LET n == RefreshedFrom(m) IN
         /\ n \in Memories
         /\ n.own = m.own /\ n.pend = m.pend /\ n.purges = m.purges /\ n.guarded = m.guarded
         /\ \A x \in Axes, s \in Targets :
              \/ /\ n[x][s] = m[x][s]
                 /\ side.kind = "good" /\ s \in m.own[x] \ m.pend[x] => s = GlobalScope /\ side[x][s] = None_
              \/ side.kind = "good" /\ s \in m.own[x] \ m.pend[x] /\ n[x][s] = side[x][s]
<1> DEFINE n == RefreshedFrom(m)
           fresh(x, live) == [s \in Targets |->
             IF s \in m.own[x] \ m.pend[x] /\ ~(s = GlobalScope /\ side[x][s] = None_) THEN side[x][s] ELSE live[s]]
<1>1. CASE side.kind # "good"
  <2>1. n = m
    BY <1>1 DEF RefreshedFrom
  <2> QED
    BY <1>1, <2>1
<1>2. CASE side.kind = "good"
  <2>1. n = [m EXCEPT !.thr = fresh("thr", m.thr), !.gate = fresh("gate", m.gate), !.beta = fresh("beta", m.beta)]
    BY <1>2 DEF RefreshedFrom
  <2>2. /\ fresh("thr", m.thr) \in [Targets -> Thresholds]
        /\ fresh("gate", m.gate) \in [Targets -> Gates]
        /\ fresh("beta", m.beta) \in [Targets -> Precisions]
    BY DEF Sidecars, Memories
  <2>3. n \in Memories
    BY <2>1, <2>2 DEF Memories
  <2>4. /\ n.own = m.own /\ n.pend = m.pend /\ n.purges = m.purges /\ n.guarded = m.guarded
        /\ n.thr = fresh("thr", m.thr) /\ n.gate = fresh("gate", m.gate) /\ n.beta = fresh("beta", m.beta)
    BY <2>1 DEF Memories
  <2>5. \A x \in Axes : n[x] = fresh(x, m[x])
    BY <2>4 DEF Axes
  <2>6. ASSUME NEW x \in Axes, NEW s \in Targets
        PROVE  n[x][s] = IF s \in m.own[x] \ m.pend[x] /\ ~(s = GlobalScope /\ side[x][s] = None_)
                         THEN side[x][s] ELSE m[x][s]
    BY <2>5
  <2> QED
    BY <1>2, <2>3, <2>4, <2>6
<1> QED
  BY <1>1, <1>2

\* In n, process memory m has the measurement v noted for a, as owned and to be written.
Notes(m, n, x, a, v) ==
  /\ n \in Memories /\ n.purges = m.purges
  /\ \A y \in Axes : y # x => n[y] = m[y]
  /\ \A s \in Targets : n[x][s] = IF s = a THEN v ELSE m[x][s]
  /\ \A y \in Axes : /\ n.own[y] = IF y = x THEN m.own[y] \cup {a} ELSE m.own[y]
                     /\ n.pend[y] = IF y = x THEN m.pend[y] \cup {a} ELSE m.pend[y]

\* A threshold or a gate put into a memory, and the change recorded.
LEMMA Noted ==
  ASSUME NEW m \in Memories, NEW a \in Targets
  PROVE  /\ \A v \in Thresholds : Notes(m, Changed([m EXCEPT !.thr[a] = v], {"thr"}, a), "thr", a, v)
         /\ \A v \in Gates : Notes(m, Changed([m EXCEPT !.gate[a] = v], {"gate"}, a), "gate", a, v)
<1>1. \A v \in Thresholds : Notes(m, Changed([m EXCEPT !.thr[a] = v], {"thr"}, a), "thr", a, v)
  <2> SUFFICES ASSUME NEW v \in Thresholds PROVE Notes(m, Changed([m EXCEPT !.thr[a] = v], {"thr"}, a), "thr", a, v)
    OBVIOUS
  <2>1. PICK t, k, n :
          /\ t = [m.thr EXCEPT ![a] = v] /\ k = [m EXCEPT !.thr = t]
          /\ n = Changed([m EXCEPT !.thr[a] = v], {"thr"}, a)
    OBVIOUS
  <2>0. PICK o, d :
          /\ o = [y \in Axes |-> IF y \in {"thr"} THEN m.own[y] \cup {a} ELSE m.own[y]]
          /\ d = [y \in Axes |-> IF y \in {"thr"} THEN m.pend[y] \cup {a} ELSE m.pend[y]]
    OBVIOUS
  <2>2. m.thr \in [Targets -> Thresholds] /\ m.own \in [Axes -> SUBSET Targets] /\ m.pend \in [Axes -> SUBSET Targets]
    BY DEF Memories
  <2>3. /\ t \in [Targets -> Thresholds] /\ \A s \in Targets : t[s] = IF s = a THEN v ELSE m.thr[s]
        /\ o \in [Axes -> SUBSET Targets] /\ d \in [Axes -> SUBSET Targets]
    BY <2>0, <2>1, <2>2
  <2>4. /\ k \in Memories /\ k.thr = t /\ k.gate = m.gate /\ k.beta = m.beta
        /\ k.own = m.own /\ k.pend = m.pend /\ k.purges = m.purges
    BY <2>1, <2>3 DEF Memories
  <2>5. n = [k EXCEPT !.own = o, !.pend = d]
    <3>1. k = [m EXCEPT !.thr[a] = v]
      BY <2>1
    <3>2. n = Changed(k, {"thr"}, a)
      BY <2>1, <3>1
    <3> QED
      BY <2>0, <2>4, <3>2 DEF Changed
  <2>6. /\ n \in Memories /\ n.thr = t /\ n.gate = m.gate /\ n.beta = m.beta
        /\ n.own = o /\ n.pend = d /\ n.purges = m.purges
    BY <2>3, <2>4, <2>5 DEF Memories
  <2>7. \A y \in Axes : y # "thr" => n[y] = m[y]
    BY <2>6 DEF Axes
  <2>8. \A s \in Targets : n["thr"][s] = IF s = a THEN v ELSE m["thr"][s]
    BY <2>3, <2>6
  <2>9. \A y \in Axes : /\ n.own[y] = IF y = "thr" THEN m.own[y] \cup {a} ELSE m.own[y]
                        /\ n.pend[y] = IF y = "thr" THEN m.pend[y] \cup {a} ELSE m.pend[y]
    BY <2>0, <2>6
  <2>10. Notes(m, n, "thr", a, v)
    BY <2>6, <2>7, <2>8, <2>9 DEF Notes
  <2> QED
    BY <2>1, <2>10
<1>2. \A v \in Gates : Notes(m, Changed([m EXCEPT !.gate[a] = v], {"gate"}, a), "gate", a, v)
  <2> SUFFICES ASSUME NEW v \in Gates PROVE Notes(m, Changed([m EXCEPT !.gate[a] = v], {"gate"}, a), "gate", a, v)
    OBVIOUS
  <2>1. PICK t, k, n :
          /\ t = [m.gate EXCEPT ![a] = v] /\ k = [m EXCEPT !.gate = t]
          /\ n = Changed([m EXCEPT !.gate[a] = v], {"gate"}, a)
    OBVIOUS
  <2>0. PICK o, d :
          /\ o = [y \in Axes |-> IF y \in {"gate"} THEN m.own[y] \cup {a} ELSE m.own[y]]
          /\ d = [y \in Axes |-> IF y \in {"gate"} THEN m.pend[y] \cup {a} ELSE m.pend[y]]
    OBVIOUS
  <2>2. m.gate \in [Targets -> Gates] /\ m.own \in [Axes -> SUBSET Targets] /\ m.pend \in [Axes -> SUBSET Targets]
    BY DEF Memories
  <2>3. /\ t \in [Targets -> Gates] /\ \A s \in Targets : t[s] = IF s = a THEN v ELSE m.gate[s]
        /\ o \in [Axes -> SUBSET Targets] /\ d \in [Axes -> SUBSET Targets]
    BY <2>0, <2>1, <2>2
  <2>4. /\ k \in Memories /\ k.gate = t /\ k.thr = m.thr /\ k.beta = m.beta
        /\ k.own = m.own /\ k.pend = m.pend /\ k.purges = m.purges
    BY <2>1, <2>3 DEF Memories
  <2>5. n = [k EXCEPT !.own = o, !.pend = d]
    <3>1. k = [m EXCEPT !.gate[a] = v]
      BY <2>1
    <3>2. n = Changed(k, {"gate"}, a)
      BY <2>1, <3>1
    <3> QED
      BY <2>0, <2>4, <3>2 DEF Changed
  <2>6. /\ n \in Memories /\ n.gate = t /\ n.thr = m.thr /\ n.beta = m.beta
        /\ n.own = o /\ n.pend = d /\ n.purges = m.purges
    BY <2>3, <2>4, <2>5 DEF Memories
  <2>7. \A y \in Axes : y # "gate" => n[y] = m[y]
    BY <2>6 DEF Axes
  <2>8. \A s \in Targets : n["gate"][s] = IF s = a THEN v ELSE m["gate"][s]
    BY <2>3, <2>6
  <2>9. \A y \in Axes : /\ n.own[y] = IF y = "gate" THEN m.own[y] \cup {a} ELSE m.own[y]
                        /\ n.pend[y] = IF y = "gate" THEN m.pend[y] \cup {a} ELSE m.pend[y]
    BY <2>0, <2>6
  <2>10. Notes(m, n, "gate", a, v)
    BY <2>6, <2>7, <2>8, <2>9 DEF Notes
  <2> QED
    BY <2>1, <2>10
<1> QED
  BY <1>1, <1>2

\* A process that notes its own measurement, of a corpus it has not purged since, stays lawful.
LEMMA MeasuredKept ==
  ASSUME NEW p \in CalServers, NEW m \in Memories, NEW n, NEW f,
         NEW x \in Measured, NEW a \in Targets, NEW v, Notes(m, n, x, a, v),
         v.by = p, v.epoch \in Nat, a \in CalAgents => m.purges[a] <= v.epoch,
         Owned(m)
  PROVE  Owned(n) /\ (Lawful(p, m, f) => Lawful(p, n, f))
<1>1. x \in Axes
  BY DEF Measured, Axes
<1>2. ASSUME NEW y \in Axes, NEW s \in Targets
      PROVE  n[y][s] = IF y = x /\ s = a THEN v ELSE m[y][s]
  BY DEF Notes
<1>3. ASSUME NEW y \in Axes
      PROVE  /\ n.own[y] = IF y = x THEN m.own[y] \cup {a} ELSE m.own[y]
             /\ n.pend[y] = IF y = x THEN m.pend[y] \cup {a} ELSE m.pend[y]
  BY DEF Notes
<1>4. Owned(n)
  <2> SUFFICES ASSUME NEW y \in Axes
               PROVE  n.pend[y] \subseteq n.own[y] /\ \A s \in Targets : n[y][s] # None_ => s \in n.own[y]
    BY DEF Owned
  <2>1. m.pend[y] \subseteq m.own[y] /\ \A s \in Targets : m[y][s] # None_ => s \in m.own[y]
    BY DEF Owned
  <2>2. n.pend[y] \subseteq n.own[y]
    BY <1>3, <2>1
  <2>3. ASSUME NEW s \in Targets, n[y][s] # None_ PROVE s \in n.own[y]
    BY <1>2, <1>3, <2>1, <2>3
  <2> QED
    BY <2>2, <2>3
<1>5. ASSUME Lawful(p, m, f) PROVE Lawful(p, n, f)
  <2> SUFFICES ASSUME NEW b \in CalAgents, NEW y \in Measured
               PROVE  /\ ~Old(n[y][b], p, n.purges[b])
                      /\ Old(f[y][b], p, n.purges[b]) => b \in n.pend[y]
                      /\ n[y][b] # None_ /\ n[y][b].by # p => b \notin n.pend[y] /\ f.kind = "good"
    BY DEF Lawful
  <2>1. y \in Axes /\ b \in Targets /\ m.purges[b] \in Nat /\ n.purges[b] = m.purges[b]
    BY DEF Measured, Axes, Targets, Memories, Notes
  <2>2. /\ ~Old(m[y][b], p, m.purges[b])
        /\ Old(f[y][b], p, m.purges[b]) => b \in m.pend[y]
        /\ m[y][b] # None_ /\ m[y][b].by # p => b \notin m.pend[y] /\ f.kind = "good"
    BY <1>5 DEF Lawful
  <2>3. n[y][b] = IF y = x /\ b = a THEN v ELSE m[y][b]
    BY <1>2, <2>1
  <2>4. b \in n.pend[y] <=> b \in m.pend[y] \/ (y = x /\ b = a)
    BY <1>3, <2>1
  <2>5. CASE y = x /\ b = a
    <3>1. ~(v.epoch < m.purges[b])
      BY <2>1, <2>5
    <3> QED
      BY <2>1, <2>2, <2>3, <2>4, <2>5, <3>1 DEF Old
  <2>6. CASE ~(y = x /\ b = a)
    BY <2>1, <2>2, <2>3, <2>4, <2>6
  <2> QED
    BY <2>5, <2>6
<1> QED
  BY <1>4, <1>5

\* What another process measured is held as the file has it.
InStep(p, m, f) ==
  \A a \in CalAgents, x \in Measured : m[x][a] # None_ /\ m[x][a].by # p => m[x][a] = f[x][a]

\* A refresh brings a process in step with the file, and leaves it lawful.
LEMMA RefreshedLawful ==
  ASSUME side \in Sidecars, NEW p \in CalServers, NEW m \in Memories, Owned(m)
  PROVE  /\ Owned(RefreshedFrom(m))
         /\ Lawful(p, m, side) => Lawful(p, RefreshedFrom(m), side) /\ InStep(p, RefreshedFrom(m), side)
<1> DEFINE n == RefreshedFrom(m)
<1>1. /\ n \in Memories
      /\ n.own = m.own /\ n.pend = m.pend /\ n.purges = m.purges
      /\ \A x \in Axes, s \in Targets :
           \/ /\ n[x][s] = m[x][s]
              /\ side.kind = "good" /\ s \in m.own[x] \ m.pend[x] => s = GlobalScope /\ side[x][s] = None_
           \/ side.kind = "good" /\ s \in m.own[x] \ m.pend[x] /\ n[x][s] = side[x][s]
  BY RefreshedKeeps
<1> HIDE DEF n
<1>2. Owned(n)
  BY <1>1 DEF Owned
<1>3. ASSUME Lawful(p, m, side) PROVE Lawful(p, n, side) /\ InStep(p, n, side)
  <2>1. ASSUME NEW b \in CalAgents, NEW y \in Measured
        PROVE  /\ ~Old(n[y][b], p, n.purges[b])
               /\ Old(side[y][b], p, n.purges[b]) => b \in n.pend[y]
               /\ n[y][b] # None_ /\ n[y][b].by # p =>
                    b \notin n.pend[y] /\ side.kind = "good" /\ n[y][b] = side[y][b]
    <3>1. y \in Axes /\ b \in Targets /\ b # GlobalScope
      BY CalibrationConstants DEF Measured, Axes, Targets
    <3>2. /\ ~Old(m[y][b], p, m.purges[b])
          /\ Old(side[y][b], p, m.purges[b]) => b \in m.pend[y]
          /\ m[y][b] # None_ /\ m[y][b].by # p => b \notin m.pend[y] /\ side.kind = "good"
      BY <1>3 DEF Lawful
    <3>3. m[y][b] # None_ => b \in m.own[y]
      BY <3>1 DEF Owned
    <3> QED
      BY <1>1, <3>1, <3>2, <3>3
  <2> QED
    BY <2>1 DEF Lawful, InStep
<1> QED
  BY <1>2, <1>3 DEF n

\* The file a save writes: what the process holds, and what it does not own as it was.
LEMMA OverlayValue ==
  ASSUME side \in Sidecars, NEW m \in Memories
  PROVE  /\ Overlay(m, "thr", m.thr) \in [Targets -> Thresholds]
         /\ Overlay(m, "gate", m.gate) \in [Targets -> Gates]
         /\ Overlay(m, "beta", m.beta) \in [Targets -> Precisions]
         /\ \A x \in Axes, s \in Targets :
              Overlay(m, x, m[x])[s] = IF m[x][s] # None_ THEN m[x][s]
                                       ELSE IF side.kind = "good" /\ s \notin m.own[x] THEN side[x][s] ELSE None_
<1>1. \A x, live : Overlay(m, x, live) = [s \in Targets |-> IF live[s] # None_ THEN live[s]
                                             ELSE IF side.kind = "good" /\ s \notin m.own[x] THEN side[x][s] ELSE None_]
  BY DEF Overlay, Carried
<1>2. Overlay(m, "thr", m.thr) \in [Targets -> Thresholds]
  BY <1>1 DEF Sidecars, Memories, Thresholds
<1>3. Overlay(m, "gate", m.gate) \in [Targets -> Gates]
  BY <1>1 DEF Sidecars, Memories, Gates
<1>4. Overlay(m, "beta", m.beta) \in [Targets -> Precisions]
  BY <1>1 DEF Sidecars, Memories, Precisions
<1> QED
  BY <1>1, <1>2, <1>3, <1>4

\* A file written by a process in step with the one before is lawful for it and for the others.
LEMMA SavedLawful ==
  ASSUME side \in Sidecars, NEW p \in CalServers, NEW m \in Memories, NEW n \in Memories, NEW f \in Sidecars,
         Owned(m), Lawful(p, m, side), InStep(p, m, side), f.kind = "good",
         \A x \in Measured : f[x] = Overlay(m, x, m[x]),
         \A x \in Measured : n[x] = m[x] /\ n.pend[x] \subseteq m.pend[x], n.purges = m.purges
  PROVE  /\ Lawful(p, n, f)
         /\ \A q \in CalServers \ {p} : \A k \in Memories : Lawful(q, k, side) => Lawful(q, k, f)
<1>1. \A b \in CalAgents, y \in Measured :
        /\ y \in Axes /\ b \in Targets
        /\ f[y][b] = IF m[y][b] # None_ THEN m[y][b]
                     ELSE IF side.kind = "good" /\ b \notin m.own[y] THEN side[y][b] ELSE None_
        /\ b \in m.pend[y] => b \in m.own[y]
        /\ ~Old(m[y][b], p, m.purges[b])
        /\ Old(side[y][b], p, m.purges[b]) => b \in m.pend[y]
        /\ m[y][b] # None_ /\ m[y][b].by # p => b \notin m.pend[y] /\ m[y][b] = side[y][b]
  <2> SUFFICES ASSUME NEW b \in CalAgents, NEW y \in Measured
               PROVE  /\ y \in Axes /\ b \in Targets
                      /\ f[y][b] = IF m[y][b] # None_ THEN m[y][b]
                                   ELSE IF side.kind = "good" /\ b \notin m.own[y] THEN side[y][b] ELSE None_
                      /\ b \in m.pend[y] => b \in m.own[y]
                      /\ ~Old(m[y][b], p, m.purges[b])
                      /\ Old(side[y][b], p, m.purges[b]) => b \in m.pend[y]
                      /\ m[y][b] # None_ /\ m[y][b].by # p => b \notin m.pend[y] /\ m[y][b] = side[y][b]
    OBVIOUS
  <2>1. y \in Axes /\ b \in Targets
    BY DEF Measured, Axes, Targets
  <2>2. f[y][b] = IF m[y][b] # None_ THEN m[y][b]
                  ELSE IF side.kind = "good" /\ b \notin m.own[y] THEN side[y][b] ELSE None_
    BY <2>1, OverlayValue
  <2>3. b \in m.pend[y] => b \in m.own[y]
    BY <2>1 DEF Owned
  <2> QED
    BY <2>1, <2>2, <2>3 DEF Lawful, InStep
<1>2. Lawful(p, n, f)
  <2>1. ASSUME NEW b \in CalAgents, NEW y \in Measured
        PROVE  ~Old(f[y][b], p, m.purges[b])
    BY <1>1, <2>1 DEF Old
  <2> QED
    BY <1>1, <2>1 DEF Lawful
<1>3. ASSUME NEW q \in CalServers \ {p}, NEW k \in Memories, Lawful(q, k, side)
      PROVE  Lawful(q, k, f)
  <2>1. ASSUME NEW b \in CalAgents, NEW y \in Measured, Old(f[y][b], q, k.purges[b])
        PROVE  Old(side[y][b], q, k.purges[b])
    <3>1. f[y][b] # None_ /\ f[y][b].by # p
      BY <2>1 DEF Old
    <3>2. f[y][b] = side[y][b]
      BY <1>1, <3>1
    <3> QED
      BY <2>1, <3>2
  <2> QED
    BY <1>3, <2>1 DEF Lawful
<1> QED
  BY <1>2, <1>3

\* A first start has measured nothing.
LEMMA CalibrationStarts == CalibrationInit => CalibrationInv
<1> SUFFICES ASSUME CalibrationInit PROVE CalibrationInv
  OBVIOUS
<1>1. NoEntries \in [Targets -> {None_}]
  BY DEF NoEntries
<1>2. /\ NoEntries \in [Targets -> Thresholds] /\ NoEntries \in [Targets -> Gates] /\ NoEntries \in [Targets -> Precisions]
      /\ \A s \in Targets : NoEntries[s] = None_
  BY <1>1 DEF Thresholds, Gates, Precisions
<1>3. side \in Sidecars /\ side.kind = "absent" /\ \A x \in Axes, s \in Targets : side[x][s] = None_
  BY <1>2 DEF CalibrationInit, Sidecars, Axes
<1>4. ASSUME NEW p \in CalServers
      PROVE  /\ mem[p] \in Memories /\ \A a \in CalAgents : mem[p].purges[a] = 0
             /\ \A x \in Axes, s \in Targets : mem[p][x][s] = None_
             /\ \A x \in Axes : mem[p].pend[x] = {} /\ mem[p].own[x] = {}
  <2>1. mem[p] = [Booted EXCEPT !.guarded = TRUE]
    BY DEF CalibrationInit
  <2>2. /\ mem[p].thr = NoEntries /\ mem[p].gate = NoEntries /\ mem[p].beta = NoEntries
        /\ mem[p].own = Nobody /\ mem[p].pend = Nobody /\ mem[p].purges = [a \in CalAgents |-> 0]
        /\ mem[p].guarded = TRUE
        /\ mem[p] = [thr |-> mem[p].thr, gate |-> mem[p].gate, beta |-> mem[p].beta, own |-> mem[p].own,
                     pend |-> mem[p].pend, purges |-> mem[p].purges, guarded |-> mem[p].guarded]
    BY <2>1 DEF Booted
  <2>3. Nobody \in [Axes -> SUBSET Targets] /\ [a \in CalAgents |-> 0] \in [CalAgents -> Nat]
    BY DEF Nobody
  <2>4. mem[p] \in Memories
    BY <1>2, <2>2, <2>3 DEF Memories
  <2> QED
    BY <1>2, <2>2, <2>4 DEF Axes, Nobody
<1>5. CalibrationTypes
  BY <1>3, <1>4 DEF CalibrationInit, CalibrationTypes
<1>6. \A p \in CalServers : Owned(mem[p])
  BY <1>4 DEF Owned
<1>7. PurgesCounted(wiping, epoch)
  <2>1. wiping = {} /\ \A a \in CalAgents : epoch[a] = 0
    BY DEF CalibrationInit
  <2> QED
    BY <1>4, <2>1 DEF PurgesCounted
<1>8. CallsStamped
  BY DEF CallsStamped, CalibrationInit
<1>9. \A p \in CalServers : Lawful(p, mem[p], side)
  BY <1>3, <1>4 DEF Lawful, Old, Measured, Axes, Targets
<1> QED
  BY <1>3, <1>5, <1>6, <1>7, <1>8, <1>9 DEF CalibrationInv

\* A call that begins notes a purge count its corpus has reached.
LEMMA BeginsStamped ==
  ASSUME CalibrationInv, NEW c \in Calls_, NEW p \in CalServers, NEW a \in Targets,
         NEW ov \in Betas \cup {None_, Current_}, BeginCalibration(c, p, a, ov)
  PROVE  CalibrationInv'
<1> DEFINE e == IF a = GlobalScope THEN 0 ELSE epoch[a]
           n == IF a = GlobalScope THEN 0 ELSE mem[p].purges[a]
<1>1. e \in Nat /\ n \in Nat /\ n <= e
  <2>1. CASE a = GlobalScope
    BY <2>1
  <2>2. CASE a # GlobalScope
    <3>1. a \in CalAgents
      BY <2>2 DEF Targets
    <3>2. mem[p] \in Memories /\ epoch[a] \in Nat /\ mem[p].purges[a] <= epoch[a]
      BY <3>1 DEF CalibrationInv, CalibrationTypes, PurgesCounted
    <3> QED
      BY <2>2, <3>1, <3>2 DEF Memories
  <2> QED
    BY <2>1, <2>2
<1> HIDE DEF e, n
<1>2. /\ inFlight' = [inFlight EXCEPT ![c] = [at |-> "apply", p |-> p, a |-> a, ov |-> ov, beta |-> None_,
                                              epoch |-> e, purges |-> n]]
      /\ UNCHANGED <<side, mem, epoch, wiping, lost>>
  BY DEF BeginCalibration, e, n
<1>3. CalibrationTypes'
  <2>1. [at |-> "apply", p |-> p, a |-> a, ov |-> ov, beta |-> None_, epoch |-> e, purges |-> n] \in Underway
    BY <1>1 DEF Underway, Precisions
  <2> QED
    BY <1>2, <2>1 DEF CalibrationInv, CalibrationTypes
<1>4. CallsStamped'
  BY <1>1, <1>2 DEF CalibrationInv, CalibrationTypes, CallsStamped
<1> QED
  BY <1>2, <1>3, <1>4 DEF CalibrationInv, PurgesCounted

\* The call under way, while its process has not purged its agent.
LEMMA CallCurrent ==
  ASSUME CalibrationInv, NEW c \in Calls_, inFlight[c].at \in {"apply", "save"}
  PROVE  /\ inFlight[c] \in Underway /\ inFlight[c] # AtEase
         /\ ~PurgedMeanwhile(inFlight[c]) /\ inFlight[c].a \in CalAgents =>
              mem[inFlight[c].p].purges[inFlight[c].a] <= inFlight[c].epoch
<1>1. inFlight[c] \in Underway /\ inFlight[c] # AtEase
  BY DEF CalibrationInv, CalibrationTypes, AtEase
<1> QED
  BY <1>1, CalibrationConstants DEF CalibrationInv, CallsStamped, PurgedMeanwhile

\* The threshold applied is of a corpus not purged, or it is dropped.
LEMMA AppliesLawfully ==
  ASSUME CalibrationInv, NEW c \in Calls_, ApplyThreshold(c)
  PROVE  CalibrationInv'
<1>0. PICK call : call = inFlight[c]
  OBVIOUS
<1>1. /\ call.at = "apply" /\ call \in Underway
      /\ ~PurgedMeanwhile(call) /\ call.a \in CalAgents => mem[call.p].purges[call.a] <= call.epoch
      /\ call.a # GlobalScope => call.purges <= call.epoch
  BY <1>0, CallCurrent DEF ApplyThreshold, CalibrationInv, CallsStamped
<1>2. CASE PurgedMeanwhile(call)
  <2>1. inFlight' = [inFlight EXCEPT ![c] = AtEase] /\ UNCHANGED <<side, mem, epoch, wiping, lost>>
    BY <1>0, <1>2 DEF ApplyThreshold
  <2>2. CalibrationTypes' /\ CallsStamped'
    BY <2>1 DEF CalibrationInv, CalibrationTypes, CallsStamped
  <2> QED
    BY <2>1, <2>2 DEF CalibrationInv, PurgesCounted
<1>3. CASE ~PurgedMeanwhile(call)
  <2>1. PICK p, a, v, n, b :
          /\ p = call.p /\ a = call.a /\ v = [by |-> p, epoch |-> call.epoch]
          /\ n = Changed([mem[p] EXCEPT !.thr[a] = v], {"thr"}, a)
          /\ b = IF a = GlobalScope THEN None_
                 ELSE IF call.ov = Current_ THEN PrecisionOf(mem[p].beta, a)
                 ELSE IF call.ov = None_ THEN DefaultBeta ELSE call.ov
    OBVIOUS
  <2>2. /\ mem' = [mem EXCEPT ![p] = n]
        /\ inFlight' = [inFlight EXCEPT ![c].at = "save", ![c].beta = b]
        /\ UNCHANGED <<side, epoch, wiping, lost>>
    BY <1>0, <1>3, <2>1 DEF ApplyThreshold
  <2>3. /\ p \in CalServers /\ a \in Targets /\ call.epoch \in Nat
        /\ mem[p] \in Memories /\ Owned(mem[p])
    BY <1>1, <2>1 DEF Underway, CalibrationInv, CalibrationTypes
  <2>4. v \in Thresholds /\ v.by = p /\ v.epoch = call.epoch
    BY <2>1, <2>3 DEF Thresholds
  <2>7. Notes(mem[p], n, "thr", a, v)
    BY <2>1, <2>3, <2>4, Noted
  <2>8. Owned(n) /\ \A f : Lawful(p, mem[p], f) => Lawful(p, n, f)
    <3>1. a \in CalAgents => mem[p].purges[a] <= v.epoch
      BY <1>1, <1>3, <2>1, <2>4
    <3>2. "thr" \in Measured /\ v.epoch \in Nat
      BY <2>3, <2>4 DEF Measured
    <3> QED
      BY <2>3, <2>4, <2>7, <3>1, <3>2, MeasuredKept
  <2>9. b \in Precisions
    BY <1>1, <2>1, <2>3 DEF Underway, Memories, Precisions, PrecisionOf
  <2>10. inFlight'[c] \in Underway /\ inFlight'[c].a = call.a /\ inFlight'[c].purges = call.purges /\ inFlight'[c].epoch = call.epoch
         /\ \A d \in Calls_ \ {c} : inFlight'[d] = inFlight[d]
         /\ inFlight' \in [Calls_ -> Underway \cup {AtEase}]
    <3>1. inFlight' = [inFlight EXCEPT ![c] = [call EXCEPT !.at = "save", !.beta = b]]
      BY <1>0, <2>2 DEF CalibrationInv, CalibrationTypes
    <3>2. [call EXCEPT !.at = "save", !.beta = b] \in Underway
      BY <1>1, <2>9 DEF Underway
    <3>3. /\ [call EXCEPT !.at = "save", !.beta = b].a = call.a
          /\ [call EXCEPT !.at = "save", !.beta = b].purges = call.purges
          /\ [call EXCEPT !.at = "save", !.beta = b].epoch = call.epoch
      BY <1>1 DEF Underway
    <3> QED
      BY <3>1, <3>2, <3>3 DEF CalibrationInv, CalibrationTypes
  <2>11. CalibrationTypes'
    BY <2>2, <2>7, <2>10 DEF CalibrationInv, CalibrationTypes, Notes
  <2>12. CallsStamped'
    BY <1>1, <2>10 DEF CalibrationInv, CallsStamped
  <2>13. \A q \in CalServers : mem'[q] = IF q = p THEN n ELSE mem[q]
    BY <2>2 DEF CalibrationInv, CalibrationTypes
  <2>14. PurgesCounted(wiping, epoch)'
    <3>1. \A q \in CalServers : mem'[q].purges = mem[q].purges
      BY <2>7, <2>13 DEF Notes
    <3>2. wiping' = wiping /\ epoch' = epoch
      BY <2>2
    <3> QED
      BY <3>1, <3>2 DEF CalibrationInv, PurgesCounted
  <2> QED
    BY <2>2, <2>8, <2>11, <2>12, <2>13, <2>14 DEF CalibrationInv
<1> QED
  BY <1>2, <1>3
\* What a save leaves of the file f and in memory n: the process took in the file (m), noted
\* its gate (k), and wrote, or kept k.
SaveLeaves(p, a, m, k, n, f) ==
  /\ m = RefreshedFrom(mem[p]) \/ (m = mem[p] /\ f = side /\ n = k)
  /\ k = m \/ \E v \in Gates : /\ Notes(m, k, "gate", a, v) /\ v.by = p /\ v.epoch \in Nat
                               /\ a \in CalAgents => mem[p].purges[a] <= v.epoch
  /\ n.thr = k.thr /\ n.gate = k.gate /\ n.purges = k.purges
  /\ \A x \in Axes : n.pend[x] \subseteq k.pend[x] /\ k.own[x] \subseteq n.own[x]
  /\ \A s \in Targets : n.beta[s] = k.beta[s] \/ s \in n.own["beta"]
  /\ \/ f = side /\ n = k
     \/ /\ f.kind = "good" /\ f.thr = Overlay(k, "thr", k.thr) /\ f.gate = Overlay(k, "gate", k.gate)
        /\ \A s \in Targets : s # a => f.beta[s] = Overlay(k, "beta", k.beta)[s]

LEMMA SaveShape ==
  ASSUME CalibrationInv, NEW c \in Calls_, NEW measured \in BOOLEAN, NEW lock \in BOOLEAN, NEW saved \in BOOLEAN,
         Save(c, measured, lock, saved), ~PurgedMeanwhile(inFlight[c])
  PROVE  \E p \in CalServers, a \in Targets, m, k, n \in Memories, f \in Sidecars :
           /\ p = inFlight[c].p /\ a = inFlight[c].a /\ inFlight[c].at = "save"
           /\ SaveLeaves(p, a, m, k, n, f)
           /\ mem' = [mem EXCEPT ![p] = n] /\ side' = f
           /\ inFlight' = [inFlight EXCEPT ![c] = AtEase]
           /\ UNCHANGED <<epoch, wiping, lost>>
<1>1. PICK call : call = inFlight[c]
  OBVIOUS
<1>2. PICK p, a, m1 : p = call.p /\ a = call.a /\ m1 = IF lock THEN RefreshedFrom(mem[p]) ELSE mem[p]
  OBVIOUS
<1>3. PICK gated : gated = (measured /\ a # GlobalScope /\ (call.ov = Current_ => PrecisionOf(m1.beta, a) = call.beta))
  OBVIOUS
<1>4. PICK v : v = [at |-> call.beta, by |-> p, epoch |-> call.epoch]
  OBVIOUS
<1>5. PICK m2 : m2 = IF gated THEN Changed([m1 EXCEPT !.gate[a] = v], {"gate"}, a) ELSE m1
  OBVIOUS
<1>6. PICK unpaired : unpaired = (/\ call.ov # Current_ /\ ~gated /\ call.beta # PrecisionOf(m2.beta, a)
                                  /\ (m2.gate[a] # None_ \/ Carried(m2, "gate")[a] # None_))
  OBVIOUS
<1>7. PICK adopts : adopts = (call.ov # Current_ /\ lock /\ saved /\ ~unpaired)
  OBVIOUS
<1>8. PICK m3, betas : m3 = (IF lock /\ saved THEN [m2 EXCEPT !.pend = Nobody] ELSE m2) /\ betas = Overlay(m2, "beta", m2.beta)
  OBVIOUS
<1>9. PICK n : n = IF adopts THEN [m3 EXCEPT !.beta[a] = call.ov, !.own["beta"] = @ \cup {a}] ELSE m3
  OBVIOUS
<1>10. PICK f : f = IF lock /\ saved
                    THEN [kind |-> "good", thr |-> Overlay(m2, "thr", m2.thr), gate |-> Overlay(m2, "gate", m2.gate),
                          beta |-> IF call.ov = Current_ \/ unpaired THEN betas ELSE [betas EXCEPT ![a] = call.ov]]
                    ELSE side
  OBVIOUS
<1>11. /\ call.at = "save" /\ inFlight' = [inFlight EXCEPT ![c] = AtEase]
       /\ mem' = [mem EXCEPT ![p] = n] /\ side' = f /\ UNCHANGED <<epoch, wiping, lost>>
  <2>1. call.at = "save" /\ inFlight' = [inFlight EXCEPT ![c] = AtEase] /\ UNCHANGED <<epoch, wiping, lost>>
    BY <1>1 DEF Save
  <2>2. mem' = [mem EXCEPT ![p] = n]
    BY <1>1, <1>2, <1>3, <1>4, <1>5, <1>6, <1>7, <1>8, <1>9, ZenonT(60) DEF Save
  <2>3. side' = f
    <3>1. CASE ~(lock /\ saved)
      BY <1>1, <1>2, <1>3, <1>10, <3>1 DEF Save
    <3>2. CASE lock /\ saved
      <4>1. PICK b : b = IF call.ov = Current_ \/ unpaired THEN betas ELSE [betas EXCEPT ![a] = call.ov]
        OBVIOUS
      <4>2. f = [kind |-> "good", thr |-> Overlay(m2, "thr", m2.thr), gate |-> Overlay(m2, "gate", m2.gate), beta |-> b]
        BY <1>10, <3>2, <4>1
      <4>3. side' = [kind |-> "good", thr |-> Overlay(m2, "thr", m2.thr), gate |-> Overlay(m2, "gate", m2.gate), beta |-> b]
        BY <1>1, <1>2, <1>3, <1>4, <1>5, <1>6, <1>8, <3>2, <4>1, ZenonT(60) DEF Save
      <4> QED
        BY <4>2, <4>3
    <3> QED
      BY <3>1, <3>2
  <2> QED
    BY <2>1, <2>2, <2>3
<1>12. /\ call \in Underway
       /\ call.a \in CalAgents => mem[call.p].purges[call.a] <= call.epoch
  BY <1>1, <1>11, CallCurrent
<1>13. /\ p \in CalServers /\ a \in Targets /\ call.epoch \in Nat /\ call.beta \in Precisions
       /\ call.ov \in Betas \cup {None_, Current_}
       /\ mem[p] \in Memories /\ side \in Sidecars
  BY <1>2, <1>12 DEF Underway, CalibrationInv, CalibrationTypes
<1>14. m1 \in Memories /\ m1.purges = mem[p].purges
  BY <1>2, <1>13, RefreshedKeeps
<1>15. v \in Gates /\ v.by = p /\ v.epoch = call.epoch
  BY <1>4, <1>13 DEF Gates
<1>16. m2 \in Memories /\ (m2 = m1 \/ Notes(m1, m2, "gate", a, v))
  <2>1. CASE gated
    <3>1. Notes(m1, m2, "gate", a, v)
      BY <1>5, <1>13, <1>14, <1>15, <2>1, Noted
    <3> QED
      BY <3>1 DEF Notes
  <2>2. CASE ~gated
    BY <1>5, <1>14, <2>2
  <2> QED
    BY <2>1, <2>2
<1>17. /\ m3 \in Memories /\ m3.thr = m2.thr /\ m3.gate = m2.gate /\ m3.beta = m2.beta
       /\ m3.own = m2.own /\ m3.purges = m2.purges
       /\ \A x \in Axes : m3.pend[x] \subseteq m2.pend[x]
       /\ ~(lock /\ saved) => m3 = m2
  <2>1. CASE lock /\ saved
    <3>1. m3 = [m2 EXCEPT !.pend = Nobody] /\ Nobody \in [Axes -> SUBSET Targets] /\ \A x \in Axes : Nobody[x] = {}
      BY <1>8, <2>1 DEF Nobody
    <3>2. /\ m3 \in Memories /\ m3.thr = m2.thr /\ m3.gate = m2.gate /\ m3.beta = m2.beta
          /\ m3.own = m2.own /\ m3.purges = m2.purges /\ m3.pend = Nobody
      BY <1>16, <3>1 DEF Memories
    <3> QED
      BY <2>1, <3>1, <3>2
  <2>2. CASE ~(lock /\ saved)
    BY <1>8, <1>16, <2>2
  <2> QED
    BY <2>1, <2>2
<1>18. /\ n \in Memories /\ n.thr = m2.thr /\ n.gate = m2.gate /\ n.purges = m2.purges
       /\ \A x \in Axes : n.pend[x] \subseteq m2.pend[x] /\ m2.own[x] \subseteq n.own[x]
       /\ \A s \in Targets : n.beta[s] = m2.beta[s] \/ s \in n.own["beta"]
       /\ ~(lock /\ saved) => n = m2
  <2>1. CASE ~adopts
    BY <1>9, <1>17, <2>1
  <2>2. CASE adopts
    <3>1. call.ov \in Precisions /\ lock /\ saved
      BY <1>7, <1>13, <2>2 DEF Precisions
    <3>2. PICK b, o : b = [m3.beta EXCEPT ![a] = call.ov] /\ o = [m3.own EXCEPT !["beta"] = @ \cup {a}]
      OBVIOUS
    <3>3. m3.beta \in [Targets -> Precisions] /\ m3.own \in [Axes -> SUBSET Targets]
      BY <1>17 DEF Memories
    <3>4. /\ b \in [Targets -> Precisions] /\ o \in [Axes -> SUBSET Targets]
          /\ \A s \in Targets : s # a => b[s] = m3.beta[s]
          /\ \A x \in Axes : m3.own[x] \subseteq o[x]
          /\ a \in o["beta"]
      BY <1>13, <3>1, <3>2, <3>3 DEF Axes
    <3>5. n = [m3 EXCEPT !.beta = b, !.own = o]
      BY <1>9, <1>17, <2>2, <3>2 DEF Memories
    <3>6. /\ n \in Memories /\ n.thr = m3.thr /\ n.gate = m3.gate /\ n.purges = m3.purges
          /\ n.pend = m3.pend /\ n.beta = b /\ n.own = o
      BY <1>17, <3>4, <3>5 DEF Memories
    <3> QED
      BY <1>17, <3>1, <3>4, <3>6
  <2> QED
    BY <2>1, <2>2
<1>19. /\ Overlay(m2, "thr", m2.thr) \in [Targets -> Thresholds]
       /\ Overlay(m2, "gate", m2.gate) \in [Targets -> Gates]
       /\ betas \in [Targets -> Precisions]
  BY <1>8, <1>13, <1>16, OverlayValue
<1>20. /\ f \in Sidecars
       /\ \/ f = side /\ ~(lock /\ saved)
          \/ /\ lock /\ f.kind = "good" /\ f.thr = Overlay(m2, "thr", m2.thr) /\ f.gate = Overlay(m2, "gate", m2.gate)
             /\ \A s \in Targets : s # a => f.beta[s] = Overlay(m2, "beta", m2.beta)[s]
  <2>1. CASE ~(lock /\ saved)
    BY <1>10, <1>13, <2>1
  <2>2. CASE lock /\ saved
    <3>1. PICK b : b = IF call.ov = Current_ \/ unpaired THEN betas ELSE [betas EXCEPT ![a] = call.ov]
      OBVIOUS
    <3>2. b \in [Targets -> Precisions] /\ \A s \in Targets : s # a => b[s] = betas[s]
      BY <1>13, <1>19, <3>1 DEF Precisions
    <3>3. f = [kind |-> "good", thr |-> Overlay(m2, "thr", m2.thr), gate |-> Overlay(m2, "gate", m2.gate), beta |-> b]
      BY <1>10, <2>2, <3>1
    <3>4. f \in Sidecars
      BY <1>19, <3>2, <3>3 DEF Sidecars
    <3> QED
      BY <1>8, <2>2, <3>2, <3>3, <3>4
  <2> QED
    BY <2>1, <2>2
<1>21. m1 = RefreshedFrom(mem[p]) \/ (m1 = mem[p] /\ f = side /\ n = m2)
  BY <1>2, <1>18, <1>20
<1>22. m2 = m1 \/ \E w \in Gates : /\ Notes(m1, m2, "gate", a, w) /\ w.by = p /\ w.epoch \in Nat
                                   /\ a \in CalAgents => mem[p].purges[a] <= w.epoch
  BY <1>2, <1>12, <1>13, <1>15, <1>16
<1>23. SaveLeaves(p, a, m1, m2, n, f)
  BY <1>18, <1>20, <1>21, <1>22 DEF SaveLeaves
<1> QED
  BY <1>1, <1>2, <1>11, <1>13, <1>14, <1>16, <1>18, <1>20, <1>23

\* A save keeps the invariant.
LEMMA SavesLawfully ==
  ASSUME CalibrationInv, NEW c \in Calls_, NEW measured \in BOOLEAN, NEW lock \in BOOLEAN, NEW saved \in BOOLEAN,
         Save(c, measured, lock, saved)
  PROVE  CalibrationInv'
<1>1. CASE PurgedMeanwhile(inFlight[c])
  <2>1. inFlight' = [inFlight EXCEPT ![c] = AtEase] /\ UNCHANGED <<side, mem, epoch, wiping, lost>>
    BY <1>1 DEF Save
  <2>2. CalibrationTypes' /\ CallsStamped'
    BY <2>1 DEF CalibrationInv, CalibrationTypes, CallsStamped
  <2> QED
    BY <2>1, <2>2 DEF CalibrationInv, PurgesCounted
<1>2. CASE ~PurgedMeanwhile(inFlight[c])
  <2>1. PICK p \in CalServers, a \in Targets, m \in Memories, k \in Memories, n \in Memories, f \in Sidecars :
           /\ SaveLeaves(p, a, m, k, n, f)
           /\ mem' = [mem EXCEPT ![p] = n] /\ side' = f
           /\ inFlight' = [inFlight EXCEPT ![c] = AtEase]
           /\ UNCHANGED <<epoch, wiping, lost>>
    BY <1>2, SaveShape
  <2>2. mem[p] \in Memories /\ side \in Sidecars /\ Owned(mem[p])
    BY DEF CalibrationInv, CalibrationTypes
  <2>3. Owned(m) /\ m.purges = mem[p].purges
    BY <2>1, <2>2, RefreshedKeeps, RefreshedLawful DEF SaveLeaves
  <2>4. Owned(k) /\ k.purges = m.purges /\ (Lawful(p, m, side) => Lawful(p, k, side))
    <3>1. CASE k = m
      BY <2>3, <3>1
    <3>2. CASE k # m
      <4>1. PICK v \in Gates : /\ Notes(m, k, "gate", a, v) /\ v.by = p /\ v.epoch \in Nat
                               /\ a \in CalAgents => mem[p].purges[a] <= v.epoch
        BY <2>1, <3>2 DEF SaveLeaves
      <4>2. "gate" \in Measured /\ k.purges = m.purges
        BY <4>1 DEF Measured, Notes
      <4> QED
        BY <2>3, <4>1, <4>2, MeasuredKept
    <3> QED
      BY <3>1, <3>2
  <2>5. Owned(n) /\ n.purges = mem[p].purges
    <3>1. ASSUME NEW x \in Axes, NEW s \in Targets, n[x][s] # None_ PROVE s \in n.own[x]
      <4>1. x = "beta" \/ n[x] = k[x]
        BY <2>1 DEF SaveLeaves, Axes
      <4>2. k[x][s] # None_ => s \in n.own[x]
        BY <2>1, <2>4 DEF SaveLeaves, Owned
      <4>3. x = "beta" => n[x][s] = k[x][s] \/ s \in n.own[x]
        BY <2>1 DEF SaveLeaves
      <4> QED
        BY <3>1, <4>1, <4>2, <4>3
    <3>2. \A x \in Axes : n.pend[x] \subseteq n.own[x]
      BY <2>1, <2>4 DEF SaveLeaves, Owned
    <3>3. n.purges = mem[p].purges
      BY <2>1, <2>3, <2>4 DEF SaveLeaves
    <3> QED
      BY <3>1, <3>2, <3>3 DEF Owned
  <2>6. \A q \in CalServers : mem'[q] = IF q = p THEN n ELSE mem[q]
    BY <2>1 DEF CalibrationInv, CalibrationTypes
  <2>7. CalibrationTypes' /\ CallsStamped'
    <3>1. CalibrationTypes'
      BY <2>1 DEF CalibrationInv, CalibrationTypes
    <3>2. CallsStamped'
      BY <2>1 DEF CalibrationInv, CalibrationTypes, CallsStamped
    <3> QED
      BY <3>1, <3>2
  <2>8. \A q \in CalServers : Owned(mem'[q])
    BY <2>5, <2>6 DEF CalibrationInv
  <2>9. PurgesCounted(wiping, epoch)'
    <3>1. \A q \in CalServers : mem'[q].purges = mem[q].purges
      BY <2>5, <2>6
    <3> QED
      BY <2>1, <3>1 DEF CalibrationInv, PurgesCounted
  <2>10. ASSUME ~lost
         PROVE  side'.kind # "unreadable" /\ \A q \in CalServers : Lawful(q, mem'[q], side')
    <3>1. side.kind # "unreadable" /\ \A q \in CalServers : Lawful(q, mem[q], side)
      BY <2>10 DEF CalibrationInv
    <3>2. Lawful(p, m, side) /\ (m = RefreshedFrom(mem[p]) => InStep(p, m, side))
      BY <2>1, <2>2, <3>1, RefreshedLawful DEF SaveLeaves
    <3>3. Lawful(p, k, side)
      BY <2>4, <3>2
    <3>4. CASE f = side /\ n = k
      BY <2>1, <2>6, <3>1, <3>3, <3>4
    <3>5. CASE ~(f = side /\ n = k)
      <4>1. /\ m = RefreshedFrom(mem[p]) /\ f.kind = "good"
            /\ f.thr = Overlay(k, "thr", k.thr) /\ f.gate = Overlay(k, "gate", k.gate)
            /\ n.thr = k.thr /\ n.gate = k.gate /\ n.purges = k.purges
            /\ \A x \in Axes : n.pend[x] \subseteq k.pend[x]
        BY <2>1, <3>5 DEF SaveLeaves, Axes
      <4>2. InStep(p, k, side)
        <5>1. InStep(p, m, side)
          BY <3>2, <4>1
        <5>2. CASE k = m
          BY <5>1, <5>2
        <5>3. CASE k # m
          <6>1. PICK v : Notes(m, k, "gate", a, v) /\ v.by = p
            BY <2>1, <5>3 DEF SaveLeaves
          <6>2. \A b \in CalAgents, x \in Measured : k[x][b] = m[x][b] \/ k[x][b] = v
            BY <6>1 DEF Notes, Measured, Axes, Targets
          <6> QED
            BY <5>1, <6>1, <6>2 DEF InStep
        <5> QED
          BY <5>2, <5>3
      <4>3. \A x \in Measured : f[x] = Overlay(k, x, k[x])
        BY <4>1 DEF Measured
      <4>4. \A x \in Measured : n[x] = k[x] /\ n.pend[x] \subseteq k.pend[x]
        BY <4>1 DEF Measured, Axes
      <4>5. /\ Lawful(p, n, f)
            /\ \A q \in CalServers \ {p} : \A w \in Memories : Lawful(q, w, side) => Lawful(q, w, f)
        BY <2>2, <2>4, <3>3, <4>1, <4>2, <4>3, <4>4, SavedLawful
      <4>6. \A q \in CalServers : mem[q] \in Memories
        BY DEF CalibrationInv, CalibrationTypes
      <4> QED
        BY <2>1, <2>6, <3>1, <4>1, <4>5, <4>6
    <3> QED
      BY <3>4, <3>5
  <2> QED
    BY <2>1, <2>7, <2>8, <2>9, <2>10 DEF CalibrationInv
<1> QED
  BY <1>1, <1>2

\* A wipe's commit begins the agent's next corpus.
LEMMA WipesCounted ==
  ASSUME CalibrationInv, NEW p \in CalServers, NEW a \in CalAgents, WipeRows(p, a)
  PROVE  CalibrationInv'
<1>1. /\ epoch' = [epoch EXCEPT ![a] = epoch[a] + 1] /\ wiping' = wiping \cup {<<p, a>>}
      /\ UNCHANGED <<side, mem, inFlight, lost>>
  BY DEF WipeRows
<1>2. \A b \in CalAgents : epoch[b] \in Nat /\ epoch'[b] = IF b = a THEN epoch[b] + 1 ELSE epoch[b]
  BY <1>1 DEF CalibrationInv, CalibrationTypes
<1>3. CalibrationTypes'
  BY <1>1, <1>2 DEF CalibrationInv, CalibrationTypes
<1>4. PurgesCounted(wiping, epoch)'
  <2> SUFFICES ASSUME NEW q \in CalServers, NEW b \in CalAgents
               PROVE  /\ mem[q].purges[b] <= epoch'[b]
                      /\ <<q, b>> \in wiping' => mem[q].purges[b] + 1 <= epoch'[b]
    BY <1>1 DEF PurgesCounted
  <2>1. /\ mem[q].purges[b] <= epoch[b]
        /\ <<q, b>> \in wiping => mem[q].purges[b] + 1 <= epoch[b]
    BY DEF CalibrationInv, PurgesCounted
  <2>2. mem[q].purges[b] \in Nat
    BY DEF CalibrationInv, CalibrationTypes, Memories
  <2>3. <<q, b>> \in wiping' => <<q, b>> \in wiping \/ b = a
    BY <1>1
  <2> QED
    BY <1>2, <2>1, <2>2, <2>3
<1> QED
  BY <1>1, <1>3, <1>4 DEF CalibrationInv, CallsStamped

\* What a purge leaves of memory m of process p, and of the sidecar.
PurgeLeaves(m, a, n, f) ==
  /\ n \in Memories /\ f \in Sidecars /\ f.kind = side.kind
  /\ \A b \in CalAgents : n.purges[b] = IF b = a THEN m.purges[b] + 1 ELSE m.purges[b]
  /\ \A x \in Axes, s \in Targets :
       /\ n[x][s] = IF s = a THEN None_ ELSE m[x][s]
       /\ f[x][s] = side[x][s] \/ (f[x][s] = None_ /\ s = a)
       /\ s # a => (s \in n.pend[x] <=> s \in m.pend[x])
       /\ a \in n.pend[x] \/ f[x][a] = None_
  /\ \A x \in Axes : n.own[x] = m.own[x] \cup {a} /\ n.pend[x] \subseteq m.pend[x] \cup {a}

LEMMA PurgeShape ==
  ASSUME CalibrationInv, NEW p \in CalServers, NEW a \in CalAgents, NEW saved \in BOOLEAN, PurgeCalibration(p, a, saved)
  PROVE  \E n, f : /\ PurgeLeaves(mem[p], a, n, f) /\ side' = f /\ mem' = [mem EXCEPT ![p] = n]
                   /\ <<p, a>> \in wiping /\ wiping' = wiping \ {<<p, a>>}
                   /\ UNCHANGED <<inFlight, epoch, lost>>
<1>1. PICK m, t, g, b, u, o, d :
        /\ m = mem[p]
        /\ t = [m.thr EXCEPT ![a] = None_] /\ g = [m.gate EXCEPT ![a] = None_] /\ b = [m.beta EXCEPT ![a] = None_]
        /\ u = [m.purges EXCEPT ![a] = m.purges[a] + 1]
        /\ o = [x \in Axes |-> m.own[x] \cup {a}] /\ d = [x \in Axes |-> m.pend[x] \cup {a}]
  OBVIOUS
<1>2. m \in Memories /\ side \in Sidecars /\ a \in Targets
  BY <1>1 DEF CalibrationInv, CalibrationTypes, Targets
<1>3. /\ m.thr \in [Targets -> Thresholds] /\ m.gate \in [Targets -> Gates] /\ m.beta \in [Targets -> Precisions]
      /\ m.own \in [Axes -> SUBSET Targets] /\ m.pend \in [Axes -> SUBSET Targets] /\ m.purges \in [CalAgents -> Nat]
  BY <1>2 DEF Memories
<1>4. /\ t \in [Targets -> Thresholds] /\ g \in [Targets -> Gates] /\ b \in [Targets -> Precisions]
      /\ o \in [Axes -> SUBSET Targets] /\ d \in [Axes -> SUBSET Targets] /\ u \in [CalAgents -> Nat]
      /\ \A s \in Targets : /\ t[s] = IF s = a THEN None_ ELSE m.thr[s]
                            /\ g[s] = IF s = a THEN None_ ELSE m.gate[s]
                            /\ b[s] = IF s = a THEN None_ ELSE m.beta[s]
      /\ \A c \in CalAgents : u[c] = IF c = a THEN m.purges[c] + 1 ELSE m.purges[c]
  BY <1>1, <1>2, <1>3 DEF Thresholds, Gates, Precisions
<1>5. PICK e, k, w, z :
        /\ e = Without(mem[p], a) /\ k = [e EXCEPT !.purges[a] = e.purges[a] + 1]
        /\ w = Changed(k, Axes, a)
        /\ z = [w EXCEPT !.pend = [x \in Axes |-> w.pend[x] \ {a}]]
  OBVIOUS
<1>6. /\ m = [thr |-> m.thr, gate |-> m.gate, beta |-> m.beta, own |-> m.own, pend |-> m.pend, purges |-> m.purges, guarded |-> m.guarded]
      /\ e = [m EXCEPT !.thr = t, !.gate = g, !.beta = b]
  <2>1. m = [thr |-> m.thr, gate |-> m.gate, beta |-> m.beta, own |-> m.own, pend |-> m.pend, purges |-> m.purges, guarded |-> m.guarded]
    BY <1>2 DEF Memories
  <2>2. e = [m EXCEPT !.thr[a] = None_, !.gate[a] = None_, !.beta[a] = None_]
    BY <1>1, <1>5 DEF Without
  <2>3. e = [m EXCEPT !.thr = [m.thr EXCEPT ![a] = None_], !.gate = [m.gate EXCEPT ![a] = None_], !.beta = [m.beta EXCEPT ![a] = None_]]
    BY <2>1, <2>2
  <2> QED
    BY <1>1, <2>1, <2>3
<1>7. /\ k \in Memories /\ k.thr = t /\ k.gate = g /\ k.beta = b /\ k.purges = u
      /\ k.own = m.own /\ k.pend = m.pend
  <2>1. e = [thr |-> t, gate |-> g, beta |-> b, own |-> m.own, pend |-> m.pend, purges |-> m.purges, guarded |-> m.guarded]
    BY <1>6
  <2>2. k = [thr |-> t, gate |-> g, beta |-> b, own |-> m.own, pend |-> m.pend, purges |-> u, guarded |-> m.guarded]
    <3>1. e.purges = m.purges
      BY <2>1
    <3>2. k = [e EXCEPT !.purges = u]
      BY <1>1, <1>5, <3>1
    <3> QED
      BY <2>1, <3>2
  <2> QED
    BY <1>2, <1>3, <1>4, <2>2 DEF Memories
<1>8. w = [k EXCEPT !.own = o, !.pend = d]
  BY <1>1, <1>5, <1>7 DEF Changed
<1>9. /\ w \in Memories /\ w.thr = t /\ w.gate = g /\ w.beta = b /\ w.purges = u /\ w.own = o /\ w.pend = d
  BY <1>4, <1>7, <1>8 DEF Memories
<1>10. /\ z \in Memories /\ z.thr = t /\ z.gate = g /\ z.beta = b /\ z.purges = u /\ z.own = o
       /\ \A x \in Axes : z.pend[x] = d[x] \ {a}
  <2>1. PICK h : h = [x \in Axes |-> w.pend[x] \ {a}]
    OBVIOUS
  <2>2. z = [w EXCEPT !.pend = h] /\ h \in [Axes -> SUBSET Targets] /\ \A x \in Axes : h[x] = d[x] \ {a}
    BY <1>4, <1>5, <1>9, <2>1
  <2> QED
    BY <1>9, <2>2 DEF Memories
<1> DEFINE readable == side.kind \in {"good", "stale"}
           rewrites == readable /\ \E x \in Axes : mem[p][x][a] # None_ \/ (readable /\ side[x][a] # None_)
<1>12. PICK F : F = Without(side, a)
  OBVIOUS
<1>13. F \in Sidecars /\ F.kind = side.kind /\ \A x \in Axes, s \in Targets : F[x][s] = IF s = a THEN None_ ELSE side[x][s]
  <2>1. PICK T, G, B : /\ T = [side.thr EXCEPT ![a] = None_] /\ G = [side.gate EXCEPT ![a] = None_]
                       /\ B = [side.beta EXCEPT ![a] = None_]
    OBVIOUS
  <2>2. side.thr \in [Targets -> Thresholds] /\ side.gate \in [Targets -> Gates] /\ side.beta \in [Targets -> Precisions]
    BY <1>2 DEF Sidecars
  <2>3. /\ T \in [Targets -> Thresholds] /\ G \in [Targets -> Gates] /\ B \in [Targets -> Precisions]
        /\ \A s \in Targets : /\ T[s] = IF s = a THEN None_ ELSE side.thr[s]
                              /\ G[s] = IF s = a THEN None_ ELSE side.gate[s]
                              /\ B[s] = IF s = a THEN None_ ELSE side.beta[s]
    BY <1>2, <2>1, <2>2 DEF Thresholds, Gates, Precisions
  <2>4. F = [side EXCEPT !.thr = T, !.gate = G, !.beta = B]
    BY <1>2, <1>12, <2>1 DEF Without, Sidecars
  <2>5. F \in Sidecars /\ F.kind = side.kind /\ F.thr = T /\ F.gate = G /\ F.beta = B
    BY <1>2, <2>3, <2>4 DEF Sidecars
  <2> QED
    BY <2>3, <2>5 DEF Axes
<1>14. PICK n, f : /\ n = IF rewrites /\ saved THEN z ELSE w
                   /\ f = IF rewrites /\ saved THEN F ELSE side
  OBVIOUS
<1>15. /\ side' = f /\ mem' = [mem EXCEPT ![p] = n]
       /\ <<p, a>> \in wiping /\ wiping' = wiping \ {<<p, a>>} /\ UNCHANGED <<inFlight, epoch, lost>>
  <2>1. w = Changed([Without(mem[p], a) EXCEPT !.purges[a] = @ + 1], Axes, a)
    BY <1>5
  <2>2. <<p, a>> \in wiping /\ wiping' = wiping \ {<<p, a>>} /\ UNCHANGED <<inFlight, epoch, lost>>
    BY DEF PurgeCalibration
  <2>3. side' = IF rewrites /\ saved THEN F ELSE side
    BY <1>12 DEF PurgeCalibration
  <2>4. mem' = [mem EXCEPT ![p] = IF rewrites /\ saved THEN z ELSE w]
    BY <1>5, <2>1 DEF PurgeCalibration
  <2> QED
    BY <1>14, <2>2, <2>3, <2>4
<1> HIDE DEF rewrites, readable
<1>16. PurgeLeaves(m, a, n, f)
  <2>1. /\ n \in Memories /\ n.thr = t /\ n.gate = g /\ n.beta = b /\ n.purges = u /\ n.own = o
        /\ \A x \in Axes : n.pend[x] = IF rewrites /\ saved THEN d[x] \ {a} ELSE d[x]
    BY <1>9, <1>10, <1>14
  <2>2. /\ f \in Sidecars /\ f.kind = side.kind
        /\ \A x \in Axes, s \in Targets : f[x][s] = IF rewrites /\ saved /\ s = a THEN None_ ELSE side[x][s]
    BY <1>2, <1>13, <1>14
  <2>3. \A c \in CalAgents : n.purges[c] = IF c = a THEN m.purges[c] + 1 ELSE m.purges[c]
    BY <1>4, <2>1
  <2>4. \A x \in Axes, s \in Targets : n[x][s] = IF s = a THEN None_ ELSE m[x][s]
    BY <1>4, <2>1 DEF Axes
  <2>5. \A x \in Axes : d[x] = m.pend[x] \cup {a} /\ n.own[x] = m.own[x] \cup {a}
    BY <1>1, <2>1
  <2>6. ASSUME NEW x \in Axes
        PROVE  a \in n.pend[x] \/ f[x][a] = None_
    <3>1. CASE rewrites /\ saved
      BY <1>2, <2>2, <3>1
    <3>2. CASE ~(rewrites /\ saved)
      BY <2>1, <2>5, <3>2
    <3> QED
      BY <3>1, <3>2
  <2>7. ASSUME NEW x \in Axes
        PROVE  /\ n.pend[x] \subseteq m.pend[x] \cup {a}
               /\ \A s \in Targets : s # a => (s \in n.pend[x] <=> s \in m.pend[x])
    BY <2>1, <2>5
  <2> QED
    <3>1. ASSUME NEW x \in Axes, NEW s \in Targets PROVE f[x][s] = side[x][s] \/ (f[x][s] = None_ /\ s = a)
      <4>1. CASE rewrites /\ saved /\ s = a
        BY <2>2, <4>1
      <4>2. CASE ~(rewrites /\ saved /\ s = a)
        BY <2>2, <4>2
      <4> QED
        BY <4>1, <4>2
    <3>2. n \in Memories /\ f \in Sidecars /\ f.kind = side.kind
      BY <2>1, <2>2
    <3>3. \A x \in Axes, s \in Targets :
            /\ n[x][s] = IF s = a THEN None_ ELSE m[x][s]
            /\ f[x][s] = side[x][s] \/ (f[x][s] = None_ /\ s = a)
            /\ s # a => (s \in n.pend[x] <=> s \in m.pend[x])
            /\ a \in n.pend[x] \/ f[x][a] = None_
      BY <2>4, <2>6, <2>7, <3>1
    <3>4. \A x \in Axes : n.own[x] = m.own[x] \cup {a} /\ n.pend[x] \subseteq m.pend[x] \cup {a}
      BY <2>5, <2>7
    <3> QED
      BY <2>3, <3>2, <3>3, <3>4 DEF PurgeLeaves
<1> QED
  BY <1>1, <1>15, <1>16

\* A purge keeps the invariant.
LEMMA PurgesLawfully ==
  ASSUME CalibrationInv, NEW p \in CalServers, NEW a \in CalAgents, NEW saved \in BOOLEAN, PurgeCalibration(p, a, saved)
  PROVE  CalibrationInv'
<1>1. PICK n, f : /\ PurgeLeaves(mem[p], a, n, f) /\ side' = f /\ mem' = [mem EXCEPT ![p] = n]
                  /\ <<p, a>> \in wiping /\ wiping' = wiping \ {<<p, a>>}
                  /\ UNCHANGED <<inFlight, epoch, lost>>
  BY PurgeShape
<1>2. /\ mem[p] \in Memories /\ Owned(mem[p]) /\ a \in Targets /\ n \in Memories /\ f \in Sidecars
      /\ \A q \in CalServers : mem'[q] = IF q = p THEN n ELSE mem[q]
  BY <1>1 DEF CalibrationInv, CalibrationTypes, PurgeLeaves, Targets
<1>3. CalibrationTypes'
  BY <1>1, <1>2 DEF CalibrationInv, CalibrationTypes
<1>4. Owned(n)
  <2> SUFFICES ASSUME NEW x \in Axes
               PROVE  n.pend[x] \subseteq n.own[x] /\ \A s \in Targets : n[x][s] # None_ => s \in n.own[x]
    BY DEF Owned
  <2>1. /\ n.own[x] = mem[p].own[x] \cup {a} /\ n.pend[x] \subseteq mem[p].pend[x] \cup {a}
        /\ \A s \in Targets : n[x][s] = IF s = a THEN None_ ELSE mem[p][x][s]
    BY <1>1 DEF PurgeLeaves
  <2>2. mem[p].pend[x] \subseteq mem[p].own[x] /\ \A s \in Targets : mem[p][x][s] # None_ => s \in mem[p].own[x]
    BY <1>2 DEF Owned
  <2> QED
    BY <2>1, <2>2
<1>5. PurgesCounted(wiping, epoch)'
  <2> SUFFICES ASSUME NEW q \in CalServers, NEW b \in CalAgents
               PROVE  /\ mem'[q].purges[b] <= epoch[b]
                      /\ <<q, b>> \in wiping' => mem'[q].purges[b] + 1 <= epoch[b]
    BY <1>1 DEF PurgesCounted
  <2>1. /\ mem[q].purges[b] <= epoch[b]
        /\ <<q, b>> \in wiping => mem[q].purges[b] + 1 <= epoch[b]
    BY DEF CalibrationInv, PurgesCounted
  <2>2. CASE q = p /\ b = a
    <3>1. mem'[q].purges[b] = mem[q].purges[b] + 1
      BY <1>1, <1>2, <2>2 DEF PurgeLeaves
    <3>2. <<q, b>> \in wiping /\ <<q, b>> \notin wiping'
      BY <1>1, <2>2
    <3> QED
      BY <2>1, <3>1, <3>2
  <2>3. CASE ~(q = p /\ b = a)
    <3>1. mem'[q].purges[b] = mem[q].purges[b]
      BY <1>1, <1>2, <2>3 DEF PurgeLeaves
    <3> QED
      BY <1>1, <2>1, <3>1
  <2> QED
    BY <2>2, <2>3
<1>6. CallsStamped'
  BY <1>1 DEF CalibrationInv, CallsStamped
<1>7. ASSUME ~lost
      PROVE  side'.kind # "unreadable" /\ \A q \in CalServers : Lawful(q, mem'[q], side')
  <2>1. side.kind # "unreadable" /\ f.kind = side.kind
    BY <1>1, <1>7 DEF CalibrationInv, PurgeLeaves
  <2>2. ASSUME NEW q \in CalServers, NEW b \in CalAgents, NEW x \in Measured
        PROVE  /\ ~Old(mem'[q][x][b], q, mem'[q].purges[b])
               /\ Old(f[x][b], q, mem'[q].purges[b]) => b \in mem'[q].pend[x]
               /\ mem'[q][x][b] # None_ /\ mem'[q][x][b].by # q => b \notin mem'[q].pend[x] /\ f.kind = "good"
    <3>1. x \in Axes /\ b \in Targets
      BY DEF Measured, Axes, Targets
    <3>2. /\ ~Old(mem[q][x][b], q, mem[q].purges[b])
          /\ Old(side[x][b], q, mem[q].purges[b]) => b \in mem[q].pend[x]
          /\ mem[q][x][b] # None_ /\ mem[q][x][b].by # q => b \notin mem[q].pend[x] /\ side.kind = "good"
      BY <1>7 DEF CalibrationInv, Lawful
    <3>3. f[x][b] = side[x][b] \/ (f[x][b] = None_ /\ b = a)
      BY <1>1, <3>1 DEF PurgeLeaves
    <3>4. CASE q # p
      BY <1>2, <2>1, <3>2, <3>3, <3>4 DEF Old
    <3>5. CASE q = p /\ b # a
      <4>1. /\ n[x][b] = mem[p][x][b] /\ (b \in n.pend[x] <=> b \in mem[p].pend[x])
            /\ n.purges[b] = mem[p].purges[b]
        BY <1>1, <3>1, <3>5 DEF PurgeLeaves
      <4> QED
        BY <1>2, <2>1, <3>2, <3>3, <3>5, <4>1
    <3>6. CASE q = p /\ b = a
      <4>1. n[x][b] = None_ /\ (b \in n.pend[x] \/ f[x][b] = None_)
        BY <1>1, <3>1, <3>6 DEF PurgeLeaves
      <4> QED
        BY <1>2, <3>6, <4>1 DEF Old
    <3> QED
      BY <3>4, <3>5, <3>6
  <2> QED
    BY <1>1, <2>1, <2>2 DEF Lawful
<1> QED
  BY <1>1, <1>2, <1>3, <1>4, <1>5, <1>6, <1>7 DEF CalibrationInv


\* What a process that starts has in memory is lawful beside any file.
LEMMA BootedLawful ==
  ASSUME NEW p \in CalServers, NEW f \in Sidecars
  PROVE  /\ Booted \in Memories /\ Owned(Booted) /\ Lawful(p, Booted, f)
         /\ \A a \in CalAgents : Booted.purges[a] = 0
<1>1. /\ Booted.thr = NoEntries /\ Booted.gate = NoEntries /\ Booted.beta = NoEntries
      /\ Booted.own = Nobody /\ Booted.pend = Nobody /\ Booted.purges = [a \in CalAgents |-> 0]
      /\ Booted.guarded = FALSE
      /\ Booted = [thr |-> NoEntries, gate |-> NoEntries, beta |-> NoEntries, own |-> Nobody, pend |-> Nobody,
                   purges |-> [a \in CalAgents |-> 0], guarded |-> FALSE]
  BY DEF Booted
<1>2. /\ NoEntries \in [Targets -> Thresholds] /\ NoEntries \in [Targets -> Gates] /\ NoEntries \in [Targets -> Precisions]
      /\ \A s \in Targets : NoEntries[s] = None_
      /\ Nobody \in [Axes -> SUBSET Targets] /\ \A x \in Axes : Nobody[x] = {}
      /\ [a \in CalAgents |-> 0] \in [CalAgents -> Nat]
  BY DEF NoEntries, Nobody, Thresholds, Gates, Precisions
<1>3. Booted \in Memories
  BY <1>1, <1>2 DEF Memories
<1>4. Owned(Booted)
  BY <1>1, <1>2 DEF Owned, Axes
<1>5. ASSUME NEW a \in CalAgents, NEW x \in Measured
      PROVE  Booted[x][a] = None_ /\ ~Old(f[x][a], p, Booted.purges[a])
  <2>1. x \in {"thr", "gate"} /\ a \in Targets /\ Booted.purges[a] = 0
    BY <1>1 DEF Measured, Targets
  <2>2. f[x][a] # None_ => f[x][a].epoch \in Nat
    BY <2>1 DEF Sidecars, Thresholds, Gates
  <2> QED
    BY <1>1, <1>2, <2>1, <2>2 DEF Old
<1> QED
  BY <1>1, <1>3, <1>4, <1>5 DEF Lawful, Old

\* Processes that end take their calls and wipes with them.
LEMMA FallsLawfully ==
  ASSUME CalibrationInv, NEW P \in SUBSET CalServers, Fallen(P), side' \in Sidecars,
         epoch' = epoch, lost' = lost,
         side' = side \/ (P = CalServers /\ side'.kind # "unreadable")
  PROVE  CalibrationInv'
<1>1. /\ \A p \in CalServers : mem'[p] = IF p \in P THEN Booted ELSE mem[p]
      /\ \A c \in Calls_ : inFlight'[c] \in {inFlight[c], AtEase}
      /\ \A w : w \in wiping' => w \in wiping /\ w[1] \notin P
  BY DEF Fallen
<1>2. \A p \in CalServers : mem[p] \in Memories /\ Owned(mem[p])
  BY DEF CalibrationInv, CalibrationTypes
<1>3. \A p \in CalServers : mem'[p] \in Memories /\ Owned(mem'[p])
  BY <1>1, <1>2, BootedLawful
<1>4. CalibrationTypes'
  <2>1. mem' \in [CalServers -> Memories]
    BY <1>3 DEF Fallen
  <2>2. inFlight' \in [Calls_ -> Underway \cup {AtEase}]
    BY <1>1 DEF Fallen, CalibrationInv, CalibrationTypes
  <2> QED
    BY <2>1, <2>2 DEF CalibrationInv, CalibrationTypes
<1>5. PurgesCounted(wiping, epoch)'
  <2> SUFFICES ASSUME NEW q \in CalServers, NEW b \in CalAgents
               PROVE  /\ mem'[q].purges[b] <= epoch[b]
                      /\ <<q, b>> \in wiping' => mem'[q].purges[b] + 1 <= epoch[b]
    BY DEF PurgesCounted
  <2>1. /\ mem[q].purges[b] <= epoch[b] /\ epoch[b] \in Nat
        /\ <<q, b>> \in wiping => mem[q].purges[b] + 1 <= epoch[b]
    BY DEF CalibrationInv, CalibrationTypes, PurgesCounted
  <2>2. CASE q \in P
    <3>1. mem'[q].purges[b] = 0 /\ <<q, b>> \notin wiping'
      BY <1>1, <2>2, BootedLawful
    <3> QED
      BY <2>1, <3>1
  <2>3. CASE q \notin P
    BY <1>1, <2>1, <2>3
  <2> QED
    BY <2>2, <2>3
<1>6. CallsStamped'
  BY <1>1 DEF CalibrationInv, CallsStamped
<1>7. ASSUME ~lost
      PROVE  side'.kind # "unreadable" /\ \A q \in CalServers : Lawful(q, mem'[q], side')
  <2>1. side'.kind # "unreadable" /\ \A q \in CalServers : Lawful(q, mem[q], side)
    BY <1>7 DEF CalibrationInv
  <2>2. ASSUME NEW q \in CalServers PROVE Lawful(q, mem'[q], side')
    <3>1. CASE q \in P
      BY <1>1, <3>1, BootedLawful
    <3>2. CASE q \notin P
      BY <1>1, <2>1, <3>2
    <3> QED
      BY <3>1, <3>2
  <2> QED
    BY <2>1, <2>2
<1> QED
  BY <1>3, <1>4, <1>5, <1>6, <1>7 DEF CalibrationInv

\* A restored file is of no corpus the process has purged since it started.
LEMMA RestoresLawfully ==
  ASSUME CalibrationInv, NEW p \in CalServers, RestoreCalibration(p)
  PROVE  CalibrationInv'
<1>1. PICK m : m = mem[p]
  OBVIOUS
<1>2. /\ m \in Memories /\ side \in Sidecars /\ Owned(m)
  BY <1>1 DEF CalibrationInv, CalibrationTypes
<1>3. PICK n : n = IF side.kind \in {"good", "stale"} THEN Restored(m) ELSE [m EXCEPT !.guarded = TRUE]
  OBVIOUS
<1>4. mem' = [mem EXCEPT ![p] = n] /\ UNCHANGED <<side, inFlight, epoch, wiping, lost>>
  BY <1>1, <1>3 DEF RestoreCalibration
<1>5. /\ n \in Memories /\ n.pend = m.pend /\ n.purges = m.purges
      /\ \A x \in Axes : m.own[x] \subseteq n.own[x]
      /\ \A x \in Axes, s \in Targets :
           n[x][s] = m[x][s] \/ /\ n[x][s] = side[x][s] /\ s \notin m.pend[x] /\ s \in n.own[x]
                                /\ x \in Measured => side.kind = "good"
  <2>1. CASE side.kind \notin {"good", "stale"}
    <3>1. n = [m EXCEPT !.guarded = TRUE]
      BY <1>3, <2>1
    <3>2. /\ n \in Memories /\ n.thr = m.thr /\ n.gate = m.gate /\ n.beta = m.beta /\ n.own = m.own
          /\ n.pend = m.pend /\ n.purges = m.purges
      BY <1>2, <3>1 DEF Memories
    <3> QED
      BY <3>2 DEF Axes
  <2>2. CASE side.kind \in {"good", "stale"}
    <3>1. PICK t, g, b, o :
            /\ t = IF side.kind = "good"
                   THEN [s \in Targets |-> IF s \notin m.pend["thr"] /\ side["thr"][s] # None_ THEN side["thr"][s] ELSE m["thr"][s]]
                   ELSE m.thr
            /\ g = IF side.kind = "good"
                   THEN [s \in Targets |-> IF s \notin m.pend["gate"] /\ side["gate"][s] # None_ THEN side["gate"][s] ELSE m["gate"][s]]
                   ELSE m.gate
            /\ b = [s \in Targets |-> IF s \notin m.pend["beta"] /\ side["beta"][s] # None_ THEN side["beta"][s] ELSE m["beta"][s]]
            /\ o = [x \in Axes |-> IF x = "beta" THEN m.own[x] \cup {s \in Targets : side[x][s] # None_}
                                   ELSE IF side.kind = "good"
                                   THEN m.own[x] \cup {s \in Targets : side[x][s] # None_} \cup (IF x = "thr" THEN {GlobalScope} ELSE {})
                                   ELSE m.own[x]]
      OBVIOUS
    <3>2. n = [m EXCEPT !.guarded = TRUE, !.beta = b, !.thr = t, !.gate = g, !.own = o]
      BY <1>3, <2>2, <3>1 DEF Restored
    <3>3. /\ m.thr \in [Targets -> Thresholds] /\ m.gate \in [Targets -> Gates] /\ m.beta \in [Targets -> Precisions]
          /\ side.thr \in [Targets -> Thresholds] /\ side.gate \in [Targets -> Gates] /\ side.beta \in [Targets -> Precisions]
          /\ m.own \in [Axes -> SUBSET Targets]
      BY <1>2 DEF Memories, Sidecars
    <3>4. t \in [Targets -> Thresholds] /\ g \in [Targets -> Gates] /\ b \in [Targets -> Precisions]
      BY <3>1, <3>3
    <3>5. o \in [Axes -> SUBSET Targets]
      BY <3>1, <3>3 DEF Targets
    <3>6. /\ n \in Memories /\ n.thr = t /\ n.gate = g /\ n.beta = b /\ n.own = o
          /\ n.pend = m.pend /\ n.purges = m.purges
      BY <1>2, <3>2, <3>4, <3>5 DEF Memories
    <3>7. ASSUME NEW x \in Axes, NEW s \in Targets
          PROVE  n[x][s] = m[x][s] \/ /\ n[x][s] = side[x][s] /\ s \notin m.pend[x] /\ s \in n.own[x]
                                      /\ x \in Measured => side.kind = "good"
      <4>1. CASE x = "thr"
        BY <3>1, <3>6, <4>1
      <4>2. CASE x = "gate"
        BY <3>1, <3>6, <4>2
      <4>3. CASE x = "beta"
        BY <3>1, <3>6, <4>3 DEF Measured
      <4> QED
        BY <4>1, <4>2, <4>3 DEF Axes
    <3>8. \A x \in Axes : m.own[x] \subseteq n.own[x]
      BY <3>1, <3>6
    <3> QED
      BY <3>6, <3>7, <3>8
  <2> QED
    BY <2>1, <2>2
<1>6. Owned(n)
  <2> SUFFICES ASSUME NEW x \in Axes
               PROVE  n.pend[x] \subseteq n.own[x] /\ \A s \in Targets : n[x][s] # None_ => s \in n.own[x]
    BY DEF Owned
  <2>1. m.pend[x] \subseteq m.own[x] /\ \A s \in Targets : m[x][s] # None_ => s \in m.own[x]
    BY <1>2 DEF Owned
  <2> QED
    BY <1>5, <2>1
<1>7. \A q \in CalServers : mem'[q] = IF q = p THEN n ELSE mem[q]
  BY <1>4 DEF CalibrationInv, CalibrationTypes
<1>8. CalibrationTypes' /\ CallsStamped'
  BY <1>4, <1>5 DEF CalibrationInv, CalibrationTypes, CallsStamped
<1>9. PurgesCounted(wiping, epoch)'
  <2>1. \A q \in CalServers : mem'[q].purges = mem[q].purges
    BY <1>1, <1>5, <1>7
  <2> QED
    BY <1>4, <2>1 DEF CalibrationInv, PurgesCounted
<1>10. ASSUME Lawful(p, m, side) PROVE Lawful(p, n, side)
  <2> SUFFICES ASSUME NEW b \in CalAgents, NEW y \in Measured
               PROVE  /\ ~Old(n[y][b], p, n.purges[b])
                      /\ Old(side[y][b], p, n.purges[b]) => b \in n.pend[y]
                      /\ n[y][b] # None_ /\ n[y][b].by # p => b \notin n.pend[y] /\ side.kind = "good"
    BY DEF Lawful
  <2>1. y \in Axes /\ b \in Targets
    BY DEF Measured, Axes, Targets
  <2>2. /\ ~Old(m[y][b], p, m.purges[b])
        /\ Old(side[y][b], p, m.purges[b]) => b \in m.pend[y]
        /\ m[y][b] # None_ /\ m[y][b].by # p => b \notin m.pend[y] /\ side.kind = "good"
    BY <1>10 DEF Lawful
  <2>3. n[y][b] = m[y][b] \/ (n[y][b] = side[y][b] /\ b \notin m.pend[y] /\ side.kind = "good")
    BY <1>5, <2>1
  <2> QED
    BY <1>5, <2>2, <2>3
<1>11. ASSUME ~lost
       PROVE  side'.kind # "unreadable" /\ \A q \in CalServers : Lawful(q, mem'[q], side')
  BY <1>1, <1>4, <1>7, <1>10, <1>11 DEF CalibrationInv
<1>12. \A q \in CalServers : Owned(mem'[q])
  BY <1>6, <1>7 DEF CalibrationInv
<1> QED
  BY <1>4, <1>8, <1>9, <1>11, <1>12 DEF CalibrationInv

\* Every step keeps the invariant.
LEMMA CalibrationStepHolds == CalibrationInv /\ [CalibrationNext]_calibrationVars => CalibrationInv'
<1> SUFFICES ASSUME CalibrationInv, [CalibrationNext]_calibrationVars PROVE CalibrationInv'
  OBVIOUS
<1>1. ASSUME NEW c \in Calls_, NEW p \in CalServers, NEW a \in Targets, NEW ov \in Betas \cup {None_, Current_},
             BeginCalibration(c, p, a, ov)
      PROVE  CalibrationInv'
  BY <1>1, BeginsStamped
<1>2. ASSUME NEW c \in Calls_, ApplyThreshold(c) PROVE CalibrationInv'
  BY <1>2, AppliesLawfully
<1>3. ASSUME NEW c \in Calls_, NEW measured \in BOOLEAN, NEW lock \in BOOLEAN, NEW saved \in BOOLEAN,
             Save(c, measured, lock, saved)
      PROVE  CalibrationInv'
  BY <1>3, SavesLawfully
<1>4. ASSUME NEW p \in CalServers, NEW a \in CalAgents, WipeRows(p, a) PROVE CalibrationInv'
  BY <1>4, WipesCounted
<1>5. ASSUME NEW p \in CalServers, NEW a \in CalAgents, NEW saved \in BOOLEAN, PurgeCalibration(p, a, saved)
      PROVE  CalibrationInv'
  BY <1>5, PurgesLawfully
<1>6. ASSUME NEW p \in CalServers, RestoreCalibration(p) PROVE CalibrationInv'
  BY <1>6, RestoresLawfully
<1>7. ASSUME NEW p \in CalServers, Reboot(p) PROVE CalibrationInv'
  <2>1. Fallen({p}) /\ side' = side /\ epoch' = epoch /\ lost' = lost
    BY <1>7 DEF Reboot
  <2>2. {p} \in SUBSET CalServers /\ side' \in Sidecars
    BY <2>1 DEF CalibrationInv, CalibrationTypes
  <2> QED
    BY <2>1, <2>2, FallsLawfully
<1>8. ASSUME Upgrade PROVE CalibrationInv'
  <2>1. Fallen(CalServers) /\ side' = [side EXCEPT !.kind = "stale"] /\ epoch' = epoch /\ lost' = lost
    BY <1>8 DEF Upgrade
  <2>2. side' \in Sidecars /\ side'.kind # "unreadable"
    BY <2>1 DEF CalibrationInv, CalibrationTypes, Sidecars
  <2> QED
    BY <2>1, <2>2, FallsLawfully
<1>9. ASSUME DamageSidecar PROVE CalibrationInv'
  <2>1. /\ lost' /\ UNCHANGED <<mem, inFlight, epoch, wiping>>
        /\ side' = [kind |-> "unreadable", thr |-> NoEntries, gate |-> NoEntries, beta |-> NoEntries]
    BY <1>9 DEF DamageSidecar
  <2>2. NoEntries \in [Targets -> Thresholds] /\ NoEntries \in [Targets -> Gates] /\ NoEntries \in [Targets -> Precisions]
    BY DEF NoEntries, Thresholds, Gates, Precisions
  <2>3. side' \in Sidecars
    BY <2>1, <2>2 DEF Sidecars
  <2> QED
    BY <2>1, <2>3 DEF CalibrationInv, CalibrationTypes, PurgesCounted, CallsStamped
<1>10. CASE UNCHANGED calibrationVars
  BY <1>10 DEF calibrationVars, CalibrationInv, CalibrationTypes, PurgesCounted, CallsStamped
<1> QED
  BY <1>1, <1>2, <1>3, <1>4, <1>5, <1>6, <1>7, <1>8, <1>9, <1>10 DEF CalibrationNext

\* A refused save, a purge of another agent, a restart: an entry stays what it was.
LEMMA EntriesStay == CalibrationInv /\ [CalibrationNext]_calibrationVars => EntriesKept
<1> SUFFICES ASSUME CalibrationInv, [CalibrationNext]_calibrationVars, side.kind = "good", side'.kind = "good",
                    NEW x \in Axes, NEW s \in Targets, side[x][s] # None_, side'[x][s] # side[x][s]
             PROVE  \/ \E c \in Calls_ : SavedBy(c, x, s)
                    \/ \E p \in CalServers : <<p, s>> \in wiping \ wiping'
  BY DEF EntriesKept
<1>1. ASSUME NEW c \in Calls_, NEW measured \in BOOLEAN, NEW lock \in BOOLEAN, NEW saved \in BOOLEAN,
             Save(c, measured, lock, saved)
      PROVE  SavedBy(c, x, s)
  <2>1. ~PurgedMeanwhile(inFlight[c])
    BY <1>1 DEF Save
  <2>2. PICK p \in CalServers, a \in Targets, m \in Memories, k \in Memories, n \in Memories, f \in Sidecars :
           /\ p = inFlight[c].p /\ a = inFlight[c].a /\ inFlight[c].at = "save"
           /\ SaveLeaves(p, a, m, k, n, f) /\ side' = f
           /\ inFlight' = [inFlight EXCEPT ![c] = AtEase]
    BY <1>1, <2>1, SaveShape
  <2>3. inFlight'[c] = AtEase
    BY <2>2 DEF CalibrationInv, CalibrationTypes
  <2>4. ASSUME s # a, s \notin mem[p].pend[x] PROVE FALSE
    <3>1. /\ mem[p] \in Memories /\ side \in Sidecars
          /\ mem[p][x][s] # None_ => s \in mem[p].own[x]
      BY DEF CalibrationInv, CalibrationTypes, Owned
    <3>2. /\ m = RefreshedFrom(mem[p])
          /\ f.thr = Overlay(k, "thr", k.thr) /\ f.gate = Overlay(k, "gate", k.gate)
          /\ f.beta[s] = Overlay(k, "beta", k.beta)[s]
      BY <2>2, <2>4 DEF SaveLeaves
    <3>3. f[x][s] = Overlay(k, x, k[x])[s]
      BY <3>2 DEF Axes
    <3>4. f[x][s] = IF k[x][s] # None_ THEN k[x][s] ELSE IF s \notin k.own[x] THEN side[x][s] ELSE None_
      BY <3>1, <3>3, OverlayValue
    <3>5. k[x][s] = m[x][s] /\ (s \in k.own[x] <=> s \in m.own[x])
      <4>1. CASE k = m
        BY <4>1
      <4>2. CASE k # m
        <5>1. PICK v : Notes(m, k, "gate", a, v)
          BY <2>2, <4>2 DEF SaveLeaves
        <5>2. /\ k[x][s] = m[x][s]
              /\ k.own[x] = IF x = "gate" THEN m.own[x] \cup {a} ELSE m.own[x]
          BY <2>4, <5>1 DEF Notes
        <5> QED
          BY <2>4, <5>2
      <4> QED
        BY <4>1, <4>2
    <3>6. m.own = mem[p].own /\ (m[x][s] = side[x][s] \/ (m[x][s] = mem[p][x][s] /\ s \notin mem[p].own[x]))
      <4>1. /\ m.own = mem[p].own
            /\ \/ /\ m[x][s] = mem[p][x][s]
                  /\ side.kind = "good" /\ s \in mem[p].own[x] \ mem[p].pend[x] => s = GlobalScope /\ side[x][s] = None_
               \/ side.kind = "good" /\ s \in mem[p].own[x] \ mem[p].pend[x] /\ m[x][s] = side[x][s]
        <5>1. /\ RefreshedFrom(mem[p]).own = mem[p].own
              /\ \A y \in Axes, r \in Targets :
                   \/ /\ RefreshedFrom(mem[p])[y][r] = mem[p][y][r]
                      /\ side.kind = "good" /\ r \in mem[p].own[y] \ mem[p].pend[y] => r = GlobalScope /\ side[y][r] = None_
                   \/ side.kind = "good" /\ r \in mem[p].own[y] \ mem[p].pend[y] /\ RefreshedFrom(mem[p])[y][r] = side[y][r]
          BY <3>1, RefreshedKeeps
        <5> QED
          BY <3>2, <5>1
      <4> QED
        BY <2>4, <4>1
    <3> QED
      BY <2>2, <3>1, <3>4, <3>5, <3>6
  <2> QED
    BY <2>2, <2>3, <2>4 DEF SavedBy
<1>2. ASSUME NEW p \in CalServers, NEW a \in CalAgents, NEW saved \in BOOLEAN, PurgeCalibration(p, a, saved)
      PROVE  <<p, s>> \in wiping \ wiping'
  <2>1. PICK n, f : /\ PurgeLeaves(mem[p], a, n, f) /\ side' = f
                    /\ <<p, a>> \in wiping /\ wiping' = wiping \ {<<p, a>>}
    BY <1>2, PurgeShape
  <2>2. s = a
    BY <2>1 DEF PurgeLeaves
  <2> QED
    BY <2>1, <2>2
<1>3. ASSUME Upgrade PROVE FALSE
  BY <1>3 DEF Upgrade, CalibrationInv, CalibrationTypes, Sidecars
<1>4. ASSUME DamageSidecar PROVE FALSE
  BY <1>4 DEF DamageSidecar
<1>5. ASSUME NEW c \in Calls_, NEW p \in CalServers, NEW a \in Targets, NEW ov \in Betas \cup {None_, Current_},
             BeginCalibration(c, p, a, ov)
      PROVE  FALSE
  BY <1>5 DEF BeginCalibration
<1>6. ASSUME NEW c \in Calls_, ApplyThreshold(c) PROVE FALSE
  BY <1>6 DEF ApplyThreshold
<1>7. ASSUME NEW p \in CalServers, RestoreCalibration(p) \/ Reboot(p) PROVE FALSE
  BY <1>7 DEF RestoreCalibration, Reboot
<1>8. ASSUME NEW p \in CalServers, NEW a \in CalAgents, WipeRows(p, a) PROVE FALSE
  BY <1>8 DEF WipeRows
<1>9. ASSUME UNCHANGED calibrationVars PROVE FALSE
  BY <1>9 DEF calibrationVars
<1> QED
  BY <1>1, <1>2, <1>3, <1>4, <1>5, <1>6, <1>7, <1>8, <1>9 DEF CalibrationNext

\* However calibrations, precision changes, purges, saves that fail, restarts and other
\* versions interleave in any number of processes (admin_handlers.py, vector.py): nothing a
\* process measured on a corpus it has purged comes back, and no process deletes or reverts
\* what another one stored.
THEOREM SidecarStaysSafe == CalibrationSpec => SidecarIsSafe
<1>1. CalibrationInit => CalibrationInv
  BY CalibrationStarts
<1>2. CalibrationInv /\ [CalibrationNext]_calibrationVars => CalibrationInv'
  BY CalibrationStepHolds
<1>3. CalibrationInv /\ [CalibrationNext]_calibrationVars => [PurgesAreFinal' /\ EntriesKept]_calibrationVars
  <2> SUFFICES ASSUME CalibrationInv, CalibrationNext PROVE PurgesAreFinal' /\ EntriesKept
    OBVIOUS
  <2>1. CalibrationInv'
    BY CalibrationStepHolds
  <2>2. PurgesAreFinal'
    BY <2>1 DEF CalibrationInv, Lawful, PurgesAreFinal, Measured
  <2> QED
    BY <2>2, EntriesStay
<1> QED
  BY <1>1, <1>2, <1>3, PTL DEF CalibrationSpec, SidecarIsSafe

----------------------------------------------------------------------------
(* The stdio bridge.                                                       *)

USE ProxyAssumption

Owing    == [line : Nat, error : BOOLEAN, messages : Nat]
Receipts == [replies : Nat, errors : Nat]

ProxyTypes ==
  /\ stdin \in Seq(LineKinds) /\ lines \in Seq(LineKinds \ {"blank"})
  /\ closed \in BOOLEAN /\ session \in BOOLEAN
  /\ reader \in {"waits", "reads", "done"} /\ printer \in {"runs", "done", "dead"}
  /\ bridge \in {"loop", "gather", "closing", "exited"}
  /\ slots \in Nat /\ inbox \in Seq(Nat)
  /\ posted \subseteq Nat /\ IsFiniteSet(posted) /\ dropped \subseteq Nat
  /\ outbox \in Seq(Owing)
  /\ written \in Seq(Receipts) /\ Len(written) = Len(lines)

\* The lines not yet taken: what is in the queue but for the sentinel, which is last.
Marks   == IF reader = "done" /\ inbox # <<>> THEN 1 ELSE 0
Waiting == Len(inbox) - Marks
Taken   == Len(lines) - Waiting

\* They wait in their order, behind them the sentinel.
LinesInOrder ==
  /\ Waiting <= Len(lines)
  /\ \A n \in 1..Waiting : inbox[n] = Taken + n
  /\ Marks = 1 => inbox[Len(inbox)] = 0

\* Each line held has its slot, and the reader has one while it reads.
Held == Cardinality(posted) + Waiting + (IF reader = "reads" THEN 1 ELSE 0)

SlotsCounted ==
  /\ slots + Held <= MaxInflight
  /\ bridge = "loop" /\ reader # "done" => slots + Held = MaxInflight

\* The end comes in order: the sentinel of the lines, the forwards, that of the answers.
EndInOrder ==
  /\ printer = "done" => outbox = <<>> /\ bridge \in {"closing", "exited"}
  /\ bridge # "loop" /\ printer # "dead" => reader = "done" /\ inbox = <<>>
  /\ bridge \in {"closing", "exited"} => posted = {}
  /\ \A n \in DOMAIN outbox : outbox[n] = Sentinel => n = Len(outbox) /\ bridge \in {"closing", "exited"}

\* What is to be written is the outcome of a line that was taken, once.
QueuedOnce ==
  /\ posted \subseteq 1..Taken /\ dropped \subseteq 1..Taken
  /\ \A n \in DOMAIN outbox : outbox[n] # Sentinel =>
       /\ outbox[n].line \in (1..Taken) \ posted
       /\ [error |-> outbox[n].error, messages |-> outbox[n].messages] \in Outcomes(lines[outbox[n].line])
  /\ \A m, n \in DOMAIN outbox : outbox[m].line = outbox[n].line => m = n

Owed(l) == l > Taken \/ l \in posted \/ \E n \in DOMAIN outbox : outbox[n].line = l

\* A line is still owed all of its answer, or was answered.
AnsweredOrOwed ==
  \A l \in DOMAIN lines :
    /\ Owed(l) => written[l] = [replies |-> 0, errors |-> 0] /\ l \notin dropped
    /\ Owed(l) \/ printer = "dead" \/ AnsweredOnce(l)

ProxyInv == ProxyTypes /\ LinesInOrder /\ SlotsCounted /\ EndInOrder /\ QueuedOnce /\ AnsweredOrOwed

\* The numbers of a state.
LEMMA ProxyNumbers ==
  ASSUME ProxyTypes
  PROVE  /\ Marks \in {0, 1} /\ Len(inbox) \in Nat /\ Len(lines) \in Nat /\ Len(outbox) \in Nat
         /\ Waiting \in Nat /\ Taken \in Int /\ Taken <= Len(lines) /\ Cardinality(posted) \in Nat
         /\ Waiting = Len(inbox) - Marks /\ Taken = Len(lines) - Waiting
         /\ DOMAIN inbox = 1..Len(inbox) /\ DOMAIN lines = 1..Len(lines) /\ DOMAIN outbox = 1..Len(outbox)
<1>1. Len(inbox) \in Nat /\ Len(lines) \in Nat /\ Len(outbox) \in Nat /\ (inbox # <<>> => Len(inbox) > 0)
  BY DEF ProxyTypes
<1>2. Cardinality(posted) \in Nat
  BY FS_CardinalityType DEF ProxyTypes
<1>3. DOMAIN inbox = 1..Len(inbox) /\ DOMAIN lines = 1..Len(lines) /\ DOMAIN outbox = 1..Len(outbox)
  BY DEF ProxyTypes
<1> QED
  BY <1>1, <1>2, <1>3 DEF Marks, Waiting, Taken

LEMMA ProxyInvSuffices == ProxyInv => BridgeSound
<1> SUFFICES ASSUME ProxyInv PROVE BridgeSound
  OBVIOUS
<1> USE DEF ProxyInv
<1>0. ProxyTypes
  OBVIOUS
<1>1. {n \in DOMAIN inbox : inbox[n] # 0} = 1..Waiting
  BY <1>0, ProxyNumbers DEF LinesInOrder
<1>2. Cardinality({n \in DOMAIN inbox : inbox[n] # 0}) = Waiting
  <2>1. Waiting \in Nat
    BY <1>0, ProxyNumbers
  <2>2. Cardinality(1..Waiting) = IF 1 > Waiting THEN 0 ELSE Waiting - 1 + 1
    BY <2>1, FS_Interval
  <2>3. Cardinality(1..Waiting) = Waiting
    BY <2>1, <2>2
  <2> QED
    BY <1>1, <2>3
<1>3. Cardinality(posted) + Waiting <= MaxInflight
  BY <1>0, ProxyNumbers DEF SlotsCounted, Held, ProxyTypes
<1>4. bridge = "loop" /\ reader # "done" =>
        slots + Cardinality(posted) + Len(inbox) + (IF reader = "reads" THEN 1 ELSE 0) = MaxInflight
  BY <1>0, ProxyNumbers DEF SlotsCounted, Held, ProxyTypes, Marks
<1>5. ASSUME bridge = "exited", printer = "done", NEW l \in DOMAIN lines PROVE AnsweredOnce(l)
  <2>1. inbox = <<>> /\ outbox = <<>> /\ posted = {}
    BY <1>5 DEF EndInOrder
  <2>2. Waiting = 0
    BY <2>1 DEF Waiting, Marks
  <2>3. ~Owed(l)
    BY <1>0, <1>5, <2>1, <2>2, ProxyNumbers DEF Owed
  <2> QED
    BY <1>5, <2>3 DEF AnsweredOrOwed
<1> QED
  BY <1>2, <1>3, <1>4, <1>5 DEF BridgeSound

LEMMA ProxyStarts == ProxyInit => ProxyInv
<1> SUFFICES ASSUME ProxyInit PROVE ProxyInv
  OBVIOUS
<1>1. ProxyTypes
  <2>1. <<>> \in Seq(LineKinds) /\ <<>> \in Seq(LineKinds \ {"blank"}) /\ <<>> \in Seq(Nat)
        /\ <<>> \in Seq(Owing) /\ <<>> \in Seq(Receipts) /\ Len(<<>>) = 0
    BY EmptySeq
  <2> QED
    BY <2>1, FS_EmptySet DEF ProxyInit, ProxyTypes
<1>2. Marks = 0 /\ Waiting = 0 /\ Taken = 0 /\ Cardinality(posted) = 0
  BY FS_EmptySet DEF ProxyInit, Marks, Waiting, Taken
<1>3. LinesInOrder /\ SlotsCounted
  BY <1>1, <1>2, ProxyNumbers DEF ProxyInit, LinesInOrder, SlotsCounted, Held
<1>4. EndInOrder /\ QueuedOnce /\ AnsweredOrOwed
  BY <1>1, <1>2, ProxyNumbers DEF ProxyInit, EndInOrder, QueuedOnce, AnsweredOrOwed
<1> QED
  BY <1>1, <1>3, <1>4 DEF ProxyInv

LEMMA TypesOfInput ==
  ASSUME ProxyTypes,
         \/ \E kind \in LineKinds : ClientWrites(kind)
         \/ ClientCloses \/ TakeSlot \/ BlankLine \/ ReadStdinLine
         \/ \E raises \in BOOLEAN : EndOfInput(raises)
  PROVE  ProxyTypes'
<1>1. ASSUME NEW kind \in LineKinds, ClientWrites(kind) PROVE ProxyTypes'
  BY <1>1 DEF ProxyTypes, ClientWrites
<1>2. CASE ClientCloses
  BY <1>2 DEF ProxyTypes, ClientCloses
<1>3. CASE TakeSlot
  BY <1>3 DEF ProxyTypes, TakeSlot
<1>4. CASE BlankLine
  <2>1. Tail(stdin) \in Seq(LineKinds)
    BY <1>4 DEF ProxyTypes, BlankLine
  <2> QED
    BY <1>4, <2>1 DEF ProxyTypes, BlankLine
<1>5. CASE ReadStdinLine
  <2>1. Tail(stdin) \in Seq(LineKinds) /\ Head(stdin) \in LineKinds \ {"blank"}
    BY <1>5 DEF ProxyTypes, ReadStdinLine
  <2>2. lines' \in Seq(LineKinds \ {"blank"}) /\ Len(lines') = Len(lines) + 1 /\ Len(lines') \in Nat
    BY <1>5, <2>1 DEF ProxyTypes, ReadStdinLine
  <2>3. [replies |-> 0, errors |-> 0] \in Receipts
    BY DEF Receipts
  <2>4. written' \in Seq(Receipts) /\ Len(written') = Len(written) + 1
    BY <1>5, <2>3, AppendProperties DEF ProxyTypes, ReadStdinLine
  <2>5. inbox' \in Seq(Nat)
    BY <1>5, <2>2 DEF ProxyTypes, ReadStdinLine
  <2> QED
    BY <1>5, <2>1, <2>2, <2>4, <2>5 DEF ProxyTypes, ReadStdinLine
<1>6. ASSUME NEW raises \in BOOLEAN, EndOfInput(raises) PROVE ProxyTypes'
  <2>1. inbox' \in Seq(Nat)
    BY <1>6 DEF ProxyTypes, EndOfInput
  <2> QED
    BY <1>6, <2>1 DEF ProxyTypes, EndOfInput
<1> QED
  BY <1>1, <1>2, <1>3, <1>4, <1>5, <1>6

\* What a POST owes is an error or messages.
LEMMA OutcomeTypes ==
  ASSUME NEW kind \in LineKinds, NEW o \in Outcomes(kind)
  PROVE  /\ o = [error |-> o.error, messages |-> o.messages]
         /\ o.error \in BOOLEAN /\ o.messages \in Nat /\ (o.error => o.messages = 0)
         /\ ~o.error => (kind = "notification" => o.messages = 0) /\ (kind \in {"request", "garbled"} => o.messages > 0)
<1>1. CASE o = [error |-> TRUE, messages |-> 0]
  BY <1>1
<1>2. CASE o # [error |-> TRUE, messages |-> 0]
  <2>1. PICK n \in (CASE kind = "request" -> 1..2 [] kind = "garbled" -> {1} [] OTHER -> {0}) :
          o = [error |-> FALSE, messages |-> n]
    BY <1>2 DEF Outcomes
  <2>2. n \in Nat /\ (kind = "notification" => n = 0) /\ (kind \in {"request", "garbled"} => n > 0)
    <3>1. CASE kind = "request"
      BY <2>1, <3>1
    <3>2. CASE kind = "garbled"
      BY <2>1, <3>2
    <3>3. CASE kind \notin {"request", "garbled"}
      BY <2>1, <3>3
    <3> QED
      BY <3>1, <3>2, <3>3
  <2> QED
    BY <2>1, <2>2
<1> QED
  BY <1>1, <1>2

LEMMA TypesOfForwards ==
  ASSUME ProxyTypes, LinesInOrder, QueuedOnce, TakeLine \/ StopTaking \/ (\E l \in posted : Forwarded(l)) \/ Gather \/ Exit
  PROVE  ProxyTypes'
<1>1. inbox # <<>> => Head(inbox) \in Nat /\ Tail(inbox) \in Seq(Nat)
  BY HeadTailProperties DEF ProxyTypes
<1>2. CASE TakeLine
  <2>1. IsFiniteSet(posted')
    BY <1>2, FS_AddElement DEF ProxyTypes, TakeLine
  <2> QED
    BY <1>1, <1>2, <2>1 DEF ProxyTypes, TakeLine
<1>3. CASE StopTaking
  BY <1>1, <1>3 DEF ProxyTypes, StopTaking
<1>4. ASSUME NEW l \in posted, Forwarded(l) PROVE ProxyTypes'
  <2>1. PICK o \in Outcomes(lines[l]), issued \in BOOLEAN :
          /\ outbox' = Append(outbox, [line |-> l, error |-> o.error, messages |-> o.messages])
          /\ slots' = ReleaseSlot(slots, o) /\ session' = (session \/ issued)
    BY <1>4 DEF Forwarded
  <2>2. lines[l] \in LineKinds
    BY ProxyNumbers DEF ProxyTypes, QueuedOnce
  <2>0. o.error \in BOOLEAN /\ o.messages \in Nat
    BY <2>2, OutcomeTypes
  <2>3. [line |-> l, error |-> o.error, messages |-> o.messages] \in Owing
    BY <2>0 DEF ProxyTypes, Owing
  <2>4. outbox' \in Seq(Owing)
    BY <2>1, <2>3, AppendProperties DEF ProxyTypes
  <2>5. IsFiniteSet(posted') /\ posted' \subseteq Nat
    BY <1>4, FS_RemoveElement DEF ProxyTypes, Forwarded
  <2> QED
    BY <1>4, <2>1, <2>4, <2>5 DEF ProxyTypes, Forwarded, ReleaseSlot
<1>5. CASE Gather
  <2>1. Sentinel \in Owing
    BY DEF Sentinel, Owing
  <2>2. outbox' \in Seq(Owing)
    BY <1>5, <2>1, AppendProperties DEF ProxyTypes, Gather
  <2> QED
    BY <1>5, <2>2 DEF ProxyTypes, Gather
<1>6. CASE Exit
  BY <1>6 DEF ProxyTypes, Exit
<1> QED
  BY <1>2, <1>3, <1>4, <1>5, <1>6

\* The item at the head of the answers, and what is written of it.
LEMMA HeadOfAnswers ==
  ASSUME ProxyTypes, QueuedOnce, outbox # <<>>
  PROVE  /\ Head(outbox) = outbox[1] /\ 1 \in DOMAIN outbox
         /\ Tail(outbox) \in Seq(Owing) /\ Len(Tail(outbox)) = Len(outbox) - 1
         /\ \A n \in 1..Len(outbox) - 1 : Tail(outbox)[n] = outbox[n + 1]
         /\ Head(outbox) \in Owing
         /\ Head(outbox) # Sentinel =>
              /\ Head(outbox).line \in DOMAIN lines /\ Head(outbox).line <= Taken
              /\ written[Head(outbox).line] \in Receipts
<1>1. /\ Head(outbox) = outbox[1] /\ 1 \in DOMAIN outbox /\ Head(outbox) \in Owing
      /\ Tail(outbox) \in Seq(Owing) /\ Len(Tail(outbox)) = Len(outbox) - 1
      /\ \A n \in 1..Len(outbox) - 1 : Tail(outbox)[n] = outbox[n + 1]
  BY HeadTailProperties DEF ProxyTypes
<1>2. ASSUME Head(outbox) # Sentinel PROVE Head(outbox).line \in DOMAIN lines /\ Head(outbox).line <= Taken
  <2>1. outbox[1].line \in 1..Taken
    BY <1>1, <1>2 DEF QueuedOnce
  <2>2. outbox[1].line \in DOMAIN lines /\ outbox[1].line <= Taken
    BY <2>1, ProxyNumbers
  <2> QED
    BY <1>1, <2>2
<1>3. ASSUME Head(outbox) # Sentinel PROVE written[Head(outbox).line] \in Receipts
  <2>1. Head(outbox).line \in DOMAIN written
    BY <1>2, <1>3, ProxyNumbers DEF ProxyTypes
  <2> QED
    BY <2>1 DEF ProxyTypes
<1> QED
  BY <1>1, <1>2, <1>3

LEMMA TypesOfWriter ==
  ASSUME ProxyTypes, QueuedOnce, WriterEnds \/ Emit \/ EmitFails \/ WriterDies
  PROVE  ProxyTypes'
<1>1. CASE WriterEnds
  BY <1>1, HeadOfAnswers DEF ProxyTypes, WriterEnds
<1>2. CASE WriterDies
  BY <1>2 DEF ProxyTypes, WriterDies
<1>3. CASE Emit \/ EmitFails
  <2>1. PICK item : item = Head(outbox)
    OBVIOUS
  <2>2. PICK w : w = written[item.line]
    OBVIOUS
  <2>0. outbox # <<>> /\ Head(outbox) # Sentinel /\ outbox' = Tail(outbox)
    BY <1>3 DEF Emit, EmitFails
  <2>3. /\ item \in Owing /\ item.line \in DOMAIN written /\ w \in Receipts
        /\ Tail(outbox) \in Seq(Owing) /\ outbox' = Tail(outbox)
    BY <2>0, <2>1, <2>2, HeadOfAnswers, ProxyNumbers DEF ProxyTypes
  <2>4. \E v \in Receipts : written' = [written EXCEPT ![item.line] = v]
    <3>1. CASE Emit
      <4>1. ErrorsOwed(lines[item.line]) \in Nat
        BY DEF ErrorsOwed
      <4>2. item.messages \in Nat /\ w.errors \in Nat /\ w.replies \in Nat
        BY <2>3 DEF Owing, Receipts
      <4>3. Received(w, item) \in Receipts
        <5>1. CASE item.error
          <6>1. w.errors + ErrorsOwed(lines[item.line]) \in Nat
            BY <4>1, <4>2
          <6> QED
            BY <2>3, <5>1, <6>1 DEF Received, Receipts
        <5>2. CASE ~item.error
          <6>1. w.replies + item.messages \in Nat
            BY <4>2
          <6> QED
            BY <2>3, <5>2, <6>1 DEF Received, Receipts
        <5> QED
          BY <5>1, <5>2
      <4>4. written' = [written EXCEPT ![item.line] = Received(w, item)]
        BY <2>1, <2>2, <2>3, <3>1 DEF Emit
      <4> QED
        BY <4>3, <4>4
    <3>2. CASE EmitFails
      <4>1. PICK n \in 0..item.messages : written' = [written EXCEPT ![item.line].replies = @ + n]
        BY <2>1, <3>2 DEF EmitFails
      <4>2. [w EXCEPT !.replies = @ + n] \in Receipts
        <5>1. item.messages \in Nat /\ w.replies \in Nat
          BY <2>3 DEF Owing, Receipts
        <5>2. w.replies + n \in Nat
          BY <4>1, <5>1
        <5> QED
          BY <2>3, <5>2 DEF Receipts
      <4>3. written' = [written EXCEPT ![item.line] = [w EXCEPT !.replies = @ + n]]
        BY <2>2, <2>3, <4>1
      <4> QED
        BY <4>2, <4>3
    <3> QED
      BY <1>3, <3>1, <3>2
  <2>5. written' \in Seq(Receipts) /\ Len(written') = Len(written)
    BY <2>3, <2>4 DEF ProxyTypes
  <2>6. dropped' \subseteq Nat
    BY <1>3, <2>1, <2>3 DEF ProxyTypes, Emit, EmitFails, Owing
  <2> QED
    BY <1>3, <2>3, <2>5, <2>6 DEF ProxyTypes, Emit, EmitFails
<1> QED
  BY <1>1, <1>2, <1>3

\* A line that is not touched, nor the answers to it, stays owed or answered.
LEMMA AnswersKept ==
  ASSUME ProxyInv, UNCHANGED <<lines, written, dropped>>, printer' \in {printer, "dead"},
         \A l \in DOMAIN lines : (Owed(l)' => Owed(l)) /\ (Owed(l) => Owed(l)' \/ printer' = "dead")
  PROVE  AnsweredOrOwed'
BY DEF ProxyInv, AnsweredOrOwed, AnsweredOnce

LEMMA ReadKeeps ==
  ASSUME ProxyInv, ReadStdinLine
  PROVE  ProxyInv'
<1>0. ProxyTypes /\ ProxyTypes'
  BY TypesOfInput DEF ProxyInv
<1>1. PICK k : k = Head(stdin)
  OBVIOUS
<1>2. /\ lines' = Append(lines, k) /\ inbox' = Append(inbox, Len(lines)') /\ written' = Append(written, [replies |-> 0, errors |-> 0])
      /\ reader = "reads" /\ reader' = "waits"
      /\ UNCHANGED <<slots, posted, outbox, printer, bridge, dropped>>
  BY <1>1 DEF ReadStdinLine
<1>3. /\ Len(lines)' = Len(lines) + 1 /\ \A l \in 1..Len(lines) : lines'[l] = lines[l]
      /\ Len(inbox)' = Len(inbox) + 1 /\ (\A n \in 1..Len(inbox) : inbox'[n] = inbox[n]) /\ inbox'[Len(inbox) + 1] = Len(lines) + 1
      /\ Len(written)' = Len(written) + 1 /\ \A l \in 1..Len(lines) : written'[l] = written[l]
      /\ written'[Len(lines) + 1] = [replies |-> 0, errors |-> 0]
  BY <1>0, <1>2 DEF ProxyTypes
<1>4. Marks = 0 /\ Marks' = 0 /\ Waiting = Len(inbox) /\ Waiting' = Waiting + 1 /\ Taken' = Taken
  BY <1>0, <1>2, <1>3, ProxyNumbers DEF Marks, Waiting, Taken
<1>5. LinesInOrder'
  <2>1. Waiting <= Len(lines) /\ Waiting \in Nat /\ Len(lines) \in Nat /\ Taken = Len(lines) - Waiting
    BY <1>0, ProxyNumbers DEF ProxyInv, LinesInOrder
  <2>2. ASSUME NEW n \in 1..Waiting + 1 PROVE inbox'[n] = Taken + n
    <3>1. CASE n = Waiting + 1
      BY <1>3, <1>4, <2>1, <3>1
    <3>2. CASE n # Waiting + 1
      <4>1. n \in 1..Waiting
        BY <2>1, <2>2, <3>2
      <4> QED
        BY <1>3, <1>4, <4>1 DEF ProxyInv, LinesInOrder
    <3> QED
      BY <3>1, <3>2
  <2> QED
    BY <1>3, <1>4, <2>1, <2>2 DEF LinesInOrder
<1>6. SlotsCounted'
  <2>1. Cardinality(posted) \in Nat /\ Waiting \in Nat
    BY <1>0, ProxyNumbers
  <2>2. posted' = posted /\ reader = "reads" /\ reader' = "waits" /\ Waiting' = Waiting + 1
    BY <1>2, <1>4
  <2>3. Held' = Held
    BY <2>1, <2>2 DEF Held
  <2> QED
    BY <1>2, <2>3 DEF ProxyInv, SlotsCounted
<1>7. EndInOrder'
  BY <1>2 DEF ProxyInv, EndInOrder
<1>8. QueuedOnce'
  <2>1. \A n \in DOMAIN outbox : outbox[n] # Sentinel => lines'[outbox[n].line] = lines[outbox[n].line]
    <3> SUFFICES ASSUME NEW n \in DOMAIN outbox, outbox[n] # Sentinel PROVE lines'[outbox[n].line] = lines[outbox[n].line]
      OBVIOUS
    <3>1. outbox[n].line \in 1..Taken
      BY DEF ProxyInv, QueuedOnce
    <3>2. outbox[n].line \in 1..Len(lines)
      BY <1>0, <3>1, ProxyNumbers
    <3> QED
      BY <1>3, <3>2
  <2> QED
    BY <1>2, <1>4, <2>1 DEF ProxyInv, QueuedOnce
<1>9. AnsweredOrOwed'
  <2> SUFFICES ASSUME NEW l \in DOMAIN lines'
               PROVE  /\ Owed(l)' => written'[l] = [replies |-> 0, errors |-> 0] /\ l \notin dropped'
                      /\ Owed(l)' \/ printer' = "dead" \/ AnsweredOnce(l)'
    BY DEF AnsweredOrOwed
  <2>1. CASE l = Len(lines) + 1
    <3>1. l > Taken /\ l \notin dropped
      BY <1>0, <2>1, ProxyNumbers DEF ProxyInv, QueuedOnce
    <3> QED
      BY <1>2, <1>3, <1>4, <2>1, <3>1 DEF Owed
  <2>2. CASE l # Len(lines) + 1
    <3>1. l \in DOMAIN lines /\ l \in 1..Len(lines)
      BY <1>0, <1>3, <2>2, ProxyNumbers
    <3>2. Owed(l)' <=> Owed(l)
      BY <1>2, <1>4 DEF Owed
    <3>3. AnsweredOnce(l)' <=> AnsweredOnce(l)
      BY <1>2, <1>3, <3>1 DEF AnsweredOnce
    <3> QED
      BY <1>2, <1>3, <3>1, <3>2, <3>3 DEF ProxyInv, AnsweredOrOwed
  <2> QED
    BY <2>1, <2>2
<1> QED
  BY <1>0, <1>5, <1>6, <1>7, <1>8, <1>9 DEF ProxyInv

LEMMA EndKeeps ==
  ASSUME ProxyInv, NEW raises \in BOOLEAN, EndOfInput(raises)
  PROVE  ProxyInv'
<1>0. ProxyTypes /\ ProxyTypes'
  BY TypesOfInput DEF ProxyInv
<1>2. /\ inbox' = Append(inbox, 0) /\ reader = "reads" /\ reader' = "done" /\ slots' \in {slots, slots + 1}
      /\ UNCHANGED <<lines, posted, outbox, printer, bridge, written, dropped>>
  BY DEF EndOfInput
<1>3. Len(inbox)' = Len(inbox) + 1 /\ (\A n \in 1..Len(inbox) : inbox'[n] = inbox[n]) /\ inbox'[Len(inbox) + 1] = 0 /\ inbox' # <<>>
  <2>1. inbox \in Seq(Nat) /\ 0 \in Nat
    BY <1>0 DEF ProxyTypes
  <2> QED
    BY <1>2, <2>1, AppendProperties
<1>4. Marks = 0 /\ Marks' = 1 /\ Waiting = Len(inbox) /\ Waiting' = Waiting /\ Taken' = Taken
  BY <1>0, <1>2, <1>3, ProxyNumbers DEF Marks, Waiting, Taken
<1>5. LinesInOrder'
  BY <1>0, <1>2, <1>3, <1>4, ProxyNumbers DEF ProxyInv, LinesInOrder
<1>6. SlotsCounted'
  BY <1>0, <1>2, <1>4, ProxyNumbers DEF ProxyInv, ProxyTypes, SlotsCounted, Held
<1>7. EndInOrder'
  BY <1>2 DEF ProxyInv, EndInOrder
<1>8. QueuedOnce' /\ \A l \in DOMAIN lines : Owed(l)' <=> Owed(l)
  BY <1>2, <1>4 DEF ProxyInv, QueuedOnce, Owed
<1>9. AnsweredOrOwed'
  BY <1>2, <1>8, AnswersKept
<1> QED
  BY <1>0, <1>5, <1>6, <1>7, <1>8, <1>9 DEF ProxyInv

LEMMA SlotKeeps ==
  ASSUME ProxyInv, TakeSlot \/ BlankLine
  PROVE  ProxyInv'
<1>0. ProxyTypes /\ ProxyTypes'
  BY TypesOfInput DEF ProxyInv
<1>1. UNCHANGED <<lines, inbox, posted, outbox, printer, bridge, written, dropped>> /\ reader # "done" /\ reader' # "done"
  BY DEF TakeSlot, BlankLine
<1>2. Marks' = Marks /\ Waiting' = Waiting /\ Taken' = Taken
  BY <1>1 DEF Marks, Waiting, Taken
<1>3. LinesInOrder' /\ EndInOrder' /\ QueuedOnce' /\ \A l \in DOMAIN lines : Owed(l)' <=> Owed(l)
  <2>1. LinesInOrder' /\ QueuedOnce'
    BY <1>1, <1>2 DEF ProxyInv, LinesInOrder, QueuedOnce
  <2>2. EndInOrder'
    BY <1>1 DEF ProxyInv, EndInOrder
  <2>3. \A l \in DOMAIN lines : Owed(l)' <=> Owed(l)
    BY <1>1, <1>2 DEF Owed
  <2> QED
    BY <2>1, <2>2, <2>3
<1>4. SlotsCounted'
  <2>1. slots \in Nat /\ slots' \in Nat /\ Cardinality(posted) \in Nat /\ Waiting \in Nat
    BY <1>0, ProxyNumbers DEF ProxyTypes
  <2>2. slots' + Held' = slots + Held
    <3>1. CASE TakeSlot
      BY <1>1, <1>2, <2>1, <3>1 DEF Held, TakeSlot
    <3>2. CASE BlankLine
      BY <1>1, <1>2, <2>1, <3>2 DEF Held, BlankLine
    <3> QED
      BY <3>1, <3>2
  <2> QED
    BY <1>1, <2>2 DEF ProxyInv, SlotsCounted
<1>5. AnsweredOrOwed'
  BY <1>1, <1>3, AnswersKept
<1> QED
  BY <1>0, <1>3, <1>4, <1>5 DEF ProxyInv

\* What the client does, the end of the process, and the death of the writer move no line.
LEMMA RestKeeps ==
  ASSUME ProxyInv, (\E kind \in LineKinds : ClientWrites(kind)) \/ ClientCloses \/ Exit \/ WriterDies \/ UNCHANGED proxyVars
  PROVE  ProxyInv'
<1>0. ProxyTypes /\ ProxyTypes'
  <2>1. CASE UNCHANGED proxyVars
    BY <2>1 DEF ProxyInv, ProxyTypes, proxyVars
  <2> QED
    BY <2>1, TypesOfInput, TypesOfForwards, TypesOfWriter DEF ProxyInv
<1>1. /\ UNCHANGED <<lines, inbox, reader, slots, posted, outbox, written, dropped>>
      /\ printer' = printer \/ (printer = "runs" /\ printer' = "dead")
      /\ bridge' = bridge \/ (bridge = "closing" /\ bridge' = "exited")
  BY DEF ClientWrites, ClientCloses, Exit, WriterDies, proxyVars
<1>2. Marks' = Marks /\ Waiting' = Waiting /\ Taken' = Taken /\ Held' = Held
  BY <1>1 DEF Marks, Waiting, Taken, Held
<1>3. LinesInOrder' /\ EndInOrder' /\ SlotsCounted' /\ QueuedOnce' /\ \A l \in DOMAIN lines : Owed(l)' <=> Owed(l)
  BY <1>1, <1>2 DEF ProxyInv, LinesInOrder, EndInOrder, SlotsCounted, QueuedOnce, Owed
<1>5. AnsweredOrOwed'
  BY <1>1, <1>3, AnswersKept
<1> QED
  BY <1>0, <1>3, <1>5 DEF ProxyInv

LEMMA TakeKeeps ==
  ASSUME ProxyInv, TakeLine
  PROVE  ProxyInv'
<1>0. ProxyTypes /\ ProxyTypes'
  BY TypesOfForwards DEF ProxyInv
<1>1. PICK h : h = Head(inbox)
  OBVIOUS
<1>2. /\ bridge = "loop" /\ inbox # <<>> /\ h # 0 /\ inbox' = Tail(inbox) /\ posted' = posted \cup {h}
      /\ UNCHANGED <<lines, reader, slots, outbox, printer, bridge, written, dropped>>
  BY <1>1 DEF TakeLine
<1>3. /\ h = inbox[1] /\ Len(inbox)' = Len(inbox) - 1 /\ Len(inbox) > 0
      /\ \A n \in 1..Len(inbox)-1 : inbox'[n] = inbox[n + 1]
  BY <1>0, <1>1, <1>2, HeadTailProperties DEF ProxyTypes
<1>4. Waiting > 0 /\ h = Taken + 1 /\ Marks' = Marks /\ Waiting' = Waiting - 1 /\ Taken' = Taken + 1
  <2>1. Waiting > 0
    <3>1. CASE Waiting = 0
      <4>1. Marks = 1 /\ Len(inbox) = 1
        BY <1>0, <1>3, <3>1, ProxyNumbers
      <4> QED
        BY <1>2, <1>3, <4>1 DEF ProxyInv, LinesInOrder
    <3> QED
      BY <1>0, <3>1, ProxyNumbers
  <2>2. h = Taken + 1
    BY <1>0, <1>3, <2>1, ProxyNumbers DEF ProxyInv, LinesInOrder
  <2>3. Marks' = Marks
    <3>1. Len(inbox) = 1 => Marks = 0
      BY <1>0, <2>1, ProxyNumbers
    <3>2. inbox' = <<>> <=> Len(inbox) = 1
      <4>1. inbox' \in Seq(Nat) /\ Len(inbox) \in Nat
        BY <1>0, ProxyNumbers DEF ProxyTypes
      <4> QED
        BY <1>3, <4>1, EmptySeq
    <3> QED
      BY <1>0, <1>2, <3>1, <3>2 DEF Marks
  <2>4. Waiting' = Len(inbox)' - Marks' /\ Taken' = Len(lines)' - Waiting'
    BY DEF Waiting, Taken
  <2> QED
    BY <1>0, <1>2, <1>3, <2>1, <2>2, <2>3, <2>4, ProxyNumbers, SMTT(30)
<1>5. LinesInOrder'
  <2>1. Waiting' <= Len(lines)'
    BY <1>0, <1>2, <1>4, ProxyNumbers DEF ProxyInv, LinesInOrder
  <2>2. ASSUME NEW n \in 1..Waiting - 1 PROVE inbox'[n] = Taken + 1 + n
    <3>1. n + 1 \in 1..Waiting /\ n \in 1..Len(inbox)-1
      BY <1>0, <2>2, ProxyNumbers
    <3> QED
      BY <1>0, <1>3, <3>1, ProxyNumbers DEF ProxyInv, LinesInOrder
  <2>3. Marks' = 1 => inbox'[Len(inbox)'] = 0
    <3> SUFFICES ASSUME Marks = 1 PROVE inbox'[Len(inbox) - 1] = 0
      BY <1>3, <1>4
    <3>1. Len(inbox) > 1
      BY <1>0, <1>4, ProxyNumbers
    <3> QED
      BY <1>0, <1>3, <3>1, ProxyNumbers DEF ProxyInv, LinesInOrder
  <2> QED
    BY <1>4, <2>1, <2>2, <2>3 DEF LinesInOrder
<1>6. h \notin posted /\ h \in 1..Len(lines)
  <2>1. h = Taken + 1 /\ Waiting <= Len(lines) /\ posted \subseteq 1..Taken
    BY <1>4 DEF ProxyInv, LinesInOrder, QueuedOnce
  <2> QED
    BY <1>0, <1>4, <2>1, ProxyNumbers
<1>7. SlotsCounted'
  <2>1. Cardinality(posted') = Cardinality(posted) + 1
    BY <1>0, <1>2, <1>6, FS_AddElement DEF ProxyTypes
  <2>2. Held' = Held
    BY <1>0, <1>2, <1>4, <2>1, ProxyNumbers DEF Held
  <2> QED
    BY <1>2, <2>2 DEF ProxyInv, SlotsCounted
<1>8. EndInOrder'
  BY <1>2 DEF ProxyInv, EndInOrder
<1>9. QueuedOnce'
  <2>1. posted' \subseteq 1..Taken' /\ dropped' \subseteq 1..Taken'
    <3>1. posted \subseteq 1..Taken /\ dropped \subseteq 1..Taken
      BY DEF ProxyInv, QueuedOnce
    <3>2. h \in 1..Taken + 1 /\ 1..Taken \subseteq 1..Taken + 1
      BY <1>0, <1>4, <1>6, ProxyNumbers
    <3> QED
      BY <1>2, <1>4, <3>1, <3>2
  <2>2. ASSUME NEW n \in DOMAIN outbox, outbox[n] # Sentinel PROVE outbox[n].line \in (1..Taken') \ posted'
    <3>1. outbox[n].line \in (1..Taken) \ posted
      BY <2>2 DEF ProxyInv, QueuedOnce
    <3> QED
      BY <1>0, <1>2, <1>4, <3>1, ProxyNumbers
  <2> QED
    BY <1>2, <2>1, <2>2 DEF ProxyInv, QueuedOnce
<1>10. \A l \in DOMAIN lines : Owed(l)' <=> Owed(l)
  <2> SUFFICES ASSUME NEW l \in DOMAIN lines PROVE Owed(l)' <=> Owed(l)
    OBVIOUS
  <2>1. l \in Nat /\ Taken \in Int
    BY <1>0, ProxyNumbers
  <2>2. (l > Taken' \/ l \in posted') <=> (l > Taken \/ l \in posted)
    BY <1>2, <1>4, <2>1
  <2> QED
    BY <1>2, <2>2 DEF Owed
<1> QED
  BY <1>0, <1>2, <1>5, <1>7, <1>8, <1>9, <1>10, AnswersKept DEF ProxyInv

LEMMA StopKeeps ==
  ASSUME ProxyInv, StopTaking
  PROVE  ProxyInv'
<1>0. ProxyTypes /\ ProxyTypes'
  BY TypesOfForwards DEF ProxyInv
<1>1. PICK h : h = Head(inbox)
  OBVIOUS
<1>2. /\ bridge = "loop" /\ inbox # <<>> /\ (h = 0 \/ printer # "runs") /\ inbox' = Tail(inbox) /\ bridge' = "gather"
      /\ UNCHANGED <<lines, reader, slots, posted, outbox, printer, written, dropped>>
  BY <1>1 DEF StopTaking
<1>3. /\ h = inbox[1] /\ Len(inbox)' = Len(inbox) - 1 /\ Len(inbox) > 0
      /\ \A n \in 1..Len(inbox)-1 : inbox'[n] = inbox[n + 1]
  BY <1>0, <1>1, <1>2, HeadTailProperties DEF ProxyTypes
<1>4. printer # "done" /\ Waiting <= Len(lines)
  BY <1>2 DEF ProxyInv, EndInOrder, LinesInOrder
<1>5. CASE h = 0
  <2>1. Waiting = 0
    <3>1. CASE Waiting > 0
      <4>1. inbox[1] = Taken + 1
        BY <1>0, <3>1, ProxyNumbers DEF ProxyInv, LinesInOrder
      <4>2. Taken = Len(lines) - Waiting /\ Len(lines) \in Nat /\ Waiting \in Nat
        BY <1>0, ProxyNumbers
      <4>3. Taken \in Nat
        BY <1>4, <4>2
      <4>4. inbox[1] = 0
        BY <1>3, <1>5
      <4> QED
        BY <4>1, <4>3, <4>4
    <3> QED
      BY <1>0, <3>1, ProxyNumbers
  <2>2. Marks = 1 /\ Len(inbox) = 1 /\ reader = "done"
    BY <1>0, <1>3, <2>1, ProxyNumbers DEF Marks
  <2>3. inbox' = <<>>
    BY <1>0, <1>3, <2>2 DEF ProxyTypes
  <2>4. Marks' = 0 /\ Waiting' = 0 /\ Taken' = Taken
    BY <1>0, <1>2, <1>3, <2>1, <2>2, <2>3, ProxyNumbers DEF Marks, Waiting, Taken
  <2>5. LinesInOrder' /\ EndInOrder' /\ QueuedOnce'
    BY <1>0, <1>2, <1>4, <2>1, <2>2, <2>3, <2>4, ProxyNumbers DEF ProxyInv, LinesInOrder, EndInOrder, QueuedOnce
  <2>6. SlotsCounted'
    BY <1>2, <2>1, <2>4 DEF ProxyInv, SlotsCounted, Held
  <2>7. \A l \in DOMAIN lines : Owed(l)' <=> Owed(l)
    BY <1>2, <2>4 DEF Owed
  <2> QED
    BY <1>0, <1>2, <2>5, <2>6, <2>7, AnswersKept DEF ProxyInv
<1>6. CASE h # 0
  <2>1. printer = "dead"
    BY <1>0, <1>2, <1>4, <1>6 DEF ProxyTypes
  <2>2. Waiting > 0
    <3>1. CASE Waiting = 0
      <4>1. Marks = 1 /\ Len(inbox) = 1
        BY <1>0, <1>3, <3>1, ProxyNumbers
      <4> QED
        BY <1>3, <1>6, <4>1 DEF ProxyInv, LinesInOrder
    <3> QED
      BY <1>0, <3>1, ProxyNumbers
  <2>3. Marks' = Marks
    <3>1. Len(inbox) = 1 => Marks = 0
      BY <1>0, <2>2, ProxyNumbers
    <3>2. inbox' = <<>> <=> Len(inbox) = 1
      <4>1. inbox' \in Seq(Nat) /\ Len(inbox) \in Nat
        BY <1>0, ProxyNumbers DEF ProxyTypes
      <4> QED
        BY <1>3, <4>1, EmptySeq
    <3> QED
      BY <1>0, <1>2, <3>1, <3>2 DEF Marks
  <2>4. Waiting' = Waiting - 1 /\ Taken' = Taken + 1
    <3>1. Waiting' = Len(inbox)' - Marks' /\ Taken' = Len(lines)' - Waiting'
      BY DEF Waiting, Taken
    <3> QED
      BY <1>0, <1>2, <1>3, <2>3, <3>1, ProxyNumbers
  <2>5. LinesInOrder'
    <3>2. ASSUME NEW n \in 1..Waiting - 1 PROVE inbox'[n] = Taken + 1 + n
      <4>1. n + 1 \in 1..Waiting /\ n \in 1..Len(inbox)-1
        BY <1>0, <3>2, ProxyNumbers
      <4> QED
        BY <1>0, <1>3, <4>1, ProxyNumbers DEF ProxyInv, LinesInOrder
    <3>3. Marks = 1 => inbox'[Len(inbox) - 1] = 0
      <4> SUFFICES ASSUME Marks = 1 PROVE inbox'[Len(inbox) - 1] = 0
        OBVIOUS
      <4>1. Len(inbox) > 1
        BY <1>0, <2>2, ProxyNumbers
      <4> QED
        BY <1>0, <1>3, <4>1, ProxyNumbers DEF ProxyInv, LinesInOrder
    <3>4. Waiting - 1 <= Len(lines)
      BY <1>0, <1>4, ProxyNumbers
    <3> QED
      BY <1>2, <1>3, <2>3, <2>4, <3>2, <3>3, <3>4 DEF LinesInOrder
  <2>6. QueuedOnce'
    <3>1. posted' \subseteq 1..Taken' /\ dropped' \subseteq 1..Taken'
      BY <1>0, <1>2, <2>4, ProxyNumbers DEF ProxyInv, QueuedOnce
    <3>2. \A n \in DOMAIN outbox : outbox[n].line \in (1..Taken) \ posted => outbox[n].line \in (1..Taken') \ posted'
      BY <1>0, <1>2, <2>4, ProxyNumbers
    <3> QED
      BY <1>2, <3>1, <3>2 DEF ProxyInv, QueuedOnce
  <2>7. SlotsCounted'
    <3>1. Held' = Held - 1 /\ Held \in Nat
      <4>1. Cardinality(posted) \in Nat /\ Waiting \in Nat /\ Waiting - 1 \in Nat
        BY <1>0, <2>2, ProxyNumbers
      <4> QED
        BY <1>2, <2>4, <4>1 DEF Held
    <3>2. slots \in Nat
      BY <1>0 DEF ProxyTypes
    <3>3. slots' + Held' <= MaxInflight
      BY <1>2, <3>1, <3>2 DEF ProxyInv, SlotsCounted
    <3> QED
      BY <1>2, <3>3 DEF SlotsCounted
  <2>8. EndInOrder'
    BY <1>2, <2>1 DEF ProxyInv, EndInOrder
  <2>9. \A l \in DOMAIN lines : Owed(l)' => Owed(l)
    BY <1>0, <1>2, <2>4, ProxyNumbers DEF Owed
  <2>10. AnsweredOrOwed'
    BY <1>2, <2>1, <2>9, AnswersKept
  <2> QED
    BY <1>0, <2>5, <2>6, <2>7, <2>8, <2>10 DEF ProxyInv
<1> QED
  BY <1>5, <1>6

\* A new item at the end of the answers, that names no line of the others.
LEMMA AnswerQueued ==
  ASSUME ProxyTypes, NEW item \in Owing, outbox' = Append(outbox, item)
  PROVE  /\ Len(outbox)' = Len(outbox) + 1 /\ DOMAIN outbox' = 1..Len(outbox) + 1 /\ DOMAIN outbox = 1..Len(outbox)
         /\ \A n \in 1..Len(outbox) : outbox'[n] = outbox[n]
         /\ outbox'[Len(outbox) + 1] = item /\ Len(outbox) \in Nat
<1>1. outbox \in Seq(Owing)
  BY DEF ProxyTypes
<1>2. outbox' \in Seq(Owing) /\ Len(outbox') = Len(outbox) + 1
  BY <1>1, AppendProperties
<1> QED
  BY <1>1, <1>2, AppendProperties

LEMMA ForwardKeeps ==
  ASSUME ProxyInv, NEW p \in posted, Forwarded(p)
  PROVE  ProxyInv'
<1>0. ProxyTypes /\ ProxyTypes'
  BY TypesOfForwards DEF ProxyInv
<1>1. PICK o \in Outcomes(lines[p]), issued \in BOOLEAN :
          /\ outbox' = Append(outbox, [line |-> p, error |-> o.error, messages |-> o.messages])
          /\ slots' = ReleaseSlot(slots, o) /\ session' = (session \/ issued)
  BY DEF Forwarded
<1>2. PICK item : item = [line |-> p, error |-> o.error, messages |-> o.messages]
  OBVIOUS
<1>3. posted' = posted \ {p} /\ UNCHANGED <<stdin, closed, reader, lines, inbox, printer, bridge, written, dropped>>
  BY Zenon DEF Forwarded
<1>4. p \in 1..Taken /\ p \in 1..Len(lines) /\ lines[p] \in LineKinds
  <2>1. p \in 1..Taken
    BY DEF ProxyInv, QueuedOnce
  <2>2. p \in 1..Len(lines)
    BY <1>0, <2>1, ProxyNumbers
  <2>3. lines \in Seq(LineKinds \ {"blank"})
    BY <1>0 DEF ProxyTypes
  <2> QED
    BY <2>1, <2>2, <2>3
<1>5. o.error \in BOOLEAN /\ o.messages \in Nat /\ o = [error |-> o.error, messages |-> o.messages]
  BY <1>4, OutcomeTypes
<1>6. item \in Owing /\ item.line = p /\ item # Sentinel
      /\ [error |-> item.error, messages |-> item.messages] \in Outcomes(lines[item.line])
  BY <1>0, <1>2, <1>4, <1>5 DEF Owing, Sentinel
<1>7. /\ Len(outbox)' = Len(outbox) + 1 /\ DOMAIN outbox' = 1..Len(outbox) + 1 /\ DOMAIN outbox = 1..Len(outbox)
      /\ \A n \in 1..Len(outbox) : outbox'[n] = outbox[n]
      /\ outbox'[Len(outbox) + 1] = item /\ Len(outbox) \in Nat
  BY <1>0, <1>1, <1>2, <1>6, AnswerQueued
<1>8. Marks' = Marks /\ Waiting' = Waiting /\ Taken' = Taken
  BY <1>3 DEF Marks, Waiting, Taken
<1>9. LinesInOrder'
  BY <1>3, <1>8 DEF ProxyInv, LinesInOrder
<1>10. SlotsCounted'
  <2>1. Cardinality(posted') = Cardinality(posted) - 1
    BY <1>0, <1>3, FS_RemoveElement DEF ProxyTypes
  <2>2. slots \in Nat /\ Cardinality(posted) \in Nat /\ Waiting \in Nat
    BY <1>0, ProxyNumbers DEF ProxyTypes
  <2>3. slots' = slots + 1
    BY <1>1 DEF ReleaseSlot
  <2>4. slots' + Held' = slots + Held
    BY <1>3, <1>8, <2>1, <2>2, <2>3 DEF Held
  <2> QED
    BY <1>3, <2>4 DEF ProxyInv, SlotsCounted
<1>11. EndInOrder'
  <2>1. bridge \notin {"closing", "exited"} /\ printer # "done"
    BY DEF ProxyInv, EndInOrder
  <2>2. \A n \in 1..Len(outbox) + 1 : outbox'[n] # Sentinel
    <3> SUFFICES ASSUME NEW n \in 1..Len(outbox) + 1 PROVE outbox'[n] # Sentinel
      OBVIOUS
    <3>1. CASE n = Len(outbox) + 1
      BY <1>6, <1>7, <3>1
    <3>2. CASE n # Len(outbox) + 1
      <4>1. n \in 1..Len(outbox)
        BY <1>7, <3>2
      <4> QED
        BY <1>7, <2>1, <4>1 DEF ProxyInv, EndInOrder
    <3> QED
      BY <3>1, <3>2
  <2> QED
    BY <1>3, <1>7, <2>1, <2>2 DEF ProxyInv, EndInOrder
<1>12. QueuedOnce'
  <2>1. posted' \subseteq 1..Taken' /\ dropped' \subseteq 1..Taken'
    BY <1>3, <1>8 DEF ProxyInv, QueuedOnce
  <2>2. ASSUME NEW n \in DOMAIN outbox', outbox'[n] # Sentinel
        PROVE  /\ outbox'[n].line \in (1..Taken) \ posted'
               /\ [error |-> outbox'[n].error, messages |-> outbox'[n].messages] \in Outcomes(lines[outbox'[n].line])
    <3>1. CASE n = Len(outbox) + 1
      BY <1>3, <1>4, <1>6, <1>7, <3>1
    <3>2. CASE n # Len(outbox) + 1
      <4>1. n \in 1..Len(outbox)
        BY <1>7, <2>2, <3>2
      <4> QED
        BY <1>3, <1>7, <2>2, <4>1 DEF ProxyInv, QueuedOnce
    <3> QED
      BY <3>1, <3>2
  <2>3. \A n \in 1..Len(outbox) : outbox[n].line # p
    <3> SUFFICES ASSUME NEW n \in 1..Len(outbox), outbox[n].line = p PROVE FALSE
      OBVIOUS
    <3>1. CASE outbox[n] = Sentinel
      BY <1>4, <3>1 DEF Sentinel
    <3>2. CASE outbox[n] # Sentinel
      BY <1>7, <3>2 DEF ProxyInv, QueuedOnce
    <3> QED
      BY <3>1, <3>2
  <2>4. ASSUME NEW m \in DOMAIN outbox', NEW n \in DOMAIN outbox', outbox'[m].line = outbox'[n].line PROVE m = n
    <3>1. CASE m \in 1..Len(outbox) /\ n \in 1..Len(outbox)
      BY <1>7, <2>4, <3>1 DEF ProxyInv, QueuedOnce
    <3>2. CASE m = Len(outbox) + 1 /\ n \in 1..Len(outbox)
      BY <1>6, <1>7, <2>3, <2>4, <3>2
    <3>3. CASE n = Len(outbox) + 1 /\ m \in 1..Len(outbox)
      BY <1>6, <1>7, <2>3, <2>4, <3>3
    <3> QED
      BY <1>7, <3>1, <3>2, <3>3
  <2> QED
    BY <1>3, <1>8, <2>1, <2>2, <2>4 DEF QueuedOnce
<1>13. \A l \in DOMAIN lines : Owed(l)' <=> Owed(l)
  <2> SUFFICES ASSUME NEW l \in DOMAIN lines PROVE Owed(l)' <=> Owed(l)
    OBVIOUS
  <2>1. (\E n \in DOMAIN outbox' : outbox'[n].line = l) <=> l = p \/ \E n \in DOMAIN outbox : outbox[n].line = l
    <3>1. \A n \in 1..Len(outbox) + 1 : n = Len(outbox) + 1 \/ n \in 1..Len(outbox)
      BY <1>7
    <3>2. Len(outbox) + 1 \in 1..Len(outbox) + 1 /\ 1..Len(outbox) \subseteq 1..Len(outbox) + 1
      BY <1>7
    <3> QED
      BY <1>6, <1>7, <3>1, <3>2
  <2> QED
    BY <1>3, <1>8, <2>1 DEF Owed
<1> QED
  BY <1>0, <1>3, <1>9, <1>10, <1>11, <1>12, <1>13, AnswersKept DEF ProxyInv

LEMMA GatherKeeps ==
  ASSUME ProxyInv, Gather
  PROVE  ProxyInv'
<1>0. ProxyTypes /\ ProxyTypes'
  BY TypesOfForwards DEF ProxyInv
<1>1. /\ bridge = "gather" /\ posted = {} /\ outbox' = Append(outbox, Sentinel) /\ bridge' = "closing"
      /\ UNCHANGED <<lines, reader, slots, inbox, posted, printer, written, dropped>>
  BY DEF Gather
<1>2. Sentinel \in Owing /\ Sentinel.line = 0
  BY DEF Sentinel, Owing
<1>3. /\ Len(outbox)' = Len(outbox) + 1 /\ DOMAIN outbox' = 1..Len(outbox) + 1 /\ DOMAIN outbox = 1..Len(outbox)
      /\ \A n \in 1..Len(outbox) : outbox'[n] = outbox[n]
      /\ outbox'[Len(outbox) + 1] = Sentinel /\ Len(outbox) \in Nat
  BY <1>0, <1>1, <1>2, AnswerQueued
<1>4. Marks' = Marks /\ Waiting' = Waiting /\ Taken' = Taken /\ Held' = Held
  BY <1>1 DEF Marks, Waiting, Taken, Held
<1>5. LinesInOrder' /\ SlotsCounted'
  BY <1>1, <1>4 DEF ProxyInv, LinesInOrder, SlotsCounted
<1>6. \A n \in 1..Len(outbox) : outbox[n] # Sentinel /\ outbox[n].line # 0
  <2> SUFFICES ASSUME NEW n \in 1..Len(outbox) PROVE outbox[n] # Sentinel /\ outbox[n].line # 0
    OBVIOUS
  <2>1. outbox[n] # Sentinel
    BY <1>1, <1>3 DEF ProxyInv, EndInOrder
  <2>2. outbox[n].line \in 1..Taken
    BY <1>3, <2>1 DEF ProxyInv, QueuedOnce
  <2> QED
    BY <1>0, <2>1, <2>2, ProxyNumbers
<1>7. \A n \in 1..Len(outbox) + 1 : n = Len(outbox) + 1 \/ n \in 1..Len(outbox)
  BY <1>3
<1>8. EndInOrder'
  BY <1>1, <1>3, <1>6, <1>7 DEF ProxyInv, EndInOrder
<1>9. QueuedOnce'
  <2>1. ASSUME NEW n \in DOMAIN outbox', outbox'[n] # Sentinel PROVE n \in DOMAIN outbox /\ outbox'[n] = outbox[n]
    BY <1>3, <1>7, <2>1
  <2>2. ASSUME NEW m \in DOMAIN outbox', NEW n \in DOMAIN outbox', outbox'[m].line = outbox'[n].line PROVE m = n
    <3>1. CASE m \in 1..Len(outbox) /\ n \in 1..Len(outbox)
      BY <1>3, <2>2, <3>1 DEF ProxyInv, QueuedOnce
    <3>2. CASE ~(m \in 1..Len(outbox) /\ n \in 1..Len(outbox))
      BY <1>2, <1>3, <1>6, <1>7, <2>2, <3>2
    <3> QED
      BY <3>1, <3>2
  <2> QED
    BY <1>1, <1>4, <2>1, <2>2 DEF ProxyInv, QueuedOnce
<1>10. \A l \in DOMAIN lines : Owed(l)' <=> Owed(l)
  <2> SUFFICES ASSUME NEW l \in DOMAIN lines PROVE Owed(l)' <=> Owed(l)
    OBVIOUS
  <2>1. l # 0
    BY <1>0, ProxyNumbers
  <2>2. (\E n \in DOMAIN outbox' : outbox'[n].line = l) <=> \E n \in DOMAIN outbox : outbox[n].line = l
    <3>1. 1..Len(outbox) \subseteq 1..Len(outbox) + 1
      BY <1>3
    <3> QED
      BY <1>2, <1>3, <1>7, <2>1, <3>1
  <2> QED
    BY <1>1, <1>4, <2>2 DEF Owed
<1> QED
  BY <1>0, <1>1, <1>5, <1>8, <1>9, <1>10, AnswersKept DEF ProxyInv

LEMMA WriterEndsKeeps ==
  ASSUME ProxyInv, WriterEnds
  PROVE  ProxyInv'
<1>0. ProxyTypes /\ ProxyTypes'
  BY TypesOfWriter DEF ProxyInv
<1>1. /\ printer = "runs" /\ outbox # <<>> /\ Head(outbox) = Sentinel /\ outbox' = Tail(outbox) /\ printer' = "done"
      /\ UNCHANGED <<lines, reader, slots, inbox, posted, bridge, written, dropped>>
  BY DEF WriterEnds
<1>2. Head(outbox) = outbox[1] /\ 1 \in DOMAIN outbox /\ Tail(outbox) \in Seq(Owing) /\ Len(Tail(outbox)) = Len(outbox) - 1
  BY <1>0, <1>1, HeadOfAnswers DEF ProxyInv
<1>3. Len(outbox) = 1 /\ bridge \in {"closing", "exited"}
  BY <1>1, <1>2 DEF ProxyInv, EndInOrder
<1>4. outbox' = <<>>
  BY <1>1, <1>2, <1>3, EmptySeq
<1>5. Marks' = Marks /\ Waiting' = Waiting /\ Taken' = Taken /\ Held' = Held
  BY <1>1 DEF Marks, Waiting, Taken, Held
<1>6. LinesInOrder' /\ SlotsCounted'
  BY <1>1, <1>5 DEF ProxyInv, LinesInOrder, SlotsCounted
<1>7. EndInOrder'
  BY <1>1, <1>3, <1>4 DEF ProxyInv, EndInOrder
<1>8. QueuedOnce'
  BY <1>1, <1>4, <1>5 DEF ProxyInv, QueuedOnce
<1>9. AnsweredOrOwed'
  <2> SUFFICES ASSUME NEW l \in DOMAIN lines
               PROVE  /\ Owed(l)' => written[l] = [replies |-> 0, errors |-> 0] /\ l \notin dropped
                      /\ Owed(l)' \/ AnsweredOnce(l)'
    BY <1>1 DEF AnsweredOrOwed
  <2>1. \A n \in DOMAIN outbox : outbox[n].line # l
    <3>1. l # 0 /\ DOMAIN outbox = {1}
      BY <1>0, <1>3, ProxyNumbers
    <3> QED
      BY <1>1, <1>2, <3>1 DEF Sentinel
  <2>2. Owed(l)' <=> Owed(l)
    BY <1>1, <1>4, <1>5, <2>1 DEF Owed
  <2>3. AnsweredOnce(l)' <=> AnsweredOnce(l)
    BY <1>1 DEF AnsweredOnce
  <2> QED
    BY <1>1, <2>2, <2>3 DEF ProxyInv, AnsweredOrOwed
<1> QED
  BY <1>0, <1>6, <1>7, <1>8, <1>9 DEF ProxyInv

\* What the writer writes of an item answers its line, or is dropped.
LEMMA ItemAnswers ==
  ASSUME ProxyInv, NEW item, item = Head(outbox), Emit \/ EmitFails
  PROVE  /\ item.line \in DOMAIN lines /\ item.line \in DOMAIN written
         /\ \A l \in DOMAIN lines : l # item.line => written'[l] = written[l] /\ (l \in dropped' <=> l \in dropped)
         /\ AnsweredOnce(item.line)'
<1>0. ProxyTypes /\ outbox # <<>> /\ Head(outbox) # Sentinel /\ lines' = lines
  BY DEF ProxyInv, Emit, EmitFails
<1>1. item = outbox[1] /\ 1 \in DOMAIN outbox /\ item \in Owing /\ item.line \in DOMAIN lines
  BY <1>0, HeadOfAnswers DEF ProxyInv
<1>2. item.line \in DOMAIN written
  BY <1>0, <1>1, ProxyNumbers DEF ProxyTypes
<1>3. PICK w : w = written[item.line]
  OBVIOUS
<1>4. w = [replies |-> 0, errors |-> 0] /\ item.line \notin dropped
  <2>1. Owed(item.line)
    BY <1>1 DEF Owed
  <2> QED
    BY <1>1, <1>3, <2>1 DEF ProxyInv, AnsweredOrOwed
<1>5. PICK kind : kind = lines[item.line]
  OBVIOUS
<1>6. kind \in LineKinds \ {"blank"}
  BY <1>0, <1>1, <1>5, ProxyNumbers DEF ProxyTypes
<1>7. [error |-> item.error, messages |-> item.messages] \in Outcomes(kind)
  BY <1>0, <1>1, <1>5 DEF ProxyInv, QueuedOnce
<1>8. /\ item.error \in BOOLEAN /\ item.messages \in Nat
      /\ item.error => item.messages = 0
      /\ kind = "notification" => item.messages = 0
      /\ ~item.error /\ kind # "notification" => item.messages > 0
  BY <1>6, <1>7, OutcomeTypes DEF LineKinds
<1>9. CASE Emit
  <2>1. written' = [written EXCEPT ![item.line] = Received(w, item)] /\ dropped' = dropped
    BY <1>2, <1>3, <1>9 DEF Emit
  <2>2. written'[item.line] = Received(w, item)
    BY <1>2, <2>1
  <2>3. Received(w, item) = [replies |-> item.messages, errors |-> IF item.error /\ kind # "notification" THEN 1 ELSE 0]
    <3>1. CASE item.error
      BY <1>4, <1>5, <1>8, <3>1 DEF Received, ErrorsOwed
    <3>2. CASE ~item.error
      BY <1>4, <1>8, <3>2 DEF Received
    <3> QED
      BY <3>1, <3>2
  <2>4. AnsweredOnce(item.line)'
    <3>1. PICK v : v = [replies |-> item.messages, errors |-> IF item.error /\ kind # "notification" THEN 1 ELSE 0]
      OBVIOUS
    <3>2. written'[item.line] = v /\ lines'[item.line] = kind
      BY <1>0, <1>5, <2>2, <2>3, <3>1
    <3>3. v.errors + (IF v.replies > 0 THEN 1 ELSE 0) = IF kind = "notification" THEN 0 ELSE 1
      <4>1. CASE kind = "notification"
        BY <1>8, <3>1, <4>1
      <4>2. CASE kind # "notification" /\ item.error
        BY <1>8, <3>1, <4>2
      <4>3. CASE kind # "notification" /\ ~item.error
        BY <1>8, <3>1, <4>3
      <4> QED
        BY <1>8, <4>1, <4>2, <4>3
    <3> QED
      BY <3>2, <3>3 DEF AnsweredOnce
  <2> QED
    BY <1>1, <1>2, <2>1, <2>4
<1>10. CASE EmitFails
  <2>1. PICK n \in {k \in 0..item.messages : k < item.messages \/ k = 0} :
          written' = [written EXCEPT ![item.line].replies = @ + n]
    BY <1>10 DEF EmitFails
  <2>2. dropped' = dropped \cup {item.line}
    BY <1>10 DEF EmitFails
  <2>3. written' = [written EXCEPT ![item.line] = [w EXCEPT !.replies = @ + n]]
    BY <1>2, <1>3, <2>1
  <2>4. written'[item.line] = [replies |-> n, errors |-> 0]
    BY <1>2, <1>4, <1>8, <2>1, <2>3
  <2>5. kind = "notification" => n = 0
    BY <1>8, <2>1
  <2>6. n \in Nat
    BY <1>8, <2>1
  <2>7. AnsweredOnce(item.line)'
    <3>1. lines'[item.line] = kind /\ item.line \in dropped'
      BY <1>0, <1>5, <2>2
    <3>2. 0 + (IF n > 0 THEN 1 ELSE 0) = IF n = 0 THEN 0 ELSE 1
      BY <2>6
    <3> QED
      BY <2>4, <2>5, <3>1, <3>2 DEF AnsweredOnce
  <2> QED
    BY <1>1, <1>2, <2>2, <2>3, <2>7
<1> QED
  BY <1>9, <1>10

LEMMA EmitKeeps ==
  ASSUME ProxyInv, Emit \/ EmitFails
  PROVE  ProxyInv'
<1>0. ProxyTypes /\ ProxyTypes'
  BY TypesOfWriter DEF ProxyInv
<1>1. PICK item : item = Head(outbox)
  OBVIOUS
<1>2. /\ printer = "runs" /\ outbox # <<>> /\ item # Sentinel /\ outbox' = Tail(outbox)
      /\ UNCHANGED <<lines, reader, slots, inbox, posted, bridge, printer>>
      /\ dropped' \subseteq dropped \cup {item.line}
  BY <1>1 DEF Emit, EmitFails
<1>3. /\ item = outbox[1] /\ 1 \in DOMAIN outbox /\ Len(outbox)' = Len(outbox) - 1 /\ Len(outbox) \in Nat
      /\ DOMAIN outbox = 1..Len(outbox) /\ DOMAIN outbox' = 1..Len(outbox) - 1
      /\ \A n \in 1..Len(outbox) - 1 : outbox'[n] = outbox[n + 1]
  BY <1>0, <1>1, <1>2, HeadOfAnswers, ProxyNumbers DEF ProxyInv, ProxyTypes
<1>4. /\ item.line \in DOMAIN lines
      /\ \A l \in DOMAIN lines : l # item.line => written'[l] = written[l] /\ (l \in dropped' <=> l \in dropped)
      /\ AnsweredOnce(item.line)'
  BY <1>1, ItemAnswers
<1>5. Marks' = Marks /\ Waiting' = Waiting /\ Taken' = Taken /\ Held' = Held
  BY <1>2 DEF Marks, Waiting, Taken, Held
<1>6. LinesInOrder' /\ SlotsCounted'
  BY <1>2, <1>5 DEF ProxyInv, LinesInOrder, SlotsCounted
<1>7. item.line \in (1..Taken) \ posted
  BY <1>2, <1>3 DEF ProxyInv, QueuedOnce
<1>8. \A n \in 1..Len(outbox) - 1 : n + 1 \in DOMAIN outbox /\ n + 1 # 1
  BY <1>3
<1>9. EndInOrder'
  <2>1. ASSUME NEW n \in DOMAIN outbox', outbox'[n] = Sentinel PROVE n = Len(outbox)' /\ bridge \in {"closing", "exited"}
    <3>1. n + 1 \in DOMAIN outbox /\ outbox[n + 1] = Sentinel
      BY <1>3, <1>8, <2>1
    <3>2. n + 1 = Len(outbox) /\ bridge \in {"closing", "exited"}
      BY <3>1 DEF ProxyInv, EndInOrder
    <3> QED
      BY <1>3, <2>1, <3>2
  <2> QED
    BY <1>2, <2>1 DEF ProxyInv, EndInOrder
<1>10. QueuedOnce'
  <2>1. posted' \subseteq 1..Taken' /\ dropped' \subseteq 1..Taken'
    BY <1>2, <1>5, <1>7 DEF ProxyInv, QueuedOnce
  <2>2. ASSUME NEW n \in DOMAIN outbox', outbox'[n] # Sentinel
        PROVE  /\ outbox'[n].line \in (1..Taken) \ posted
               /\ [error |-> outbox'[n].error, messages |-> outbox'[n].messages] \in Outcomes(lines[outbox'[n].line])
    <3>1. n + 1 \in DOMAIN outbox /\ outbox'[n] = outbox[n + 1]
      BY <1>3, <1>8, <2>2
    <3> QED
      BY <2>2, <3>1 DEF ProxyInv, QueuedOnce
  <2>3. ASSUME NEW m \in DOMAIN outbox', NEW n \in DOMAIN outbox', outbox'[m].line = outbox'[n].line PROVE m = n
    <3>1. m + 1 \in DOMAIN outbox /\ n + 1 \in DOMAIN outbox /\ outbox[m + 1].line = outbox[n + 1].line
      BY <1>3, <1>8, <2>3
    <3>2. m + 1 = n + 1
      BY <3>1 DEF ProxyInv, QueuedOnce
    <3> QED
      BY <1>3, <3>2
  <2> QED
    BY <1>2, <1>5, <2>1, <2>2, <2>3 DEF QueuedOnce
<1>11. ASSUME NEW l \in DOMAIN lines, l # item.line PROVE Owed(l)' <=> Owed(l)
  <2>1. ASSUME NEW n \in DOMAIN outbox, outbox[n].line = l PROVE n - 1 \in DOMAIN outbox' /\ outbox'[n - 1] = outbox[n]
    <3>1. n # 1
      BY <1>3, <1>11, <2>1
    <3>2. n - 1 \in 1..Len(outbox) - 1 /\ n - 1 + 1 = n
      BY <1>3, <2>1, <3>1
    <3>3. outbox'[n - 1] = outbox[n - 1 + 1]
      BY <1>3, <3>2
    <3> QED
      BY <1>3, <3>2, <3>3
  <2>2. (\E n \in DOMAIN outbox' : outbox'[n].line = l) <=> \E n \in DOMAIN outbox : outbox[n].line = l
    BY <1>3, <1>8, <2>1
  <2> QED
    BY <1>2, <1>5, <2>2 DEF Owed
<1>12. ~Owed(item.line)'
  <2>1. ASSUME NEW n \in DOMAIN outbox', outbox'[n].line = item.line PROVE FALSE
    <3>1. n + 1 \in DOMAIN outbox /\ n + 1 # 1 /\ outbox[n + 1].line = outbox[1].line
      BY <1>3, <1>8, <2>1
    <3> QED
      BY <1>3, <3>1 DEF ProxyInv, QueuedOnce
  <2>2. ~(item.line > Taken)
    BY <1>0, <1>7, ProxyNumbers
  <2> QED
    BY <1>2, <1>5, <1>7, <2>1, <2>2 DEF Owed
<1>13. AnsweredOrOwed'
  <2> SUFFICES ASSUME NEW l \in DOMAIN lines
               PROVE  /\ Owed(l)' => written'[l] = [replies |-> 0, errors |-> 0] /\ l \notin dropped'
                      /\ Owed(l)' \/ AnsweredOnce(l)'
    BY <1>2 DEF AnsweredOrOwed
  <2>1. CASE l = item.line
    BY <1>4, <1>12, <2>1
  <2>2. CASE l # item.line
    <3>1. Owed(l)' <=> Owed(l)
      BY <1>11, <2>2
    <3>2. AnsweredOnce(l) => AnsweredOnce(l)'
      BY <1>2, <1>4, <2>2 DEF AnsweredOnce
    <3> QED
      BY <1>2, <1>4, <2>2, <3>1, <3>2 DEF ProxyInv, AnsweredOrOwed
  <2> QED
    BY <2>1, <2>2
<1> QED
  BY <1>0, <1>6, <1>9, <1>10, <1>13 DEF ProxyInv

\* However reading, forwarding, writing and their ends interleave (proxy_stdio.py), the bridge
\* holds no more lines than it has slots, loses no slot while it reads, and answers every
\* line it owes an answer exactly once, a notification never.
THEOREM BridgeStaysSound == ProxySpec => []BridgeSound
<1>1. ProxyInit => ProxyInv
  BY ProxyStarts
<1>2. ProxyInv /\ [ProxyNext]_proxyVars => ProxyInv'
  <2> SUFFICES ASSUME ProxyInv, [ProxyNext]_proxyVars PROVE ProxyInv'
    OBVIOUS
  <2>1. ASSUME NEW kind \in LineKinds, ClientWrites(kind) PROVE ProxyInv'
    BY <2>1, RestKeeps
  <2>2. CASE ClientCloses \/ Exit \/ WriterDies \/ UNCHANGED proxyVars
    BY <2>2, RestKeeps
  <2>3. CASE TakeSlot \/ BlankLine
    BY <2>3, SlotKeeps
  <2>4. CASE ReadStdinLine
    BY <2>4, ReadKeeps
  <2>5. ASSUME NEW raises \in BOOLEAN, EndOfInput(raises) PROVE ProxyInv'
    BY <2>5, EndKeeps
  <2>6. CASE TakeLine
    BY <2>6, TakeKeeps
  <2>7. CASE StopTaking
    BY <2>7, StopKeeps
  <2>8. ASSUME NEW l \in posted, Forwarded(l) PROVE ProxyInv'
    BY <2>8, ForwardKeeps
  <2>9. CASE Gather
    BY <2>9, GatherKeeps
  <2>10. CASE WriterEnds
    BY <2>10, WriterEndsKeeps
  <2>11. CASE Emit \/ EmitFails
    BY <2>11, EmitKeeps
  <2> QED
    BY <2>1, <2>2, <2>3, <2>4, <2>5, <2>6, <2>7, <2>8, <2>9, <2>10, <2>11 DEF ProxyNext
<1>3. ProxyInv => BridgeSound
  BY ProxyInvSuffices
<1> QED
  BY <1>1, <1>2, <1>3, PTL DEF ProxySpec
============================================================================
