--------------------------- MODULE EmbeddingHealth ---------------------------
(* The process-wide health of the embedding backend and the advisory a recall *)
(* carries (src/cpersona/health.py).  Recalls of several callers, and health  *)
(* runs, report what their own embedding call met; any of them may report     *)
(* between another's call and the advisory it is given.                       *)
EXTENDS Naturals, Sequences, FiniteSets

CONSTANTS
  AdvisoryKeys,             \* session keys callers declare
  ADVISORY_SESSION_CAP,     \* the most keys remembered
  FAULT_PROMOTE_THRESHOLD,  \* consecutive failures before a fault
  SharedTransport,          \* config.shared_transport()
  MaxFailures               \* bound: failures counted

ASSUME EmbeddingHealthAssumption ==
  /\ ADVISORY_SESSION_CAP \in Nat
  /\ MaxFailures \in Nat /\ FAULT_PROMOTE_THRESHOLD \in 1..MaxFailures

VARIABLES
  modeNone,   \* whether EMBEDDING_MODE is "none"
  backend,    \* _state
  failures,   \* _consecutive_failures
  advisedTo,  \* _told_sessions, in the order of insertion
  emitted,    \* _advisory_emitted
  asking,     \* where each caller's recall is: "idle", "asked" or "searched"
  unanswered, \* the calls that failed since one reached the backend and was answered
  fullTo,     \* the callers given the full runbook since the backend was last known healthy
  advice      \* the last advice, with what was true when it was given

advisoryVars == <<modeNone, backend, failures, advisedTo, emitted, asking, unanswered, fullTo, advice>>

Keyless == "keyless"
AdvisedCallers == AdvisoryKeys \cup {Keyless}

NoAdvice == [to |-> Keyless, what |-> "silence", told |-> FALSE, unanswered |-> 0]

AdvisoryInit ==
  /\ modeNone = FALSE
  /\ backend = "unknown" /\ failures = 0 /\ advisedTo = <<>> /\ emitted = FALSE
  /\ asking = [c \in AdvisedCallers |-> "idle"]
  /\ unanswered = 0 /\ fullTo = {}
  /\ advice = NoAdvice

(* observe_config: the static hint, at the entry of a recall.                 *)
ObserveConfig(c) ==
  /\ asking[c] = "idle"
  /\ asking' = [asking EXCEPT ![c] = "asked"]
  /\ backend' = IF modeNone THEN "hint" ELSE backend
  /\ UNCHANGED <<modeNone, failures, advisedTo, emitted, unanswered, fullTo, advice>>

(* observe_ok re-arms every caller's full runbook.                            *)
ObserveOk ==
  /\ backend' = "healthy"
  /\ failures' = 0
  /\ advisedTo' = <<>>
  /\ emitted' = FALSE
  /\ fullTo' = {}

(* observe_failure: a fault after enough failures in a row, re-armed once as  *)
(* it is entered.                                                             *)
ObserveFailure ==
  /\ failures < MaxFailures
  /\ failures' = failures + 1
  /\ UNCHANGED fullTo
  /\ IF failures' < FAULT_PROMOTE_THRESHOLD
     THEN UNCHANGED <<backend, advisedTo, emitted>>
     ELSE /\ backend' = "fault"
          /\ IF backend # "fault" THEN advisedTo' = <<>> /\ emitted' = FALSE
                                  ELSE UNCHANGED <<advisedTo, emitted>>

AnsweredAtAll(outcome) == outcome \in {"reached", "cached"}

(* Which outcomes of the recall's embedding call are an observation of the    *)
(* backend: a vector from the client's cache says nothing about it.           *)
AnsweredByBackend(outcome) == outcome = "reached"

(* The vector search of a recall: the remote service or the embedding call    *)
(* answers, the cache does, or the call fails.  With the mode "none" there is *)
(* no client and the search is not entered.                                   *)
SearchObserves(c, outcome) ==
  /\ asking[c] = "asked"
  /\ asking' = [asking EXCEPT ![c] = "searched"]
  /\ UNCHANGED <<modeNone, advice>>
  /\ unanswered' = CASE outcome = "reached" -> 0
                     [] outcome = "failed" -> unanswered + 1
                     [] OTHER -> unanswered
  /\ IF modeNone
     THEN outcome = "cached" /\ UNCHANGED <<backend, failures, advisedTo, emitted, fullTo>>
     ELSE \/ outcome = "failed" /\ ObserveFailure
          \/ outcome # "failed" /\ AnsweredByBackend(outcome) /\ ObserveOk
          \/ /\ outcome # "failed" /\ ~AnsweredByBackend(outcome)
             /\ UNCHANGED <<backend, failures, advisedTo, emitted, fullTo>>

(* The probe of a health run and its prefetch report failures only: recovery  *)
(* stays with recall.                                                         *)
ProbeFails ==
  /\ ~modeNone
  /\ ObserveFailure
  /\ unanswered' = unanswered + 1
  /\ UNCHANGED <<modeNone, asking, advice>>

(* _remember_told: a key already there keeps its place; the oldest is evicted.*)
RememberedTold(keys, k) ==
  LET with == IF \E i \in DOMAIN keys : keys[i] = k THEN keys ELSE Append(keys, k)
  IN  IF Len(with) > ADVISORY_SESSION_CAP THEN Tail(with) ELSE with

(* Whether this caller is given the full runbook.                             *)
Full(c) ==
  IF c = Keyless THEN ~emitted \/ (SharedTransport /\ backend = "fault")
                 ELSE \A i \in DOMAIN advisedTo : advisedTo[i] # c

(* maybe_advisory, at the end of the recall.                                  *)
Advise(c) ==
  LET what == IF backend \in {"unknown", "healthy"} THEN "silence" ELSE IF Full(c) THEN "full" ELSE "short"
  IN  /\ asking[c] = "searched"
      /\ asking' = [asking EXCEPT ![c] = "idle"]
      /\ advice' = [to |-> c, what |-> what, told |-> c \in fullTo, unanswered |-> unanswered]
      /\ fullTo' = IF what = "full" THEN fullTo \cup {c} ELSE fullTo
      /\ emitted' = (emitted \/ (what # "silence" /\ c = Keyless))
      /\ advisedTo' = IF what # "silence" /\ c # Keyless THEN RememberedTold(advisedTo, c) ELSE advisedTo
      /\ UNCHANGED <<modeNone, backend, failures, unanswered>>

(* The process starts again, with the mode it is then configured for.         *)
RestartAdvisory(mode) ==
  /\ modeNone' = mode
  /\ backend' = "unknown" /\ failures' = 0 /\ advisedTo' = <<>> /\ emitted' = FALSE
  /\ asking' = [c \in AdvisedCallers |-> "idle"]
  /\ unanswered' = 0 /\ fullTo' = {}
  /\ advice' = NoAdvice

AdvisoryNext ==
  \/ \E c \in AdvisedCallers :
       \/ ObserveConfig(c)
       \/ \E o \in {"reached", "cached", "failed"} : SearchObserves(c, o)
       \/ Advise(c)
  \/ ProbeFails
  \/ \E mode \in BOOLEAN : RestartAdvisory(mode)

AdvisorySpec == AdvisoryInit /\ [][AdvisoryNext]_advisoryVars

(* However the callers' recalls and the probes interleave: a recall is silent *)
(* about the backend exactly when fewer calls than the threshold have failed  *)
(* since the backend last answered a recall (the cache's answer is none),     *)
(* a session that declared its key is given the short reminder only after the *)
(* full runbook of this outage, and a caller without one on a shared          *)
(* transport is never given the short form of a fault.                        *)
OutageIsTold ==
  /\ ~modeNone => (advice.what = "silence" <=> advice.unanswered < FAULT_PROMOTE_THRESHOLD)
  /\ advice.what = "short" /\ advice.to # Keyless => advice.told
  /\ advice.what = "short" /\ advice.to = Keyless /\ SharedTransport => modeNone
============================================================================
