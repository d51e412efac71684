----------------------------- MODULE UpdateCheck -----------------------------
(* The release check of a server process (src/cpersona/update_check.py): the  *)
(* verdict on the running version, its file beside the database, the notices  *)
(* a recall carries, and the one installer an explicit call may start.        *)
(*                                                                           *)
(* A version is its place in the order of releases.  A fetch of the index     *)
(* awaits: the startup check, the explicit refreshes and the recalls run      *)
(* between its question and its answer, and the index may change there too.   *)
EXTENDS Naturals, Sequences, FiniteSets, SequencesExt, FiniteSetsExt

CONSTANTS
  Versions,      \* releases, as numbers in their order
  PreReleases,   \* those of them that are pre-releases
  Running,       \* __version__
  RunningFinal,  \* the final release of a running pre-release
  Sessions,      \* session keys declared by callers
  NoticeCap,     \* NOTICE_SESSION_CAP
  Interval,      \* UPDATE_CHECK_INTERVAL_SECONDS, in ticks
  Fetchers,      \* the startup check and the explicit refreshes
  InstallSteps,  \* the commands of the detected install: none, one, or two
  Probes,        \* whether a detached HEAD is possible: the answers of _on_branch
  MaxTicks,      \* bound: ticks of the wall clock
  MaxPublished,  \* bound: changes of the index
  MaxFetches     \* bound: fetches begun

ASSUME UpdateCheckAssumption == NoticeCap \in Nat /\ InstallSteps \in Nat

VARIABLES
  index,      \* what the package index lists, and the releases withdrawn from it
  now,        \* the wall clock
  verdict,    \* _verdict
  checkedAt,  \* _checked_at, 0 for none
  cacheFile,  \* the verdict beside the database, its stamp 0 for none
  fetching,   \* per fetcher: the question it has under way
  toldTo,     \* _told_sessions, in the order of insertion
  notified,   \* _notice_emitted
  heard,      \* what each session, and the callers without one, heard last
  latest,     \* the issue of the latest question that got an answer in this process
  install,    \* _apply_task: its next step, its stop event, whether its caller still waits
  answer,     \* the last answer of apply that reached its caller
  published,  \* changes of the index made
  begun       \* fetches begun

updateVars == <<index, now, verdict, checkedAt, cacheFile, fetching, toldTo, notified, heard, latest,
                install, answer, published, begun>>

NoInstall == [st |-> "none", step |-> 0, stop |-> FALSE, waits |-> FALSE, failed |-> FALSE]
Unknown == [state |-> "unknown", kind |-> "none", available |-> 0]

-----------------------------------------------------------------------------
(* The decision on one index document.                                       *)

Decide(idx) ==
  LET newer == {v \in idx.listed \ PreReleases : v > Running}
      available == IF newer = {} THEN 0 ELSE Max(newer)
  IN  IF Running \notin idx.listed THEN [Unknown EXCEPT !.state = "unlisted"]
      ELSE IF Running \in idx.yanked THEN [state |-> "yanked", kind |-> "yanked", available |-> available]
      ELSE IF newer = {} THEN [Unknown EXCEPT !.state = "ok"]
      ELSE [state |-> "newer", available |-> available,
            kind |-> IF Running \in PreReleases /\ available = RunningFinal THEN "prerelease_final" ELSE "newer"]

News(v) == <<v.kind, v.available>>

-----------------------------------------------------------------------------
(* Storing an answer.                                                        *)

SupersededNever(at) == FALSE
Superseded(at) == at # 0 /\ checkedAt # 0 /\ checkedAt > at

Store(v, at) ==
  IF Superseded(at) THEN UNCHANGED <<verdict, checkedAt, toldTo, notified>>
  ELSE /\ verdict' = v
       /\ checkedAt' = at
       /\ IF verdict = Unknown \/ News(verdict) # News(v)
          THEN toldTo' = <<>> /\ notified' = FALSE
          ELSE UNCHANGED <<toldTo, notified>>

Later(at) == IF at > latest THEN at ELSE latest

\* refresh, up to its await; no two questions have the same stamp.
Question(f) ==
  /\ fetching[f] = 0
  /\ begun < MaxFetches
  /\ begun' = begun + 1
  /\ now < MaxTicks
  /\ now' = now + 1
  /\ fetching' = [fetching EXCEPT ![f] = now']
  /\ UNCHANGED <<index, verdict, checkedAt, cacheFile, toldTo, notified, heard, latest, install, answer, published>>

\* The document arrives; the file, whose write may fail, goes before the memory.
Answered(f, saved) ==
  /\ fetching[f] # 0
  /\ cacheFile' = IF saved /\ ~Superseded(fetching[f]) THEN [at |-> fetching[f], verdict |-> Decide(index)] ELSE cacheFile
  /\ Store(Decide(index), fetching[f])
  /\ latest' = Later(fetching[f])
  /\ fetching' = [fetching EXCEPT ![f] = 0]
  /\ UNCHANGED <<index, now, heard, install, answer, published, begun>>

\* An outage, or a document nobody can read: it replaces nothing.
Unanswered(f) ==
  /\ fetching[f] # 0
  /\ IF verdict = Unknown /\ checkedAt = 0 THEN Store(Unknown, 0)
     ELSE UNCHANGED <<verdict, checkedAt, toldTo, notified>>
  /\ fetching' = [fetching EXCEPT ![f] = 0]
  /\ UNCHANGED <<index, now, cacheFile, heard, latest, install, answer, published, begun>>

CacheUsable == cacheFile.at # 0 /\ now - cacheFile.at <= Interval

\* A new process: it answers from the file while that is young enough, and
\* knows nothing of an installer the old one started.
RestartCheck ==
  /\ verdict' = IF CacheUsable THEN cacheFile.verdict ELSE Unknown
  /\ checkedAt' = IF CacheUsable THEN cacheFile.at ELSE 0
  /\ latest' = IF CacheUsable THEN cacheFile.at ELSE 0
  /\ fetching' = [f \in Fetchers |-> 0]
  /\ toldTo' = <<>>
  /\ notified' = FALSE
  /\ heard' = [s \in Sessions \cup {"undeclared"} |-> News(Unknown)]
  /\ install' = NoInstall
  /\ UNCHANGED <<index, now, cacheFile, answer, published, begun>>

-----------------------------------------------------------------------------
(* The notices of a recall.                                                  *)

Remembered(s) ==
  LET told == Append(toldTo, s)
  IN  SubSeq(told, 1 + (IF Len(told) > NoticeCap THEN Len(told) - NoticeCap ELSE 0), Len(told))

NoticeDeclared(s) ==
  /\ verdict.kind # "none"
  /\ s \notin ToSet(toldTo)
  /\ toldTo' = Remembered(s)
  /\ heard' = [heard EXCEPT ![s] = News(verdict)]
  /\ UNCHANGED <<index, now, verdict, checkedAt, cacheFile, fetching, notified, latest, install, answer, published, begun>>

NoticeUndeclared ==
  /\ verdict.kind # "none"
  /\ ~notified
  /\ notified' = TRUE
  /\ heard' = [heard EXCEPT !["undeclared"] = News(verdict)]
  /\ UNCHANGED <<index, now, verdict, checkedAt, cacheFile, fetching, toldTo, latest, install, answer, published, begun>>

-----------------------------------------------------------------------------
(* The installer.                                                            *)

\* A second apply is refused while the task runs; one with nothing newer, or
\* with no command to run, ends at once.
Apply ==
  /\ install.st = "none"
  /\ IF verdict.available = 0 \/ InstallSteps = 0
     THEN answer' = [what |-> "refused", steps |-> 0] /\ UNCHANGED install
     ELSE /\ install' = [NoInstall EXCEPT !.st = IF InstallSteps = 2 THEN "probing" ELSE "between", !.waits = TRUE]
          /\ UNCHANGED answer
  /\ UNCHANGED <<index, now, verdict, checkedAt, cacheFile, fetching, toldTo, notified, heard, latest, published, begun>>

ApplyAgain ==
  /\ install.st # "none"
  /\ answer' = [what |-> "refused", steps |-> 0]
  /\ UNCHANGED <<index, now, verdict, checkedAt, cacheFile, fetching, toldTo, notified, heard, latest, install, published, begun>>

Ending(result) ==
  /\ install' = NoInstall
  /\ answer' = IF install.waits THEN [what |-> result, steps |-> install.step] ELSE answer

\* _on_branch of a checkout.
Probed(branch) ==
  /\ install.st = "probing"
  /\ IF branch = "detached" THEN Ending("refused") ELSE install' = [install EXCEPT !.st = "between"] /\ UNCHANGED answer
  /\ UNCHANGED <<index, now, verdict, checkedAt, cacheFile, fetching, toldTo, notified, heard, latest, published, begun>>

\* The head of the loop over the steps.
NextStep ==
  /\ install.st = "between"
  /\ IF install.failed THEN Ending("failed")
     ELSE IF install.stop \/ install.step = InstallSteps THEN Ending("applied")
     ELSE install' = [install EXCEPT !.st = "step", !.step = @ + 1] /\ UNCHANGED answer
  /\ UNCHANGED <<index, now, verdict, checkedAt, cacheFile, fetching, toldTo, notified, heard, latest, published, begun>>

StepEnds(ok) ==
  /\ install.st = "step"
  /\ install' = [install EXCEPT !.st = "between", !.failed = ~ok]
  /\ UNCHANGED <<index, now, verdict, checkedAt, cacheFile, fetching, toldTo, notified, heard, latest, answer, published, begun>>

\* The call is cancelled: the task goes on, and starts nothing more.
CancelApply ==
  /\ install.waits
  /\ install' = [install EXCEPT !.stop = TRUE, !.waits = FALSE]
  /\ UNCHANGED <<index, now, verdict, checkedAt, cacheFile, fetching, toldTo, notified, heard, latest, answer, published, begun>>

-----------------------------------------------------------------------------
\* The index moves, by a release or a withdrawal.
Publish(listed, yanked) ==
  /\ published < MaxPublished
  /\ published' = published + 1
  /\ index' = [listed |-> listed, yanked |-> yanked]
  /\ index' # index
  /\ UNCHANGED <<now, verdict, checkedAt, cacheFile, fetching, toldTo, notified, heard, latest, install, answer, begun>>

UpdateTick ==
  /\ now < MaxTicks
  /\ now' = now + 1
  /\ UNCHANGED <<index, verdict, checkedAt, cacheFile, fetching, toldTo, notified, heard, latest, install, answer, published, begun>>

UpdateInit ==
  /\ index = [listed |-> {Running}, yanked |-> {}]
  /\ now = 1
  /\ verdict = Unknown
  /\ checkedAt = 0
  /\ cacheFile = [at |-> 0, verdict |-> Unknown]
  /\ fetching = [f \in Fetchers |-> 0]
  /\ toldTo = <<>>
  /\ notified = FALSE
  /\ heard = [s \in Sessions \cup {"undeclared"} |-> News(Unknown)]
  /\ latest = 0
  /\ install = NoInstall
  /\ answer = [what |-> "none", steps |-> 0]
  /\ published = 0
  /\ begun = 0

UpdateNext ==
  \/ \E f \in Fetchers :
       \/ Question(f)
       \/ \E saved \in BOOLEAN : Answered(f, saved)
       \/ Unanswered(f)
  \/ RestartCheck
  \/ \E s \in Sessions : NoticeDeclared(s)
  \/ NoticeUndeclared
  \/ Apply
  \/ ApplyAgain
  \/ \E branch \in Probes : Probed(branch)
  \/ NextStep
  \/ \E ok \in BOOLEAN : StepEnds(ok)
  \/ CancelApply
  \/ \E listed \in SUBSET Versions, yanked \in SUBSET {Running} : Publish(listed, yanked)
  \/ UpdateTick

UpdateSpec == UpdateInit /\ [][UpdateNext]_updateVars

-----------------------------------------------------------------------------
(* Whatever order the answers arrive in, the verdict is that of the question  *)
(* asked last among the answered ones, and so is the file if it is as recent; *)
(* every session remembered as told has heard the news as it now stands; and  *)
(* an apply is reported done to its caller only when every step of it ran and *)
(* succeeded.                                                                 *)
UpdatesAreHonest ==
  /\ checkedAt = latest
  /\ cacheFile.at = checkedAt /\ checkedAt # 0 => cacheFile.verdict = verdict
  /\ cacheFile.at <= checkedAt \/ checkedAt = 0
  /\ \A s \in ToSet(toldTo) : heard[s] = News(verdict)
  /\ notified => heard["undeclared"] = News(verdict)
  /\ answer.what = "applied" => answer.steps = InstallSteps
============================================================================
