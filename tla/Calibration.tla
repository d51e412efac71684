---------------------------- MODULE Calibration ----------------------------
(***************************************************************************)
(* Gate calibration (cpersona/admin_handlers.py, cpersona/vector.py): each *)
(* server process keeps thresholds, gates and precision overrides (betas)  *)
(* in memory, and all processes on a database share one sidecar file,      *)
(* rewritten whole under a lock. A calibration measures for minutes        *)
(* between reading a corpus and saving; purges, precision changes, other   *)
(* calibrations and other processes run meanwhile.                         *)
(*                                                                         *)
(* A measured threshold is which process measured which epoch of the       *)
(* agent's corpus (a wipe begins the next); a gate is also the beta it was *)
(* measured at.                                                            *)
(***************************************************************************)
EXTENDS Naturals, FiniteSets

CONSTANTS
    CalServers,       \* processes sharing the database
    CalAgents,     \* agent ids
    GlobalScope,   \* agent_id '': the store's own threshold
    Betas,         \* precision overrides
    DefaultBeta,   \* config.FUSED_GATE_BETA
    None_,         \* no entry
    Current_,      \* _CURRENT_PRECISION: the call names no override
    Calls_,        \* calls that can be in flight
    MaxCalibrations, MaxTroubles   \* bounds: calls; wipes, restarts and sidecar faults together

ASSUME CalibrationConstants ==
    /\ {MaxCalibrations, MaxTroubles} \subseteq Nat
    /\ GlobalScope \notin CalAgents

VARIABLES
    side,    \* the sidecar: [kind, thr, gate, beta]
    mem,     \* server -> its memory
    inFlight,\* call -> where a calibration stands
    epoch,   \* agent -> how often its corpus was wiped
    wiping,  \* <<server, agent>>: rows deleted, calibration not yet dropped
    lost,    \* the sidecar was once damaged
    spentOn    \* [calibrations, troubles]

calibrationVars == <<side, mem, inFlight, epoch, wiping, lost, spentOn>>

Axes == {"thr", "gate", "beta"}
Targets == CalAgents \cup {GlobalScope}
NoEntries == [s \in Targets |-> None_]
Nobody == [x \in Axes |-> {}]
Booted == [thr |-> NoEntries, gate |-> NoEntries, beta |-> NoEntries,
           own |-> Nobody, pend |-> Nobody, purges |-> [a \in CalAgents |-> 0], guarded |-> FALSE]
AtEase == [at |-> "idle"]
Trouble(yes) == spentOn.troubles + (IF yes THEN 1 ELSE 0) <= MaxTroubles
                /\ spentOn' = [spentOn EXCEPT !.troubles = @ + (IF yes THEN 1 ELSE 0)]

\* _get_precision_beta
PrecisionOf(betas, a) == IF betas[a] = None_ THEN DefaultBeta ELSE betas[a]

\* _record_agent_calibration_change, _record_global_calibration_change
Changed(m, axes, a) == [m EXCEPT !.own = [x \in Axes |-> IF x \in axes THEN @[x] \cup {a} ELSE @[x]],
                                 !.pend = [x \in Axes |-> IF x \in axes THEN @[x] \cup {a} ELSE @[x]]]

----------------------------------------------------------------------------
(* Starting and measuring                                                  *)

\* do_calibrate_threshold as far as its sample (a purge between the count it notes and the
\* sample discards it all the same; too few rows end it); ov is Current_, None_ (clear) or a
\* beta (do_set_recall_precision)
BeginCalibration(c, p, a, ov) ==
    /\ inFlight[c] = AtEase /\ spentOn.calibrations < MaxCalibrations
    /\ a = GlobalScope => ov = Current_
    /\ inFlight' = [inFlight EXCEPT ![c] =
           [at |-> "apply", p |-> p, a |-> a, ov |-> ov, beta |-> None_,
            epoch |-> IF a = GlobalScope THEN 0 ELSE epoch[a],
            purges |-> IF a = GlobalScope THEN 0 ELSE mem[p].purges[a]]]
    /\ spentOn' = [spentOn EXCEPT !.calibrations = @ + 1]
    /\ UNCHANGED <<side, mem, epoch, wiping, lost>>

\* Mutant of PurgedMeanwhile: what was measured is kept whatever happened since.
PurgedMeanwhileNever(call) == FALSE

\* The agent was purged by this process since the call began.
PurgedMeanwhile(call) == call.a # GlobalScope /\ mem[call.p].purges[call.a] # call.purges

\* The threshold enters process memory; the gate is measured next, at the override or at
\* the precision the agent has now.
ApplyThreshold(c) ==
    LET call == inFlight[c] p == call.p a == call.a IN
    /\ call.at = "apply"
    /\ IF PurgedMeanwhile(call)
       THEN inFlight' = [inFlight EXCEPT ![c] = AtEase] /\ UNCHANGED mem
       ELSE /\ mem' = [mem EXCEPT ![p] = Changed([@ EXCEPT !.thr[a] = [by |-> p, epoch |-> call.epoch]], {"thr"}, a)]
            /\ inFlight' = [inFlight EXCEPT ![c].at = "save",
                   ![c].beta = IF a = GlobalScope THEN None_
                               ELSE IF call.ov = Current_ THEN PrecisionOf(mem[p].beta, a)
                               ELSE IF call.ov = None_ THEN DefaultBeta ELSE call.ov]
    /\ UNCHANGED <<side, epoch, wiping, lost, spentOn>>

----------------------------------------------------------------------------
(* The save                                                                *)

\* _refresh_unchanged_calibration: owned entries this process has not changed are taken
\* from the file.
RefreshedFrom(m) ==
    IF side.kind # "good" THEN m
    ELSE LET fresh(x, live) == [s \in Targets |->
                 IF s \in m.own[x] \ m.pend[x] /\ ~(s = GlobalScope /\ side[x][s] = None_) THEN side[x][s] ELSE live[s]]
         IN  [m EXCEPT !.thr = fresh("thr", @), !.gate = fresh("gate", @), !.beta = fresh("beta", @)]

\* _stored_calibration_to_carry: stored entries this process does not own, while the file
\* is of this scoring version and dimension.
Carried(m, x) == [s \in Targets |-> IF side.kind = "good" /\ s \notin m.own[x] THEN side[x][s] ELSE None_]

Overlay(m, x, live) == [s \in Targets |-> IF live[s] # None_ THEN live[s] ELSE Carried(m, x)[s]]

\* From the purge check to the rename there is no await. `measured` is whether a gate
\* came out of the queries; `lock` whether the sidecar's lock was taken (and an unreadable
\* file copied aside), `saved` whether the file was written.
Save(c, measured, lock, saved) ==
    LET call == inFlight[c] p == call.p a == call.a
        m1 == IF lock THEN RefreshedFrom(mem[p]) ELSE mem[p]
        gated == measured /\ a # GlobalScope /\ (call.ov = Current_ => PrecisionOf(m1.beta, a) = call.beta)
        m2 == IF gated
              THEN Changed([m1 EXCEPT !.gate[a] = [at |-> call.beta, by |-> p, epoch |-> call.epoch]], {"gate"}, a)
              ELSE m1
        \* no gate at the new beta, and one at another: the stored beta stays
        unpaired == /\ call.ov # Current_ /\ ~gated /\ call.beta # PrecisionOf(m2.beta, a)
                    /\ (m2.gate[a] # None_ \/ Carried(m2, "gate")[a] # None_)
        betas == Overlay(m2, "beta", m2.beta)
        \* set_recall_precision adopts the override once it is on disk
        adopts == call.ov # Current_ /\ lock /\ saved /\ ~unpaired
        m3 == IF lock /\ saved THEN [m2 EXCEPT !.pend = Nobody] ELSE m2
    IN  /\ call.at = "save" /\ (a = GlobalScope => ~measured)
        /\ inFlight' = [inFlight EXCEPT ![c] = AtEase]
        /\ IF PurgedMeanwhile(call) THEN UNCHANGED <<side, mem, spentOn>> /\ lock /\ saved
           ELSE /\ Trouble(~(lock /\ saved))
                /\ mem' = [mem EXCEPT ![p] =
                       IF adopts THEN [m3 EXCEPT !.beta[a] = call.ov, !.own["beta"] = @ \cup {a}] ELSE m3]
                /\ side' = IF lock /\ saved
                           THEN [kind |-> "good", thr |-> Overlay(m2, "thr", m2.thr), gate |-> Overlay(m2, "gate", m2.gate),
                                 beta |-> IF call.ov = Current_ \/ unpaired THEN betas ELSE [betas EXCEPT ![a] = call.ov]]
                           ELSE side
        /\ UNCHANGED <<epoch, wiping, lost>>

----------------------------------------------------------------------------
(* Purges, restarts, other versions                                        *)

\* do_delete_agent_data: the rows, then (the commit's await in between) the calibration.
WipeRows(p, a) ==
    /\ <<p, a>> \notin wiping /\ Trouble(TRUE)
    /\ epoch' = [epoch EXCEPT ![a] = @ + 1] /\ wiping' = wiping \cup {<<p, a>>}
    /\ UNCHANGED <<side, mem, inFlight, lost>>

\* A memory or a file without the entries of a.
Without(f, a) == [f EXCEPT !.thr[a] = None_, !.gate[a] = None_, !.beta[a] = None_]

\* _purge_agent_calibration: memory, the purge count, the claim, and under the lock the
\* file, which keeps its version and time.
PurgeCalibration(p, a, saved) ==
    LET dropped == Changed([Without(mem[p], a) EXCEPT !.purges[a] = @ + 1], Axes, a)
        released == [dropped EXCEPT !.pend = [x \in Axes |-> @[x] \ {a}]]
        readable == side.kind \in {"good", "stale"}
        removed == \E x \in Axes : mem[p][x][a] # None_ \/ (readable /\ side[x][a] # None_)
        rewrites == readable /\ removed
    IN  /\ <<p, a>> \in wiping /\ wiping' = wiping \ {<<p, a>>}
        /\ (~saved => rewrites) /\ Trouble(~saved)
        /\ side' = IF rewrites /\ saved THEN Without(side, a) ELSE side
        /\ mem' = [mem EXCEPT ![p] = IF rewrites /\ saved THEN released ELSE dropped]
        /\ UNCHANGED <<inFlight, epoch, lost>>

Fallen(P) ==
    /\ mem' = [p \in CalServers |-> IF p \in P THEN Booted ELSE mem[p]]
    /\ inFlight' = [c \in Calls_ |-> IF inFlight[c].at # "idle" /\ inFlight[c].p \in P THEN AtEase ELSE inFlight[c]]
    /\ wiping' = {w \in wiping : w[1] \notin P}
    /\ Trouble(TRUE)

\* A process ends and another starts; or all do, in a version that scores otherwise.
Reboot(p) == Fallen({p}) /\ UNCHANGED <<side, epoch, lost>>
Upgrade == /\ side.kind = "good" /\ side' = [side EXCEPT !.kind = "stale"]
           /\ Fallen(CalServers) /\ UNCHANGED <<epoch, lost>>

\* ensure_calibrated_on_startup, beside the tools already served: restores a file of this
\* version, or the betas alone of one that is not. What it then calibrates are calls.
Restored(m) ==
    LET stored(x) == [s \in Targets |-> IF s \notin m.pend[x] /\ side[x][s] # None_ THEN side[x][s] ELSE m[x][s]]
        named(x) == {s \in Targets : side[x][s] # None_}
        good == side.kind = "good"
    IN  [m EXCEPT !.guarded = TRUE, !.beta = stored("beta"),
                  !.thr = IF good THEN stored("thr") ELSE m.thr,
                  !.gate = IF good THEN stored("gate") ELSE m.gate,
                  !.own = [x \in Axes |-> IF x = "beta" THEN m.own[x] \cup named(x)
                                          ELSE IF good THEN m.own[x] \cup named(x) \cup (IF x = "thr" THEN {GlobalScope} ELSE {})
                                          ELSE m.own[x]]]

RestoreCalibration(p) ==
    /\ ~mem[p].guarded
    /\ mem' = [mem EXCEPT ![p] = IF side.kind \in {"good", "stale"} THEN Restored(@) ELSE [@ EXCEPT !.guarded = TRUE]]
    /\ UNCHANGED <<side, inFlight, epoch, wiping, lost, spentOn>>

\* The file is damaged from outside; the next save copies it aside and carries nothing.
DamageSidecar ==
    /\ side.kind = "good" /\ Trouble(TRUE) /\ lost' = TRUE
    /\ side' = [kind |-> "unreadable", thr |-> NoEntries, gate |-> NoEntries, beta |-> NoEntries]
    /\ UNCHANGED <<mem, inFlight, epoch, wiping>>

CalibrationInit ==
    /\ side = [kind |-> "absent", thr |-> NoEntries, gate |-> NoEntries, beta |-> NoEntries]
    /\ mem = [p \in CalServers |-> [Booted EXCEPT !.guarded = TRUE]]  \* a first start: nothing to restore
    /\ inFlight = [c \in Calls_ |-> AtEase]
    /\ epoch = [a \in CalAgents |-> 0] /\ wiping = {}
    /\ lost = FALSE /\ spentOn = [calibrations |-> 0, troubles |-> 0]

CalibrationNext ==
    \/ \E c \in Calls_, p \in CalServers, a \in Targets, ov \in Betas \cup {None_, Current_} : BeginCalibration(c, p, a, ov)
    \/ \E c \in Calls_ : ApplyThreshold(c)
    \/ \E c \in Calls_, measured, lock, saved \in BOOLEAN : Save(c, measured, lock, saved)
    \/ \E p \in CalServers, a \in CalAgents : WipeRows(p, a) \/ \E saved \in BOOLEAN : PurgeCalibration(p, a, saved)
    \/ \E p \in CalServers : RestoreCalibration(p) \/ Reboot(p)
    \/ Upgrade \/ DamageSidecar

CalibrationSpec == CalibrationInit /\ [][CalibrationNext]_calibrationVars

----------------------------------------------------------------------------
(* Properties                                                              *)

\* Measured by p, on a corpus that p has since purged (n counts its purges).
Old(v, p, n) == v # None_ /\ v.by = p /\ v.epoch < n

\* Nothing a process measured on a corpus it has purged is in its memory, nor in the
\* sidecar but where it still has to rewrite it.
PurgesAreFinal ==
    \A p \in CalServers, a \in CalAgents, x \in {"thr", "gate"} :
        lost \/ /\ ~Old(mem[p][x][a], p, mem[p].purges[a])
                /\ Old(side[x][a], p, mem[p].purges[a]) => a \in mem[p].pend[x]

\* The step saves a calibration, and the entry of s is its own or one the process changed.
SavedBy(c, x, s) == /\ inFlight[c].at = "save" /\ inFlight'[c] = AtEase
                    /\ inFlight[c].a = s \/ s \in mem[inFlight[c].p].pend[x]

\* An entry of a readable file changes by such a save, or by the agent's purge.
EntriesKept ==
    side.kind = "good" /\ side'.kind = "good" =>
        \A x \in Axes, s \in Targets : side[x][s] # None_ /\ side'[x][s] # side[x][s] =>
            \/ \E c \in Calls_ : SavedBy(c, x, s)
            \/ \E p \in CalServers : <<p, s>> \in wiping \ wiping'

\* Two processes rewrite the sidecar whole. Once a process has purged an agent, nothing it
\* measured on the deleted corpus is in its memory or in the sidecar, however long a
\* calibration of the agent was under way: neither a late threshold nor a gate, nor what
\* another process had loaded and writes back. Only a file the purge could not rewrite
\* keeps it, until the next save; and once the file was damaged, a process no longer learns
\* from it what others dropped. And an entry of a readable file changes only when it is the
\* calibrated agent's own, the saving process had itself changed it since its last save, or
\* the agent was purged (bug-189): no process deletes or reverts what another one stored.
SidecarIsSafe == [][PurgesAreFinal' /\ EntriesKept]_calibrationVars
=============================================================================
