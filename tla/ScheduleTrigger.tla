--------------------------- MODULE ScheduleTrigger ---------------------------
(***************************************************************************)
(* One "schedule" trigger: the row of workflow_triggers, the ticks of       *)
(* flow_scheduler that read and reserve it (one at a time per process), the *)
(* runs they launch, the callback that settles the row when the task of a   *)
(* run ends, and the saves of the workflow that rewrite the row.            *)
(*                                                                         *)
(* A process runs one event loop: a stretch of code without await is        *)
(* interrupted by nothing in its own process, by anything in another.       *)
(* An operator Name_Slip is Name with one line of its code gone wrong.      *)
(***************************************************************************)
EXTENDS Naturals, FiniteSets, FiniteSetsExt

CONSTANTS
    Processes,   \* replicas of the server
    Runs,        \* bound: the runs that may be launched
    Plans,       \* the slots of each version of the schedule
    Horizon,     \* bound: the last slot
    MaxSaves,    \* bound: saves of the workflow
    MaxCrashes,  \* bound: processes killed
    SlowTicks,   \* a tick may last from a slot to the next
    SlowEnds,    \* a tick may fall between the end of a run and its callback
    LongRuns,    \* a task may drive a run for more than six hours
    None         \* SQL NULL, or nobody

Versions == DOMAIN Plans
Slots == 1..Horizon

ASSUME TriggerAssumption ==
    /\ None \notin Processes \cup Runs
    /\ None \notin [version : DOMAIN Plans, published : BOOLEAN]
    /\ Horizon \in Nat /\ MaxSaves \in Nat /\ MaxCrashes \in Nat
    /\ Versions # {} /\ Plans \in [Versions -> SUBSET Slots]
    /\ SlowTicks \in BOOLEAN /\ SlowEnds \in BOOLEAN /\ LongRuns \in BOOLEAN

VARIABLES
    clock,      \* the last slot whose instant has passed
    wf,         \* the workflow: its version, whether it is published
    saving,     \* per process: the workflow written and not yet synchronised
    trig,       \* the row of workflow_triggers
    tick,       \* per process: where its tick is, the row it read, its "now"
    runs,       \* the runs launched by the trigger
    launched,   \* history: launches of each slot
    saves, crashes

vars == <<clock, wf, saving, trig, tick, runs, launched, saves, crashes>>

Workflow == [version : Versions, published : BOOLEAN]

\* trig: nextAt is next_run_at (0 for NULL), status last_status, run last_run_id,
\* aged: last_fired_at is 6 h old. Of a run: driver is where the task that
\* drives it is, home where _on_done is registered, told what became of it, old
\* whether RUN_STALE_AFTER has passed.

\* Synchronous stretches: nothing else happens in the process.
Stretch == {"skipping", "reserving", "marking", "refused"}

\* Without SlowEnds a callback comes before the next step of a tick, a resume
\* or a crash.
Quiet == SlowEnds \/ \A r \in Runs : runs[r].told # "due"

Free(p) == tick[p].at \notin Stretch /\ saving[p] = None

\* Slip: the instant itself is taken again.
NextRun_Inclusive(version, after) ==
    LET later == {s \in Plans[version] : s >= after}
    IN  IF later = {} THEN 0 ELSE Min(later)

\* compute_next_run: the first slot strictly after an instant.
NextRun(version, after) ==
    LET later == {s \in Plans[version] : s > after}
    IN  IF later = {} THEN 0 ELSE Min(later)

-----------------------------------------------------------------------------
(* Saving the workflow: update_workflow or restore_revision, then            *)
(* sync_trigger_for_workflow, in one stretch.                               *)

\* Slip: a save that leaves the workflow published keeps the schedule.
Synced_StatusOnly(w) ==
    [trig EXCEPT !.active = w.published,
                 !.nextAt = IF w.published THEN NextRun(trig.config, clock) ELSE 0]

\* The row a save leaves: armed from now on when it is published.
Synced(w) ==
    [trig EXCEPT !.active = w.published, !.config = w.version,
                 !.nextAt = IF w.published THEN NextRun(w.version, clock) ELSE 0]

\* The first save, which publishes: the row is inserted.
Init ==
    /\ clock = 0
    /\ wf \in {w \in Workflow : w.published}
    /\ saving = [p \in Processes |-> None]
    /\ trig = [active |-> TRUE, config |-> wf.version,
               nextAt |-> NextRun(wf.version, 0),
               status |-> "none", run |-> None, aged |-> FALSE]
    /\ tick = [p \in Processes |-> [at |-> "idle", row |-> trig, now |-> 0]]
    /\ runs = [r \in Runs |->
                  [status |-> "none", driver |-> None, home |-> None,
                   told |-> "done", config |-> wf.version, now |-> 0, old |-> FALSE]]
    /\ launched = [s \in Slots |-> 0]
    /\ saves = 0 /\ crashes = 0

Save(p) ==
    /\ Free(p) /\ saves < MaxSaves
    /\ \E w \in Workflow :
          /\ wf' = w
          /\ saving' = [saving EXCEPT ![p] = w]
    /\ saves' = saves + 1
    /\ UNCHANGED <<clock, trig, tick, runs, launched, crashes>>

Sync(p) ==
    /\ saving[p] # None
    /\ trig' = Synced(saving[p])
    /\ saving' = [saving EXCEPT ![p] = None]
    /\ UNCHANGED <<clock, wf, tick, runs, launched, saves, crashes>>

-----------------------------------------------------------------------------
(* A tick of process p: fire_schedule_trigger for this row.                  *)

Goes(p, place) == tick' = [tick EXCEPT ![p].at = place]
\* The tick is over: what it read is forgotten.
Rests(p) == tick' = [tick EXCEPT ![p] = [at |-> "idle", row |-> trig', now |-> 0]]

DueNow == trig.active /\ trig.nextAt \in 1..clock

\* due_schedule_triggers; the rows before this one may launch runs first.
TickReads(p) ==
    /\ tick[p].at = "idle" /\ Free(p) /\ Quiet /\ DueNow
    /\ tick' = [tick EXCEPT ![p] = [at |-> "read", row |-> trig, now |-> clock]]
    /\ UNCHANGED <<clock, wf, saving, trig, runs, launched, saves, crashes>>

\* get_run reconciles a run by its age alone, whether a task drives it or not.
Settled(run) ==
    IF run.status = "running" /\ run.old
    THEN [run EXCEPT !.status = "over"] ELSE run

SettledRuns(r) == IF r = None THEN runs ELSE [runs EXCEPT ![r] = Settled(@)]

\* Slip: a decision that waits does not hold the next slot.
StillOpen_RunningOnly(row) ==
    /\ row.run # None
    /\ row.status = "running"
    /\ Settled(runs[row.run]).status # "over" /\ ~row.aged

\* Slip: last_status alone says that the previous run is under way.
StillOpen_Frozen(row) ==
    /\ row.run # None
    /\ \/ row.status = "running"
       \/ row.status = "awaiting" /\ Settled(runs[row.run]).status # "over"

\* The previous run holds the slot (_running_is_orphaned, _last_run_still_open).
StillOpen(row) ==
    /\ row.run # None
    /\ Settled(runs[row.run]).status # "over"
    /\ \/ row.status = "running" /\ ~row.aged
       \/ row.status = "awaiting"

TickLooks(p) ==
    /\ tick[p].at = "read" /\ Free(p) /\ Quiet
    /\ runs' = IF tick[p].row.status \in {"running", "awaiting"}
               THEN SettledRuns(tick[p].row.run) ELSE runs
    /\ Goes(p, IF StillOpen(tick[p].row) THEN "skipping" ELSE "reserving")
    /\ UNCHANGED <<clock, wf, saving, trig, launched, saves, crashes>>

\* The slot is consumed, whatever next_run_at has become.
TickSkips(p) ==
    /\ tick[p].at = "skipping"
    /\ trig' = [trig EXCEPT !.nextAt = NextRun(tick[p].row.config, tick[p].now)]
    /\ Rests(p)
    /\ UNCHANGED <<clock, wf, saving, runs, launched, saves, crashes>>

\* Slip: the slot is taken without looking at what was read.
Reserves_Blind(row) == trig.nextAt # 0

\* WHERE next_run_at = the value read.
Reserves(row) == trig.nextAt = row.nextAt

TickReserves(p) ==
    /\ tick[p].at = "reserving" /\ Quiet
    /\ IF Reserves(tick[p].row)
       THEN /\ trig' = [trig EXCEPT !.nextAt =
                            NextRun(tick[p].row.config, tick[p].now)]
            /\ Goes(p, "marking")
       ELSE UNCHANGED trig /\ Rests(p)
    /\ UNCHANGED <<clock, wf, saving, runs, launched, saves, crashes>>

\* last_status, then get_workflow in launch_triggered_run.
TickMarks(p) ==
    /\ tick[p].at = "marking"
    /\ trig' = [trig EXCEPT !.status = "running"]
    /\ Goes(p, IF wf.published THEN "launching" ELSE "refused")
    /\ UNCHANGED <<clock, wf, saving, runs, launched, saves, crashes>>

\* TriggerNotActive
TickDisarms(p) ==
    /\ tick[p].at = "refused"
    /\ trig' = [trig EXCEPT !.active = FALSE, !.status = "none", !.nextAt = 0]
    /\ Rests(p)
    /\ UNCHANGED <<clock, wf, saving, runs, launched, saves, crashes>>

\* start_run after the plan of the owner, then last_run_id, last_fired_at.
TickLaunches(p) ==
    /\ tick[p].at = "launching" /\ Free(p)
    /\ \E r \in Runs :
          /\ runs[r].status = "none"
          /\ runs' = [runs EXCEPT ![r] =
                         [status |-> "running", driver |-> p, home |-> p,
                          told |-> "waits", config |-> tick[p].row.config,
                          now |-> tick[p].now, old |-> FALSE]]
          /\ trig' = [trig EXCEPT !.run = r, !.aged = FALSE]
    /\ launched' = [launched EXCEPT ![tick[p].row.nextAt] = @ + 1]
    /\ Rests(p)
    /\ UNCHANGED <<clock, wf, saving, saves, crashes>>

\* The launch raises (plan of the owner, graph, database).
TickFails(p) ==
    /\ tick[p].at = "launching" /\ Free(p)
    /\ trig' = [trig EXCEPT !.status = "error"]
    /\ Rests(p)
    /\ UNCHANGED <<clock, wf, saving, runs, launched, saves, crashes>>

Tick(p) ==
    \/ TickReads(p) \/ TickLooks(p) \/ TickSkips(p) \/ TickReserves(p)
    \/ TickMarks(p) \/ TickDisarms(p) \/ TickLaunches(p) \/ TickFails(p)

-----------------------------------------------------------------------------
(* The runs: their own life is in AwaitedRun, here only what the row reads.  *)

RunStep == UNCHANGED <<clock, wf, saving, tick, launched, saves, crashes>>
\* A task drives the run, be it "running" or taken for an orphan.
Live(r) == runs[r].driver # None
Ended(run, status) ==
    [run EXCEPT !.status = status, !.driver = None,
                !.told = IF @ = "waits" THEN "due" ELSE @]

\* finish_run, or pause_run: the task that drives the run is done; neither
\* looks whether the run was reconciled meanwhile.
RunStops(r) ==
    /\ Live(r) /\ Free(runs[r].driver)
    /\ \E status \in {"over", "awaiting"} :
          runs' = [runs EXCEPT ![r] = Ended(@, status)]
    /\ UNCHANGED trig /\ RunStep

\* POST /runs/{run_id}/resume, on any replica, up to mark_decided: before it
\* the run goes back to its decision whatever happens (AwaitedRun).
RunResumes(r, p) ==
    /\ runs[r].status = "awaiting" /\ Free(p) /\ Quiet
    /\ runs' = [runs EXCEPT ![r].status = "running", ![r].driver = p,
                            ![r].old = FALSE]
    /\ UNCHANGED trig /\ RunStep

\* The decision expires or is abandoned.
RunUnanswered(r) ==
    /\ runs[r].status = "awaiting"
    /\ runs' = [runs EXCEPT ![r].status = "over"]
    /\ UNCHANGED trig /\ RunStep

\* Six hours pass. Without LongRuns a task ends, and calls back, before.
RunAges(r) ==
    /\ runs[r].status \in {"running", "awaiting"} /\ ~runs[r].old
    /\ LongRuns \/ (~Live(r) /\ runs[r].told # "due")
    /\ runs' = [runs EXCEPT ![r].old = TRUE]
    /\ trig' = IF trig.run = r THEN [trig EXCEPT !.aged = TRUE] ELSE trig
    /\ RunStep

\* _on_done: the row takes the status of the run and the slot that followed
\* its launch, with the configuration the tick had read.
Callback(r) ==
    /\ runs[r].told = "due" /\ Free(runs[r].home)
    /\ runs' = [runs EXCEPT ![r] = [Settled(@) EXCEPT !.told = "done"]]
    /\ trig' = [trig EXCEPT !.status = Settled(runs[r]).status,
                            !.nextAt = NextRun(runs[r].config, runs[r].now)]
    /\ RunStep

-----------------------------------------------------------------------------
\* A process is killed and restarts: its ticks, tasks and callbacks are gone.
Crash(p) ==
    /\ crashes < MaxCrashes /\ Quiet
    /\ crashes' = crashes + 1
    /\ saving' = [saving EXCEPT ![p] = None]
    /\ UNCHANGED trig /\ Rests(p)
    /\ runs' = [r \in Runs |->
                  [runs[r] EXCEPT !.driver = IF @ = p THEN None ELSE @,
                                  !.told = IF runs[r].home = p THEN "done" ELSE @]]
    /\ UNCHANGED <<clock, wf, launched, saves>>

Elapse ==
    /\ clock < Horizon
    /\ SlowTicks \/ \A p \in Processes : tick[p].at = "idle" /\ Free(p)
    /\ clock' = clock + 1
    /\ UNCHANGED <<wf, saving, trig, tick, runs, launched, saves, crashes>>

Next ==
    \/ Elapse
    \/ \E p \in Processes : Tick(p) \/ Save(p) \/ Sync(p) \/ Crash(p)
    \/ \E r \in Runs :
          \/ RunStops(r) \/ RunUnanswered(r) \/ RunAges(r) \/ Callback(r)
          \/ \E p \in Processes : RunResumes(r, p)

Spec == Init /\ [][Next]_vars

\* Every process ticks, finishes its ticks and saves, and calls back.
FairSpec ==
    /\ Spec
    /\ \A p \in Processes : WF_vars(Tick(p)) /\ WF_vars(Sync(p))
    /\ \A r \in Runs : WF_vars(Callback(r))

-----------------------------------------------------------------------------
(* What the trigger promises.                                               *)

Open(r) == Live(r) \/ runs[r].status = "awaiting"

\* "Pas de chevauchement" (fire_schedule_trigger): no run is launched beside
\* one that is under way or waits for a decision.
NoOverlap == Cardinality({r \in Runs : Open(r)}) <= 1

\* "Un double déclenchement inter-processus pour le même créneau n'est donc
\* plus possible" (flow_scheduler): a slot is launched at most once, across
\* ticks, replicas, callbacks, crashes and saves.
OneLaunchPerSlot == \A s \in Slots : launched[s] <= 1

\* "Le trigger reflète toujours le nœud trigger du graphe le plus récent et le
\* statut courant" (sync_trigger_for_workflow), between saves and as long as
\* no process dies between the two transactions of one.
ArmedAsPublished ==
    crashes = 0 /\ (\A p \in Processes : Free(p)) =>
        trig.active = wf.published /\ trig.config = wf.version

\* Nothing holds the slot any more: the workflow is published, no run is under
\* way, waits or calls back, whoever was killed is six hours old. The faults
\* and the saves of the instance are past.
Calm ==
    /\ crashes = MaxCrashes /\ saves = MaxSaves
    /\ wf.published /\ \A p \in Processes : saving[p] = None
    /\ \A r \in Runs :
          /\ ~Open(r) /\ runs[r].told # "due"
          /\ runs[r].status = "running" => runs[r].old

\* The slot s goes to launch_triggered_run, which may start a run or fail.
Tried(s) ==
    \/ launched[s] > 0
    \/ \E p \in Processes : tick[p].at = "launching" /\ tick[p].row.nextAt = s

Skipping == \E p \in Processes : tick[p].at = "skipping"

\* "Le done-callback qui solde running vit en mémoire : un redémarrage le perd et
\* fige le trigger" (_running_is_orphaned): whatever last_status was left by a
\* process that died, the slot that is due once nothing holds it is not skipped,
\* it is launched, unless a tick under way launches another one first.
DueIsServed ==
    \A s \in Slots :
        Calm /\ DueNow /\ trig.nextAt = s /\ ~Skipping ~> Tried(s) \/ ~Calm
=============================================================================
