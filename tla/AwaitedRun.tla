----------------------------- MODULE AwaitedRun -----------------------------
(***************************************************************************)
(* One row of agent_runs from its launch to its end, with the human         *)
(* decisions it stops on (core/run_main.py) and every task that drives it   *)
(* (routers/workflows.py): the launch, and one task per POST /resume.       *)
(*                                                                         *)
(* A run meets Gates approval nodes in a row.  Reaching one writes a        *)
(* snapshot and the status "awaiting"; an answer claims the row             *)
(* (awaiting -> running, the snapshot kept), replays what was done, and the *)
(* engine then takes the answer by erasing the snapshot, before any node    *)
(* downstream.  A transaction on the row is one step; a task may die        *)
(* between two of them.                                                     *)
(***************************************************************************)
EXTENDS Naturals, FiniteSets

CONSTANTS
    Launch,     \* the task that started the run
    Resumes,    \* the handlers of POST /runs/{run_id}/resume
    Gates,      \* approval nodes on the path of the run
    Replicas,   \* several processes serve the same database
    LongRuns,   \* a live task may outlast RUN_STALE_AFTER
    Outages,    \* a transaction may raise (nothing is then committed)
    None        \* SQL NULL in resumed_at

ASSUME ConstantsAssumption ==
    /\ Launch \notin Resumes
    /\ None \notin Resumes \cup {Launch}
    /\ Gates \in Nat
    /\ Replicas \in BOOLEAN /\ LongRuns \in BOOLEAN /\ Outages \in BOOLEAN

Drivers == Resumes \cup {Launch}
Gate == 1..Gates
Snap == 0..Gates

VARIABLES
    row,        \* the columns of the run that its life depends on
    pc,         \* where each task is
    gate,       \* the gate of the snapshot a task read, the last it passed
    outcome,    \* the outcome a task computed when its stream ended
    guard,      \* resume_guard: "open", "decided" or "lost"
    stopped,    \* POST /{wid}/cancel reached the task
    announcer,  \* decision_notices._announce_end, one at a time
    taken,      \* history: how often the answer of a gate was taken
    told        \* history: notify_run_finished calls for this run

vars == <<row, pc, gate, outcome, guard, stopped, announcer, taken, told>>

Terminal == {"success", "error", "cancelled"}

RowType ==
    [status : Terminal \cup {"running", "awaiting"},
     snap : Snap,                  \* paused_state: its gate, 0 for NULL
     stamp : Drivers \cup {None},      \* resumed_at: the claim that set it
     due : BOOLEAN,                    \* expires_at has passed
     old : BOOLEAN,                    \* RUN_STALE_AFTER since resumed_at
     endNotice : {"none", "pending", "sent"},
     failure : BOOLEAN]                \* failure_state is not NULL

TypeOK ==
    /\ row \in RowType
    /\ pc \in [Drivers -> {"idle", "checked", "replaying", "working",
                           "ending", "telling", "over", "dead"}]
    /\ gate \in [Drivers -> Snap]
    /\ outcome \in [Drivers -> Terminal \cup {"awaiting"}]
    /\ guard \in [Drivers -> {"open", "decided", "lost"}]
    /\ stopped \in [Drivers -> BOOLEAN]
    /\ announcer \in {"idle", "sending"}
    /\ taken \in [Gate -> Nat]
    /\ told \in Nat

-----------------------------------------------------------------------------
(* What each UPDATE of run_main does to the row.                            *)

Open(r) == r.status = "awaiting" \/ (r.status = "running" /\ r.snap # 0)

\* An end without an answer: the snapshot goes, decision_notices must tell.
ClosedAs(r, status) ==
    [r EXCEPT !.status = status, !.snap = 0, !.endNotice = "pending",
              !.old = FALSE]

\* _expire_due
Expired(r) ==
    IF r.status = "awaiting" /\ r.due THEN ClosedAs(r, "error") ELSE r

\* Back to awaiting: the snapshot is still there, the claim is forgotten.
Reopened(r) ==
    [r EXCEPT !.status = "awaiting", !.stamp = None, !.old = FALSE]

\* _release_dead_resumptions
Freed(r) ==
    IF r.status = "running" /\ r.snap # 0 /\ r.stamp # None /\ r.old
    THEN Reopened(r) ELSE r

\* Slip: any running row is taken for an orphan.
Reconciled_AnyAge(r) ==
    IF r.status # "running" THEN r
    ELSE IF r.snap # 0 THEN Reopened(r)
    ELSE [r EXCEPT !.status = "error", !.old = FALSE]

\* _reconcile_if_orphaned, for a run that is not a retry
Reconciled(r) ==
    IF r.status # "running" \/ ~r.old THEN r
    ELSE IF r.snap # 0 THEN Reopened(r)
    ELSE [r EXCEPT !.status = "error", !.old = FALSE]

\* pause_run: no condition on the status
Paused(r, g) ==
    [r EXCEPT !.status = "awaiting", !.snap = g, !.stamp = None,
              !.due = FALSE, !.old = FALSE, !.endNotice = "none"]

\* Slip: the claim forgets resumed_at.
Claimed_NoStamp(r, d) ==
    [r EXCEPT !.status = "running", !.old = FALSE]

\* The compare-and-swap that ends claim_paused_run
Claimed(r, d) ==
    [r EXCEPT !.status = "running", !.stamp = d, !.old = FALSE]

\* Slip: the claim is recognised by the status alone.
StillMine_AnyClaim(r, d) == r.status = "running"

\* The WHERE of mark_decided: the row is still the one this task claimed
StillMine(r, d) == r.status = "running" /\ r.stamp = d

\* Slip: the snapshot outlives the answer.
Decided_SnapshotKept(r) == r

\* mark_decided
Decided(r) == [r EXCEPT !.snap = 0]

\* release_paused_run: any claim that has not been decided, whoever made it
Released(r) ==
    IF r.status = "running" /\ r.snap # 0 THEN Reopened(r) ELSE r

\* stop_unanswered_resume
StopUnanswered(r, d) ==
    IF StillMine(r, d) /\ r.snap # 0 THEN ClosedAs(r, "cancelled") ELSE r

\* finish_run: a recorded pause is never an end
Finished(r, status) ==
    IF r.status = "awaiting" THEN r
    ELSE [r EXCEPT !.status = status, !.snap = 0, !.old = FALSE,
                   !.failure = (status = "error") /\ r.failure]

-----------------------------------------------------------------------------
Init ==
    /\ row = [status |-> "running", snap |-> 0, stamp |-> None, due |-> FALSE,
              old |-> FALSE, endNotice |-> "none", failure |-> FALSE]
    /\ pc = [d \in Drivers |-> IF d = Launch THEN "working" ELSE "idle"]
    /\ gate = [d \in Drivers |-> 0]
    /\ outcome = [d \in Drivers |-> "success"]
    /\ guard = [d \in Drivers |-> IF d = Launch THEN "decided" ELSE "open"]
    /\ stopped = [d \in Drivers |-> FALSE]
    /\ announcer = "idle"
    /\ taken = [g \in Gate |-> 0]
    /\ told = 0

\* With a single process the event loop is blocked from the first to the last
\* transaction of claim_paused_run: nothing else runs in between.
LoopFree == Replicas \/ \A d \in Drivers : pc[d] # "checked"

\* The task that holds a running row
Holder == IF row.stamp = None THEN Launch ELSE row.stamp

Alive(d) == pc[d] \in {"replaying", "working", "ending", "telling"}

-----------------------------------------------------------------------------
(* Time, and the reads that settle what time has made stale.                *)

DeadlinePasses ==
    /\ row.snap # 0 /\ ~row.due
    /\ row' = [row EXCEPT !.due = TRUE]
    /\ UNCHANGED <<pc, gate, outcome, guard, stopped, announcer, taken, told>>

\* RUN_STALE_AFTER passes since the row was last (re)started.
Ages ==
    /\ row.status = "running" /\ ~row.old
    /\ LongRuns \/ ~Alive(Holder)
    /\ row' = [row EXCEPT !.old = TRUE]
    /\ UNCHANGED <<pc, gate, outcome, guard, stopped, announcer, taken, told>>

\* list_awaiting, and the first transaction of a claim or of an abandon.
Sweep ==
    /\ LoopFree
    /\ row' = Expired(Freed(row))
    /\ UNCHANGED <<pc, gate, outcome, guard, stopped, announcer, taken, told>>

\* Slip: the read expires decisions but no longer reconciles orphans.
ReadRun_NoReconcile ==
    /\ LoopFree
    /\ row' = Expired(row)
    /\ UNCHANGED <<pc, gate, outcome, guard, stopped, announcer, taken, told>>

\* get_run, list_runs and prepare_replay.
ReadRun ==
    /\ LoopFree
    /\ row' = Reconciled(Expired(row))
    /\ UNCHANGED <<pc, gate, outcome, guard, stopped, announcer, taken, told>>

\* The first transaction of decision_notices.tick.
TickExpires ==
    /\ LoopFree
    /\ row' = Expired(row)
    /\ UNCHANGED <<pc, gate, outcome, guard, stopped, announcer, taken, told>>

\* abandon_paused_run by the owner, after its Sweep.
Abandon ==
    /\ LoopFree
    /\ row.status = "awaiting" /\ row.snap # 0
    /\ row' = ClosedAs(row, "cancelled")
    /\ UNCHANGED <<pc, gate, outcome, guard, stopped, announcer, taken, told>>

-----------------------------------------------------------------------------
(* POST /resume: claim_paused_run, then the resumed stream.                 *)

\* Second transaction of the claim (after a Sweep): the snapshot is read.
ClaimReads(d) ==
    /\ LoopFree
    /\ pc[d] = "idle"
    /\ row.status = "awaiting" /\ row.snap # 0
    /\ gate' = [gate EXCEPT ![d] = row.snap]
    /\ pc' = [pc EXCEPT ![d] = "checked"]
    /\ UNCHANGED <<row, outcome, guard, stopped, announcer, taken, told>>

\* The same, with a snapshot that no longer decrypts: the run is closed.
ClaimUnreadable(d) ==
    /\ LoopFree
    /\ pc[d] = "idle"
    /\ row.status = "awaiting" /\ row.snap # 0
    /\ row' = ClosedAs(row, "error")
    /\ UNCHANGED <<pc, gate, outcome, guard, stopped, announcer, taken, told>>

\* Third transaction: awaiting -> running, for one claim only.
ClaimTakes(d) ==
    /\ pc[d] = "checked"
    /\ row.status = "awaiting"
    /\ row' = Claimed(row, d)
    /\ pc' = [pc EXCEPT ![d] = "replaying"]
    /\ UNCHANGED <<gate, outcome, guard, stopped, announcer, taken, told>>

\* 409 when the row no longer waits, 422 for an answer the gate refuses.
ClaimRefused(d) ==
    /\ pc[d] = "checked"
    /\ pc' = [pc EXCEPT ![d] = "idle"]
    /\ gate' = [gate EXCEPT ![d] = 0]
    /\ UNCHANGED <<row, outcome, guard, stopped, announcer, taken, told>>

\* Slip: the stream goes on before the answer is recorded.
TakeAnswer_Unrecorded(d) ==
    /\ LoopFree
    /\ pc[d] = "replaying" /\ ~stopped[d]
    /\ StillMine(row, d)
    /\ pc' = [pc EXCEPT ![d] = "working"]
    /\ guard' = [guard EXCEPT ![d] = "decided"]
    /\ taken' = [taken EXCEPT ![gate[d]] = @ + 1]
    /\ UNCHANGED <<row, gate, outcome, stopped, announcer, told>>

\* The engine reaches the answered gate: _decision_taken, then on it goes.
TakeAnswer(d) ==
    /\ LoopFree
    /\ pc[d] = "replaying" /\ ~stopped[d]
    /\ StillMine(row, d)
    /\ row' = Decided(row)
    /\ pc' = [pc EXCEPT ![d] = "working"]
    /\ guard' = [guard EXCEPT ![d] = "decided"]
    /\ taken' = [taken EXCEPT ![gate[d]] = @ + 1]
    /\ UNCHANGED <<gate, outcome, stopped, announcer, told>>

\* The stream of task d ends: its outcome is read from the terminal event.
Ends(d, result) ==
    /\ pc' = [pc EXCEPT ![d] = "ending"]
    /\ outcome' = [outcome EXCEPT ![d] = result]

\* A node failed: _save_failure hands the snapshot to save_failure, which
\* writes it on the row whoever holds it, or gives up (too large, database).
NodeFails(d) ==
    /\ Ends(d, "error")
    /\ \E saved \in BOOLEAN :
          row' = [row EXCEPT !.failure = saved \/ row.failure]

\* The claim was freed and taken elsewhere: the gate fails, nothing runs after.
LoseAnswer(d) ==
    /\ LoopFree
    /\ pc[d] = "replaying" /\ ~stopped[d]
    /\ ~StillMine(row, d)
    /\ guard' = [guard EXCEPT ![d] = "lost"]
    /\ NodeFails(d)
    /\ UNCHANGED <<gate, stopped, announcer, taken, told>>

\* mark_decided raises: the gate fails before the answer is taken.
AnswerFails(d) ==
    /\ LoopFree /\ Outages
    /\ pc[d] = "replaying" /\ ~stopped[d]
    /\ NodeFails(d)
    /\ UNCHANGED <<gate, guard, stopped, announcer, taken, told>>

\* The stream breaks before the gate: no plan for the owner, shutdown, Stop.
ReplayBreaks(d) ==
    /\ LoopFree
    /\ pc[d] = "replaying"
    /\ \E result \in {"error", "cancelled"} : Ends(d, result)
    /\ UNCHANGED <<row, gate, guard, stopped, announcer, taken, told>>

-----------------------------------------------------------------------------
(* Past the answer: run_graph goes on to the next gate, or to its end.      *)

\* Slip: one gate too many.
ReachGate_OneMore(d) ==
    /\ LoopFree
    /\ pc[d] = "working" /\ ~stopped[d]
    /\ gate[d] <= Gates
    /\ row' = Paused(row, gate[d] + 1)
    /\ Ends(d, "awaiting")
    /\ UNCHANGED <<gate, guard, stopped, announcer, taken, told>>

\* The next approval node: on_await writes the pause under this run.
ReachGate(d) ==
    /\ LoopFree
    /\ pc[d] = "working" /\ ~stopped[d]
    /\ gate[d] < Gates
    /\ row' = Paused(row, gate[d] + 1)
    /\ Ends(d, "awaiting")
    /\ UNCHANGED <<gate, guard, stopped, announcer, taken, told>>

\* The pause cannot be written (decision_not_saved): the run fails.
PauseFails(d) ==
    /\ LoopFree /\ Outages
    /\ pc[d] = "working" /\ ~stopped[d]
    /\ gate[d] < Gates
    /\ Ends(d, "error")
    /\ UNCHANGED <<row, gate, guard, stopped, announcer, taken, told>>

\* "done", whatever gates the route taken leaves aside.
Completes(d) ==
    /\ LoopFree
    /\ pc[d] = "working"
    /\ Ends(d, "success")
    /\ UNCHANGED <<row, gate, guard, stopped, announcer, taken, told>>

WorkFails(d) ==
    /\ LoopFree
    /\ pc[d] = "working" /\ ~stopped[d]
    /\ NodeFails(d)
    /\ UNCHANGED <<gate, guard, stopped, announcer, taken, told>>

\* The client of the launch leaves, the process shuts down, Stop is noticed.
WorkCut(d) ==
    /\ LoopFree
    /\ pc[d] = "working"
    /\ Ends(d, "cancelled")
    /\ UNCHANGED <<row, gate, guard, stopped, announcer, taken, told>>

\* POST /{wid}/cancel, while the task is still in the registry.
Stop(d) ==
    /\ LoopFree
    /\ pc[d] \in {"replaying", "working", "ending"} /\ ~stopped[d]
    /\ stopped' = [stopped EXCEPT ![d] = TRUE]
    /\ UNCHANGED <<row, pc, gate, outcome, guard, announcer, taken, told>>

-----------------------------------------------------------------------------
(* The "finally" of _streaming_run.                                         *)

\* A Stop between the terminal event and the finally makes the run cancelled,
\* unless it has just paused.
FinalOutcome(d) ==
    IF stopped[d] /\ outcome[d] # "awaiting" THEN "cancelled" ELSE outcome[d]

\* Slip: a resume that lost its row settles it like any other.
Settles_LostToo(d) == guard[d] # "open" /\ outcome[d] # "awaiting"

Settles(d) == guard[d] = "decided" /\ outcome[d] # "awaiting"

\* The run is over: finish_run, in a try of its own, then the listeners.
SettleEnd(d) ==
    /\ LoopFree
    /\ pc[d] = "ending" /\ Settles(d)
    /\ \/ row' = Finished(row, FinalOutcome(d))
       \/ Outages /\ row' = row
    /\ pc' = [pc EXCEPT ![d] = "telling"]
    /\ UNCHANGED <<gate, outcome, guard, stopped, announcer, taken, told>>

\* The answer was not taken: a stopped resume closes its run, any other gives
\* the run back to whoever has to decide.
SettleUnanswered(d) ==
    /\ LoopFree
    /\ pc[d] = "ending" /\ guard[d] = "open"
    /\ \/ row' = IF stopped[d] THEN StopUnanswered(row, d) ELSE Released(row)
       \/ Outages /\ row' = row
    /\ pc' = [pc EXCEPT ![d] = "over"]
    /\ UNCHANGED <<gate, outcome, guard, stopped, announcer, taken, told>>

\* A pause is not an end, and a lost resume leaves the row to the other one.
SettleNothing(d) ==
    /\ LoopFree
    /\ pc[d] = "ending"
    /\ guard[d] = "lost" \/ (guard[d] = "decided" /\ outcome[d] = "awaiting")
    /\ pc' = [pc EXCEPT ![d] = "over"]
    /\ UNCHANGED <<row, gate, outcome, guard, stopped, announcer, taken, told>>

\* workflow_triggers.notify_run_finished
Tell(d) ==
    /\ LoopFree
    /\ pc[d] = "telling"
    /\ told' = told + 1
    /\ pc' = [pc EXCEPT ![d] = "over"]
    /\ UNCHANGED <<row, gate, outcome, guard, stopped, announcer, taken>>

\* The process is killed: no finally runs.
Dies(d) ==
    /\ Alive(d)
    /\ pc' = [pc EXCEPT ![d] = "dead"]
    /\ UNCHANGED <<row, gate, outcome, guard, stopped, announcer, taken, told>>

-----------------------------------------------------------------------------
(* decision_notices: the end of a run nobody answered.                      *)

\* Slip: the notice goes out before it is reserved.
ReserveEnd_Unreserved ==
    /\ LoopFree
    /\ row.endNotice = "pending"
    /\ announcer' = "sending"
    /\ UNCHANGED <<row, pc, gate, outcome, guard, stopped, taken, told>>

\* _reserve on end_notice, one winner between ticks and replicas.
ReserveEnd ==
    /\ LoopFree
    /\ row.endNotice = "pending"
    /\ row' = [row EXCEPT !.endNotice = "sent"]
    /\ announcer' = "sending"
    /\ UNCHANGED <<pc, gate, outcome, guard, stopped, taken, told>>

\* _tell_end, whatever becomes of the mail, then notify_run_finished.
AnnounceEnd ==
    /\ LoopFree
    /\ announcer = "sending"
    /\ announcer' = "idle"
    /\ told' = told + 1
    /\ UNCHANGED <<row, pc, gate, outcome, guard, stopped, taken>>

\* Cancelled while the notice goes out: the reservation is given back.
AnnounceCut ==
    /\ LoopFree
    /\ announcer = "sending"
    /\ announcer' = "idle"
    /\ row' = IF row.endNotice = "sent"
              THEN [row EXCEPT !.endNotice = "pending"] ELSE row
    /\ UNCHANGED <<pc, gate, outcome, guard, stopped, taken, told>>

\* Killed while the notice goes out: nothing is given back.
AnnouncerDies ==
    /\ announcer = "sending"
    /\ announcer' = "idle"
    /\ UNCHANGED <<row, pc, gate, outcome, guard, stopped, taken, told>>

-----------------------------------------------------------------------------
Claim(d) ==
    ClaimReads(d) \/ ClaimUnreadable(d) \/ ClaimTakes(d) \/ ClaimRefused(d)

Replay(d) ==
    TakeAnswer(d) \/ LoseAnswer(d) \/ AnswerFails(d) \/ ReplayBreaks(d)

Work(d) ==
    ReachGate(d) \/ PauseFails(d) \/ Completes(d) \/ WorkFails(d) \/ WorkCut(d)

Settle(d) ==
    SettleEnd(d) \/ SettleUnanswered(d) \/ SettleNothing(d) \/ Tell(d)

Reader == DeadlinePasses \/ Ages \/ Sweep \/ ReadRun \/ TickExpires \/ Abandon

Announcer == ReserveEnd \/ AnnounceEnd \/ AnnounceCut \/ AnnouncerDies

Next ==
    \/ Reader
    \/ Announcer
    \/ \E d \in Resumes : Claim(d) \/ Replay(d)
    \/ \E d \in Drivers : Work(d) \/ Settle(d) \/ Stop(d) \/ Dies(d)

Spec == Init /\ [][Next]_vars

-----------------------------------------------------------------------------
(* Safety.                                                                  *)

\* A task that may still run nodes, or write the end of the run.
Holds(d) == pc[d] = "working" \/ (pc[d] = "ending" /\ Settles(d))

\* mark_decided lets a single task past a decision: the nodes downstream never
\* run in two tasks at once, whatever claims were freed and taken again
\* (_decision_taken: "la suite ne doit pas s'executer deux fois").
OneHolder ==
    \A d, e \in Drivers : Holds(d) /\ Holds(e) => d = e

\* From the moment the answer is taken, nothing puts the run back in the hands
\* of an answerer: release_paused_run, the reconciliation and the sweep all
\* look for a snapshot that mark_decided has erased.
HeldIsNotOpen ==
    \A d \in Drivers : Holds(d) => ~Open(row)

\* The answer of a gate sets the run going once: every other claim is refused
\* or finds the decision taken (claim_paused_run, mark_decided).
TakenOnce ==
    \A g \in Gate : taken[g] <= 1

\* Whatever is freed, expired, abandoned, stopped or reconciled, a run that
\* waits has the snapshot to resume from, a claimed one can be freed
\* (_release_dead_resumptions needs resumed_at), an ended one keeps none.
NoStrandedRun ==
    /\ row.status = "awaiting" => row.snap # 0 /\ row.stamp = None
    /\ row.status = "running" /\ row.snap # 0 => row.stamp # None
    /\ row.status \in Terminal => row.snap = 0

\* The listeners of the end (workflow_done triggers, failure alerts) are told
\* at most once, by the task that finished the run or by decision_notices.
EndToldOnce == told <= 1

\* Nobody but its holder changes the status of a run past its decision, as
\* long as RUN_STALE_AFTER has not passed since resumed_at: a second replica,
\* a sweep or an abandon that read the run earlier never wins over it.
HeldIsStable ==
    [][\A d \in Drivers :
          Holds(d) /\ Holds(d)' /\ ~row.old => row'.status = row.status]_vars

\* Once its answer is taken, a gate is never asked again (comment on
\* on_answered: "une coupure ne doit plus remettre le run en attente").
AnsweredNeverReopens ==
    [][\A g \in Gate :
          taken[g] > 0 /\ row'.status = "awaiting" /\ row'.snap = g
              => row.status = "awaiting" /\ row.snap = g]_vars

\* The run keeps the promise of DecisionPromise.
Promise == INSTANCE DecisionPromise WITH answers <- taken, ends <- told

KeepsPromise == Promise!Spec

-----------------------------------------------------------------------------
(* Liveness.                                                                *)

\* A request under way and a stream that runs go on, unless they die.
Progress(d) ==
    ClaimTakes(d) \/ ClaimRefused(d) \/ Replay(d) \/ Work(d) \/ Settle(d)

\* Time passes, the scheduler ticks every minute, the owner and the assignee
\* open their lists now and then; nobody has to answer.
FairSpec ==
    /\ Spec
    /\ WF_vars(DeadlinePasses) /\ WF_vars(Ages)
    /\ WF_vars(TickExpires) /\ WF_vars(Sweep) /\ WF_vars(ReadRun)
    /\ \A d \in Drivers : WF_vars(Progress(d))

\* Every run ends, answered or not, through any crash of its tasks: a claim
\* whose task died is freed, an unanswered decision expires, an orphan is
\* reconciled.
EveryRunEnds == <>[](row.status \in Terminal)
=============================================================================
