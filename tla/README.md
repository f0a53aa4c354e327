# TLA+ models of apowerb workflow runs

apowerb runs workflows of agents, tools and human decisions. This directory
holds TLA+ modules that model the part of the program where steps of several
actors meet on the same database row: the runs, the decisions they wait on, the
notices, the retries, the triggers that start them and the mails behind them. TLC checks the modules on
small instances, TLAPS proves the main safety properties for every instance.

Sources are cited relative to `src/src/apowerb/`.

## The system

| Component | State it keeps | Operations | Talks to |
|---|---|---|---|
| Run lifecycle (`core/run_main.py`, `routers/workflows.py`) | `agent_runs`: status, `paused_state`, `resumed_at`, `expires_at`, `failure_state`, `end_notice`; per process: `_runs`, `_detached_runs` | `start_run`, `pause_run`, `claim_paused_run`, `mark_decided`, `release_paused_run`, `abandon_paused_run`, `stop_unanswered_resume`, `finish_run`, reads that expire and reconcile, `POST /cancel` | graph engine (callbacks `on_await`, `on_answered`, `on_fail`), notices, triggers |
| Retry from failure (same files) | `failure_state`, `failure_node`, `replay_of` of two rows | `save_failure`, `prepare_retry`, `_give_back_retry`, `_purge_failure_states`, reconciliation of a retry | run lifecycle, definitions |
| Decision notices (`core/decision_notices.py`) | `notified_at`, `reminded_at`, `remind_at`, `end_notice` | `tick`, `deliver`, `_announce_end` | mail, Teams, triggers |
| Graph engine (`core/workflow_graph.py`, `core/workflow_engine.py`) | outputs, routes and handled errors of one run, in memory | `run_graph`, `_Compiler._wrap`, `_pause`, `_save_failure`, loops, try, sub-workflows | external agent framework |
| Triggers (`core/workflow_triggers.py`, `core/flow_scheduler.py`, `core/workflow_file_triggers.py`) | `workflow_triggers`: `active`, `config`, `next_run_at`, `last_status`, `last_run_id`, `last_fired_at` | `tick_once`, `fire_schedule_trigger`, `_on_done`, `sync_trigger_for_workflow`, `reserve_next_poll`, `fire_workflow_done_triggers`, `call_agent_tool` | run lifecycle, definitions |
| Definitions and versions (`core/workflow_main.py`) | workflows, revisions, published version | CRUD, publish, restore | triggers |
| Failure alerts (`core/workflow_alerts.py`) | `agent_runs.failure_alert`, `workflow_failure_alerts` | `alert_run_failed`, `_take_slot`, `_release` | run lifecycle, mail, Teams |
| Mail subscriptions (`core/workflow_mail_subscriptions.py`, `scheduler/webhook_renewal.py`) | `webhook_subscriptions`, subscriptions at Microsoft Graph | `reconcile_outlook_subscriptions`, `_renew_expiring_subscriptions`, `has_active_workflow_subscription` | triggers, Graph, queue of logs |
| Queue of webhook logs (`scheduler/backlog_worker.py`, `routers/webhook_handlers/outlook.py`, `routers/webhooks.py`) | `webhook_logs`; per process: the cooldown | `handle_outlook_notification`, `process_once`, `process_webhook_log_row`, `_split_into_children`, `retrigger_webhook_log`, `delete_subscription` | Graph, agent runtime, triggers |
| Quotas, agent runtime, BI, other integrations, accounts | tables of their own | CRUD, external calls | external services |

What is hard here: every operation on a run is one or several short SQL
transactions with no lock between them; several replicas may share the database;
a task may be killed between two transactions; reads settle what time has made
stale (expired decisions, dead resumptions, orphans); a "Stop" and the end of a
stream race; notices and listeners must be told once.

What makes each component correct:

- run lifecycle: the nodes after a decision run in one task, an answer is taken
  once and never asked again, no run waits without the means to be resumed or
  expired, every run ends and its end is told once;
- retry: a failure is retried by one run at a time and is not lost while no
  retry has gone through;
- notices: the assignee of the decision that waits is asked, once, and the end
  of an unanswered decision is announced;
- triggers: one launch per slot, no overlap, the schedule is the one of the
  latest graph, no slot comes back, no trigger freezes after a crash;
- graph engine: what a chain of runs has done is one path of its graph, a replayed
  node never runs, a run resumes at the node where the last one stopped, nothing
  that was done is lost;
- chains: every listener is launched once per end, chains are bounded;
- alerts and polls: one mail an hour, a failure that is grouped is told by a later mail; one run per
  file;
- mail subscriptions: the mailbox of an owner who wants it is heard again after any
  fault, a mail launches its workflows by one path;
- queue of logs: every log settles, a split leaves no PDF out, a retrigger is honoured.

## AwaitedRun

`AwaitedRun.tla` models one row of `agent_runs` from launch to end and the tasks
that drive it: the launch and one task per `POST /resume`.

- `row` holds the columns: `status`; `snap`, the gate of `paused_state` (0 for
  NULL); `stamp`, the claim that wrote `resumed_at`; `due`, whether `expires_at`
  has passed; `old`, whether `RUN_STALE_AFTER` has passed since the row was last
  (re)started; `endNotice`; `failure`, whether `failure_state` is there.
- `pc`, `gate`, `outcome`, `guard`, `stopped` are the locals of
  `_event_generator` and `_decision_taken`, one per task.
- `announcer` is `_announce_end` for this run. One is enough: `end_notice` turns
  from `pending` to `sent` for a single winner and a row that ended this way
  never pauses again.
- `taken` and `told` are history: how often the answer of a gate was taken and
  how often `notify_run_finished` was called.

Each row operator (`Expired`, `Freed`, `Reconciled`, `Paused`, `Claimed`,
`Decided`, `Released`, `StopUnanswered`, `Finished`) is the UPDATE of one function
of `run_main`, its WHERE included. The actions follow the code:

- a transaction is one step, and so is a stretch of a task without `await`. With
  one process (`Replicas = FALSE`) the event loop is blocked from the first to
  the last transaction of `claim_paused_run` (`LoopFree`); replicas interleave
  between any two transactions. `Sweep` is also the first transaction of a claim
  and of an abandon, committed even when the request is then refused.
- `Outages`: a transaction may raise; nothing is then committed and the handler
  goes on as its `except` says.
- `LongRuns`: a live task may outlast `RUN_STALE_AFTER` (6 h).
- a task may die (`Dies`) at any point after its claim. `ClaimRefused` stands for
  409, 422 and a handler that dies before its compare-and-swap: all leave the
  row alone.
- `Stop(d)` may reach any live task; the code keeps one registry per process, so
  this allows more stops than the code does.
- a run with parallel approvals stops at one of them at a time, so a path of
  `Gates` decisions in a row is what a task sees. A run may complete without
  passing all gates (routes).

Left out: who may answer (404/403), the columns that only lists read, traces, and
retries of the row (`RetryFromFailure`).

| Run | Instance | Shows |
|---|---|---|
| `one` | 1 process, long runs, outages, 2 gates, 2 resumes | `TypeOK`, `TakenOnce`, `AnsweredNeverReopens`, refinement of `DecisionPromise` (`KeepsPromise`) |
| `replicas` | replicas, long runs, outages, 2 gates, 2 resumes, fairness | `OneHolder`, `HeldIsNotOpen`, `NoStrandedRun`, `EndToldOnce`, `EveryRunEnds`, `HeldIsStable` |

Two gates are what it takes for a snapshot of one decision to meet the row of
another; two resumes, beside the launch, let one claim be freed while another holds
the row. Every counter is bounded by the number of gates and tasks, no state
constraint is needed. Handlers are interchangeable, so `Resumes` is a symmetry set
in `one`, which has no liveness property.

Fairness (`FairSpec`): time passes, the scheduler ticks every minute
(`flow_scheduler._loop`), somebody opens a list or a run now and then (`Sweep`,
`ReadRun`: without any read nothing reconciles a dead run, as the docstring of
`list_runs` says), and a task that runs goes on. No fairness on answering,
abandoning, stopping or dying.

### What the code does beside its text

`TakenOnce` holds in one process only: `claim_paused_run` reads the snapshot in one
transaction and takes the row in another with `WHERE status='awaiting'`. On two replicas
the run can be answered and pause at its second gate in between; the late claim then
replays the first snapshot, and `mark_decided` accepts it, since the row is indeed its
own. `one` therefore checks it, and `replicas` does not.

A late resume may also give back a claim that is not its own: `release_paused_run`
compares no `resumed_at`, unlike `stop_unanswered_resume` and `mark_decided`, although
the comment in `_streaming_run` reads "Une autre reprise tient la ligne : ni fin, ni
remise en attente". The safety runs include these steps: the run is then claimed again,
and `mark_decided` still lets one resume through.

The model also shows that a failure snapshot may outlive a failure: when
`mark_decided` raises at the gate, `save_failure` writes one on a run that goes back
to waiting, and `abandon_paused_run`, `_expire_due` and `stop_unanswered_resume` do
not erase it, although `finish_run` says only a failure keeps one.

### Proofs

`AwaitedRunProofs.tla` proves for every set of handlers, every number of gates and
every value of `Replicas`, `LongRuns` and `Outages`, from `ConstantsAssumption`
alone: `TypeCorrect`, `SingleHolder`, `HolderKeepsRun`, `NeverStranded`,
`ToldOnce`.

None of these invariants is inductive. That two tasks never hold a run rests on
what a claim may still do: a task that replays and is still recognised by
`mark_decided` must find its snapshot (`ClaimsHaveSnapshot`), a row with a snapshot
or waiting (`Open`) has no holder and was told to nobody (`HoldersOwnTheRow`,
`OpenIsUntold`), and only one of the holder and the notices ever tells the end
(`TellersAlone`, `NoticesAlone`). `IInv` is their conjunction. Steps split in two
kinds: the quiet ones, where no task becomes a holder, a claimer or a teller and
the row only moves in four ways (`Same`, `Reopens`, `Closes`, `Orphans`), are
handled by one lemma, `QuietStep`; the others (`ClaimTakes`, `TakeAnswer`,
`ReachGate`, `SettleEnd`, `Tell`, the announcer) have one lemma each.

`HeldStable` states the action property `HeldIsStable` from the same invariant.

In one process (hypothesis `~Replicas` on the constant) the refinement is proved too.
`AnswersInOrder` adds `InOrder` to `IInv`: the gates answered are the ones before the gate that
the row waits on, or up to the one its holder has passed (`Answered`); between the
transactions of a claim nothing moves the row (`ClaimsRunAlone`, which is what `LoopFree` is
for and what fails on replicas); a claim that `mark_decided` would accept has read the
snapshot that the row holds (`ClaimsAreFresh`). From it: `AnswerTakenOnce`
(`TakenOnce`), `NeverReopens` (`AnsweredNeverReopens`) and `PromiseKept`, which shows that
`AwaitedRun` implements `DecisionPromise` (`KeepsPromise`), `taken` for `answers` and `told`
for `ends`: `TakeAnswer` maps to `Answer`, `Tell` and `AnnounceEnd` to `End`, every other step to
a stutter (`HistoryStep`, `PromiseStep`).

Only model-checked: `EveryRunEnds` (liveness, out of the prover's reach).

## DecisionNotices

`DecisionNotices.tla` models what `decision_notices` says about one run while the
run lives its life: the columns `notified_at`, `reminded_at` (`row.mark`, the stamp
being the pass that wrote it) and `end_notice`, the decision of the last pause
(`row.asks`), and the passes, `tick` of every replica and `deliver` alike. The life
of the row is the one of `AwaitedRun`, cut down to what moves these columns; the
tasks that drive the run are not needed here, so their steps are free.

A pass goes through notices, reminders and ends. For each it reads the rows it must
serve (`ReadRow`), and when the turn of this run comes, after the messages of the
others, reserves its column (`Reserve`) and sends (`Send`, `TellEnd`): three steps,
with anything in between. `late` is the "now" of the pass: a reminder that comes
after the pass began waits for the next. A cancelled pass (`Cut`) gives its
reservation back when it is still its own; a killed one (`Killed`) does not. A mail
that fails is tried and not tried again, so `tries` counts
attempts and `sent` holds the decisions they were for.

| Run | Instance | Shows |
|---|---|---|
| `once` | 2 passes, 2 decisions, a shutdown, kills | `OncePerPause`, `EndToldOnce` |
| `reach` | 2 passes, 1 decision, a shutdown, fairness | `DecisionNoticed`, `DecisionReminded`, `EndReachesListeners` |

Two passes and two decisions are what it takes for one pass to act on a row another
pass has served and the run has left; one shutdown separates a reservation given
back from one that is kept (`again` counts the ones given back). Fairness is that of the
scheduler: a pass begins every minute and goes on to its end. `Kills` is off in
`reach`: a process killed between `_reserve` and the send loses that message, which
the docstring accepts by reserving before sending.

`reach` has a single decision for a reason: `_reserve` compares the status and the empty column, not the
pause that was read. A pass that holds the row of the first decision while it writes
to others meets the run at its second decision, reserves that notice, and sends the
first: the wrong person gets a closed question, and the assignee of the waiting
decision gets nothing before the reminder.

### Proofs

`DecisionNoticesProofs` proves `OncePerPause` and `EndToldOnce` for any number of passes,
decisions, shutdowns and kills, from `NoticesAssumption` (the passes are finitely many,
none of them is NULL). The inductive invariant `NInv` adds to the types:

- `Live`: a run that waits, or was answered, has asked for a decision;
- `Owed`: while the column of a kind is empty, one message of that kind fewer was tried
  or reserved than the pauses and the returned reservations allow. This is what makes
  `Reserve` safe whatever the pass had read before, and what `GivenBack` restores: it
  empties the column and counts the return in the same transaction;
- `EndTold`: at most one pass is telling the end or has told it, the row says so from
  the reservation on, and only a run that nobody will answer has an end to tell. A
  cancelled pass may give the end back, since it has told nobody before
  `notify_run_finished`.

`SendingMoves` and `SendingCount` (what a step of one pass does to the set of passes that
hold a reservation) carry the counting. That each message goes out at all
(`DecisionNoticed`, `DecisionReminded`, `EndReachesListeners`) is liveness and stays with
TLC.

## ScheduleTrigger

`ScheduleTrigger.tla` models one row of `workflow_triggers` of kind `schedule`.

- Time is the number of slots that have passed (`clock`); a version of the schedule is
  the set of its slots (`Plans`), `NextRun` is `compute_next_run`, `at` schedules being
  the ones with a single slot. 0 stands for NULL.
- `trig` is the row: `active`, `config`, `next_run_at`, `last_status`, `last_run_id`,
  and whether `last_fired_at` is more than six hours old (`aged`). Success, error and
  cancellation of a run are one status, `over`.
- `tick[p]` is the tick of process `p` (one at a time, `_lock`): the row it read and
  its `now`. It reads (`TickReads`), looks at the previous run (`TickLooks`), skips
  or reserves the slot, marks the row, launches, each transaction a step. Inside a
  process the stretch from the look to the mark has no `await` (`Free`); the read may
  be old, since other rows may launch first.
- `runs` are the runs it launched, cut down to what the row reads of them, with the
  closure of `_on_done` (`home`, `config`, `now`); `Callback` is `_on_done`. A run that
  pauses ends its task, and is resumed by another (`RunResumes`).
- `saving` is a workflow written and not yet synchronised: `Save` then `Sync`, one
  stretch in one process. The version check of `_write_if_unchanged` orders the
  writes; it does not cover the second transaction.
- `Crash` kills a process with its tick, its tasks and its callbacks.

| Run | Instance | Shows |
|---|---|---|
| `process` | 1 process, slow ticks, 3 slots, 2 schedules, a save, a crash, fairness | `ArmedAsPublished`, `DueIsServed` |
| `ticks` | 2 processes, 3 slots, a save, a crash | `NoOverlap`, `OneLaunchPerSlot` |
| `lateend` | 1 process, `SlowEnds` | `NoOverlap` is violated |

What the passing runs assume, and why it matters. Without `LongRuns` a task drives its run
for six hours at most. The code does not see to it: `_running_is_orphaned` and the
reconciliation of `get_run` look at the age alone (`RunAges`, `Settled`), although the comment
above `_RUNNING_STALE_AFTER` wants a long run never to be taken for dead ("sinon double
lancement"). With `LongRuns` TLC breaks `NoOverlap` in fourteen states, in one process with
prompt callbacks: a slot is launched, the run turns six hours old under its task, the tick of
the next slot takes it for an orphan and launches beside it. When the first task ends, its
callback writes its status over the second run and its slot over `next_run_at`, so that
`OneLaunchPerSlot` falls too. A run that was reconciled and then ends or pauses overwrites
the reconciliation, since `finish_run` and `pause_run` do not look for it (`RunStops`).
Without `SlowEnds`, `_on_done` comes
before the next tick, resume or crash; the code only promises it comes after
`notify_run_finished` and `deliver`, which send mail, and `lateend` shows what happens
otherwise: the next slot is launched as if the previous run were an orphan, then
launched again beside itself. With a crash in that interval a run that waits is left
under `last_status` "running", and six hours later `_running_is_orphaned` lets a slot
be launched beside it. Without `SlowTicks` a tick is over before the next slot,
five minutes away at least (`TICK_SECONDS`); one process needs no such assumption, two
do: a launch that lasts until the next slot is invisible to the other replica, which
finds the previous run over. Three slots are what a slot launched, one skipped and one
set back need; three runs can then be launched. Deadlock is not checked, since a
schedule may have no slot left. Fairness: every process goes on ticking, and finishes
what it began; none on the runs.

`DueIsServed` is about the trigger that a dead process leaves under "running" or "awaiting".
Once nothing holds the slot (`Calm`: no run is driven, waits or calls back, and those whose
process was killed are six hours old), the slot that is due goes to `launch_triggered_run`;
that it may skip it, as long as something is open, is what `TickSkips` is for. The saves and
crashes of the instance are past, since a save moves the slot and a crash of the launch loses
it. The launch itself may raise (`TickFails`): the slot is then consumed under "error".
A `StillOpen` that believes `last_status` freezes the trigger, and TLC finds it.

A slot that was skipped may come back: `_on_done` computes `next_run_at` from the launch (`after=now`, with the
configuration read then), although the reservation has already moved it and ticks or
saves may have moved it since. By the same line a schedule edited during a run gets a
slot of the old schedule back. On two replicas two saves may be synchronised in the
other order, since only the write of the workflow compares versions, and a tick that found
the workflow unpublished disarms the row without a condition, after another process has
published it again; `ticks` therefore leaves `ArmedAsPublished` to one process.

Left out: the deletion of the workflow, triggers that change kind, `get_run` failing (the
slot is then skipped), the other kinds of triggers.

### Proofs

`ScheduleTriggerProofs.tla` proves the three properties for any plans, runs, saves, crashes
and horizon. `NoOverlapping` and `OneLaunch` have the hypothesis `Orderly`, on constants
alone: no `SlowEnds`, no `LongRuns`, and one process or no `SlowTicks`. It is what the passing
runs assume, and each part is needed: `lateend` is the counterexample without the first, the run
of more than six hours the one without the second, the launch that lasts until the next slot the
one without the third. `Armed` needs one process (`OneProcess`), and
no more: it holds with `SlowEnds` too.

A launch is a chain of five transactions, so what keeps two of them apart is spread over the row, the ticks and the callbacks to come. The invariant `IInv` says:

- `Ticks`: ticks under way began at one slot (`Together`), and one of them at most is past
  its reservation (`Taken`).
- `Ahead(p)`: `next_run_at` is past the slot that `p` read, and no callback to come can set
  it back there. It is what makes `WHERE next_run_at = ...` enough.
- `Watched(p)`: whoever has still to look or to reserve saw the run that is open, or is
  `Ahead`, so that its reservation fails; while a slot is taken no run is open and no
  callback is to come.
- `Told(r)`: a run that a task drives is "running" and not yet six hours old, and its task is
  the one that calls back, or a resume.
- `Shown(r)`: the row names the run that is open; `last_status` is "running" while its task
  has still to call back, "awaiting" once it did.
- `Behind(s)`: a slot that was launched is behind `next_run_at`, behind the "now" of the
  ticks under way and behind what the callbacks to come will write.

Most steps launch nothing and move `next_run_at` only forward: `QuietKeeps` says once
that such a step keeps `IInv`; `TickReads`, `TickReserves`, `TickLaunches` and `Elapse` have
proofs of their own. `NextRunIs` is the only lemma about data: `compute_next_run` answers
something strictly later, or nothing (`WFMin` for the least slot). One assumption was added
to `TriggerAssumption` for it: `NULL` is not a workflow. TLC was run on `IInv` over the states
of both instances. `DueIsServed` is liveness and stays with TLC.

## GraphRun

`GraphRun.tla` models `run_graph` over a chain of runs of one workflow: the launch,
then the resume of each decision and the retry of each failure. It is the inside of
what `AwaitedRun` calls `Replay`, `Work` and a gate; `Settle` is the end of the stream
that `AwaitedRun` splits into transactions.

- a graph is its nodes, numbered, its edges `<<source, target, route>>`, and for each
  node its kind (`approval`, `merge`, the others are `step`), the routes it declares
  and its `on_error`. `ValidGraph` is `validate_graph` without the checks of templates,
  references and node configurations. Versions of a workflow are a tuple of graphs:
  the runs of a chain use one of them until the workflow is edited before a retry.
- `_Compiler` is `outputs`, `routes`, the node that runs (`now`) and what `resume`
  gave it. The parts of `_wrap` are `Leave` (`cancel_event`), `Replay`, then `Begin`
  or `Ask` (`Fresh`), and `Complete` or `Fail` when the body has returned; a body
  awaits, so `Stop` may come between.
- the agent framework (ADK) that calls the nodes is external: `ready` is a queue with
  one set of nodes per node that handed over, called one at a time
  (`max_concurrency=1`) in the order of the graph; `joined` is what each `JoinNode` has
  received. The join and the body of a merge are one step.
- loops, try bodies, sub-workflows, retries of a call and `timeout_s` are the outcome
  of a body: a route of the node, what `on_error` makes of a failure, or a failure.
- `paused` and `failure` are `paused_state` and `failure_state` of the row that may be
  continued. A snapshot that is too large, or whose writing fails, leaves the row as
  it was: a pause is then an error, a failure keeps what a retry had copied (`Retry`),
  and a run whose answer was not taken goes back to waiting (`Untaken`).
- `calls`, `execs`, `first`, `edited` and `converged` are history. `execs` follows the snapshots: a
  run that starts from an older snapshot has run again what came after it, by design
  after a stop (`_give_back_retry`).

| Run | Instance | Shows |
|---|---|---|
| `graph` | five graphs, chains of four runs, edits, every `until`, fairness of `Run` | `PathJustified`, `OncePerCall`, `ResumesWhereItStopped`, `DoneStaysDone`, `RunEnds` |

The graphs are small but hold what the engine tells apart: a decision beside a branch
with a merge that a route goes round; a router before a decision before another; an
error route and a node that continues; the same with a node and an edge more; two
branches of different length that converge without a merge, beside a third one that
pauses before what is below the second call. Four runs let a chain pause twice and fail or
stop in between. Fairness: `run_graph` goes on (the event loop is not blocked and a
body returns, fails or is bounded by its `timeout_s`); none on launching, answering,
retrying or stopping.

`PathJustified` is about runs in which no node is called twice (`CalledOnce`), the
three others about chains of such runs on one graph (`Faithful`). Branches that
converge without a merge call what is below once per branch, and the last output and
route replace the first (`_wrap`). Two things follow. If the second call fails, the
node is both failed and among the outputs, so the retry replays it instead of running
it. And if a router takes another way at its second call, a replay takes that way at
its first call: a run that paused on another branch in between, and resumes, runs what
is below the router before it reaches the decision that was answered, in a run that
has called no node twice yet. This is why `converged` remembers the earlier runs: with
`CalledOnce` alone the fifth graph of `MCGraph` violates the three properties.

Chains whose graph was edited are left out of the three: with a new branch, ADK may
reach the new node before it has replayed everything; a failure or a pause there saves
a snapshot made of what this run replayed so far (`compiler.outputs`), and the rest of
the upstream runs again on the next retry, although `run_main.py:1509` says it never
does.

The model also shows that the copy a retry starts with outlives a failure of its own
that is not kept: `prepare_retry` on that retry starts again from the older snapshot
instead of answering `retry_unavailable`, also after the retry passed a decision.

Not modelled: `_retry_runner` failing before `run_graph` starts, `_purge_failure_states`,
unreadable snapshots, two requests on the same row.

### Proofs

`GraphRunProofs` proves `TypeOK`, `PathJustified`, `ResumesWhereItStopped`, `OncePerCall`
and `DoneStaysDone` for every set of versions, every
valid graph and any number of runs; the only assumption is `GraphsAssumption`. The
inductive invariant `IInv` adds to the types:

- `Located`: a run that pauses or fails knows at which node, so the snapshot it leaves
  can be continued;
- `Waiting`: a run that waits, or that was given an answer it has not taken, still
  holds its snapshot;
- `Counted`: a node among the outputs has been called, and one that runs although it
  is already among them has been called twice. This is what turns `CalledOnce` into
  "a new output replaces none";
- `Fed`: not only the outputs but the nodes ADK still holds, the node that runs and
  the inputs of each merge come along the recorded route of a node that is done.

`PathJustified` alone is not inductive: it says nothing of the queue. `StartFacts` uses
the absence of cycles (a part of a graph that is closed upwards has a first node),
`RetryStep` shows that `retry_mismatch` keeps the nodes of the snapshot in an edited
graph.

The three properties of a resumed run need to know in which order ADK calls the nodes.
`RInv`, the second invariant, says it without counting calls: a `Walk` is a set of
places (what ADK holds, and what is done) that contains the first one and, with each
place but the last, the place after the call of the one node due there, along given
routes.

- `AllSound`: the routes of a snapshot lead from the first place to one where the node
  of the snapshot is due and exactly its outputs are done; each of them ran once;
- `Replaying`: until it has called a node of its own, a resumed run is at a place of
  the walk of its snapshot. `DueOnce` (ADK takes the nodes of a set in the order of the
  graph) makes the next place the same one, so the first node that is not replayed is
  the one where the last run stopped (`NextOfReplay`);
- `Walked`: the routes of the run lead to the place where it is, or where it called the
  node that runs. `WalkGrows` extends them by one call; it needs that no output is
  replaced, hence `CalledOnce`;
- `Past`: from there on, all that was done before is done, and nothing ran twice;
- `Entered`: a body, a pause or a failure comes after the replay.

All of `RInv` but the existence of a walk can be evaluated by TLC; with the walk
computed from the routes instead of asserted, it holds on the run above. `RunEnds` is a
liveness property and is checked by TLC only.

## RetryFromFailure

`RetryFromFailure.tla` models the rows of a run and of its retries: `failure_state`
(`fail`), `failure_node`, `replay_of` (`of`), `paused_state`, and who may take a
failure up. The graph is a chain of nodes and a snapshot the number of nodes done;
what a snapshot holds is the matter of `GraphRun`.

- `prep[h]` is one request `retry-from-failure`, each transaction of `prepare_retry` a
  step: it reads and reconciles (`PrepareReads`), may be refused by the graph of today
  (`PrepareRefuses`) or by a key that changed (`PrepareCannotRead`), consumes the
  failure by compare-and-swap (`PrepareConsumes`), opens the run (`PrepareStarts`) and
  copies the snapshot (`PrepareCopies`), or dies anywhere.
- `GivenBack`, `Finished`, `Reconciled`, `Purged`, `WithFailure` are the UPDATEs of
  `_give_back_retry`, `finish_run`, `_reconcile_if_orphaned`, `_purge_failure_states`
  and `save_failure`.
- the task of a run executes, pauses, fails with or without a snapshot, is stopped,
  ends or dies. The decision it waits for is taken, refused by an exception of
  `mark_decided`, released, stopped, abandoned or expires; the races between several
  answers are `AwaitedRun`.
- `unrecorded` is history: runs that ended without a snapshot of their own.

| Run | Instance | Shows |
|---|---|---|
| `retry` | a run and two retries, four nodes, a decision on the second, two requests | `OneWayOn`, `DoneNotRedone`, `NothingSkipped`, `FailureKept` |

Two retries are a retry of a retry, and a failure given back then taken up again; two
requests race for each. Four nodes, one of them a decision, let a retry pass the
decision, fail after it and be taken up behind it. No run is left outside the bound:
a request consumes only when a row is free (`Room`).

`FailureKept` names every step by which a failure is given up (`GivenUp`). Three of
them are worth a reader's attention: a retry that waits for a decision and is
abandoned, stopped before its answer is taken, or expires takes the failure with it,
since `abandon_paused_run`, `stop_unanswered_resume` and `_expire_due` do not call
`_give_back_retry`, although the section above it says of a stopped retry that it must
not take with it the only possibility to go on.

What the run assumes: only dead tasks are reconciled as orphans. A retry that outlasts
`RUN_STALE_AFTER` (6 h) gives its failure back while it runs, and the work goes on
twice. `PrepareConsumes` compares `failure_state` with NULL and not with what was read: if
between the two transactions of a request the failure is taken up by another, whose run
goes further, fails and is stopped, what the request consumes is newer than what it
replays. The run in between ended stopped, so `DoneNotRedone` leaves it out.

### Proofs

`RetryFromFailureProofs.tla` proves the four properties for any number of runs, nodes,
requests, wherever the decisions are. None is inductive: they speak of the
rows, and the rows are right because of where tasks and requests are. `IInv` adds, part by part:

- `Tasks`: a task drives a run that is under way, and knows whether it waits;
- `Lineage`: at most one run is under way and it is the last opened, each retry is `of` a
  run that ended in error, an absent row holds nothing;
- `Requests`: a request works on a failed run, and the run it has opened is its own until
  the snapshot is copied;
- `OnePlace`: at most one row, or else one request, from which the work may go on;
  `OneWayOn` counts what this part states by quantifiers (`OneWay`);
- `Coverage`: the nodes before a snapshot, or before where a run is, were executed by runs
  up to it; a run that succeeds is at the last node, hence `SkipsNothing`;
- `Fresh`: a snapshot that may still be replayed is not behind what a recorded run has done.
  It is the part one would not guess: a request that has read a failure and not yet consumed
  it is bound by it only as long as that failure is there or may be given back
  (`Recoverable`). From it a new run starts at or after what the older ones did, hence `NotRedone`.

The steps are proved action by action, from lemmas on what each UPDATE does to the rows
(`GivenBack`, `Finished`, `WithFailure`). `KeepsFailures` takes the same invariant and the
step. TLC checks `IInv` on the instance with three runs and four nodes
(232 941 states). `RetryAssumption` is all that is assumed of the constants.

## WorkflowChain, FailureAlerts, FilePolls

Three components of the triggers with no state in common; `MCTriggers` explores one
of them per behaviour, in one run.

`WorkflowChain.tla` models runs that launch runs. A run ends (`Tells` is `finish_run`
and the first stretch of `notify_run_finished`), then launches the workflows that listen
to it one by one (`LaunchesListener`, `Skips`), and may be cut (`LaunchBreaks`, `Dies`). A
run also calls a workflow as a tool and waits for the task it launched (`Calls`, `TimesOut`,
`Returns`): once that task is over (`TaskEnds`), by its end or at a decision, the call has its
answer, whatever becomes of the run since, which a decision resumes as a task of its own.
`chain` is `run.trigger.detail.chain`; `owed` and `cut` are history. `Causes` recomputes,
from who launched whom, what the chain should say: `ChainsStop` and `EveryListenerHears`
compare the two.

`FailureAlerts.tla` models the tasks `alert_run_failed` of one workflow: the claim of the
run, the hourly slot of `workflow_failure_alerts` read then taken by a conditional
insert or update, up to `Tries` times, the mail, and the slot given back when the mail is cut.
A failure too soon after a mail is counted in the slot (`Counts`), and its run marked "grouped" in
the transaction that follows (`Groups`): a kill in between leaves the run "claimed" for good, and
counted. `counted` is history; `GroupedAreTold` bounds what is told by it, and in one process where
no task is cut it is the failures left out.
`replicas` is chosen at the start: in one process nothing comes between the claim and the
mail.

`FilePolls.tla` models one trigger `file`: the poll is reserved, the folder listed and
compared with `workflow_trigger_seen_files`, a run launched per file, then the memory
written. Files appear, change and vanish; a listing may be empty or raise.

| Run | Instance | Shows |
|---|---|---|
| `triggers`, chains | 3 workflows, 4 listeners in two cycles, a tool, 4 runs, chains of 2 | `ChainsStop`, `EveryListenerHears` |
| `triggers`, alerts | 3 failures, cooldown 2, 2 tries, one process or several | `OneAlertAnHour`, `GroupedAreTold` |
| `triggers`, polls | 2 files of 2 versions, 2 processes, a fault | `OneRunPerFile` |

Bounds. Chains are 5 long in the code (`MAX_TRIGGER_CHAIN`) and 2 here, with cycles of two
workflows and four runs, so that both the cycle and the length stop a chain. Two tries
stand for the three of `_take_slot`: three failures can overtake one of them twice.
Three intervals see a file appear, change and be polled by the other process. Deadlock
is not checked: bounded runs, clocks and files come to an end.

Assumed: `_take_slot` is over before the cooldown passes, and a poll before the next one
is due (minutes). A poll that lasts longer than its interval launches its files twice.

What the code does that its text does not say:

- nothing sets `_current_chain` (`workflow_agent_tools.py:50`), so `prior_chain` is
  always empty: a workflow whose agent holds the tool of that workflow calls itself without
  bound, although `workflow_triggers.py:71` names this case as the one the bound is for;
  `CurrentChain` is the empty sequence here, and `ChainsStop` counts the links made by ends;
- a run launched as a tool carries the chain `[itself]`, so when it ends
  `next_trigger_chain` refuses the workflow itself and none of its listeners is
  launched, although `notify_run_finished` speaks of every end: `EveryListenerHears`
  leaves these runs out;
- `EveryListenerHears` also leaves out the ends that were `cut`: a launch that raises, a shutdown or a
  time limit in the middle of the loop leaves the other listeners out (`fire_workflow_done_triggers`
  catches `TriggerNotActive` only);
- a run that is reconciled as an orphan is never told, nor is the end cut by the time limit of a tool;
- a provider that answers an error gives an empty listing (`ListsNothing`), which replaces
  the memory: the next listing is taken for a first pass and launches nothing.

### Proofs

`WorkflowChainProofs.tla` proves the two properties of the chains for any workflows and
listeners, any number of runs and any `MaxChain`. `Causes` is a recursive function over
runs: it is well defined, and unique, because a run is launched by an older one (`Lineage`;
`WFMin` of the library for the order on numbers). `Chained` then says that
the chain a run carries is the chain of its parent and the workflow of its parent, and the
lemma `CausesAre` that the causes of a run launched by an end are the chain it carries; that
chain is never longer than `MaxChain` and names no workflow twice, since
`next_trigger_chain` refuses both.
`Heard` says of a run whose end is being told that each listener is launched or still to be
launched (`todo`). `ChainAssumption` is all that is assumed of the constants: the bound is a
number, and no row and no chain is `NULL`.

`TriggersProofs.tla` proves `OneAlertAnHour` for any number of failures, tries and
hours, on one process or several. A stamp is the hour at which a task took the slot, while its
mail is about to leave or has left (`Stamped`). `Spaced` says that two stamps are a cooldown
apart, and that each is not after the stamp of the row, or a cooldown old: the second case is
what `_release` leaves, since the stamps before the one given back are a cooldown older
than it. Who takes the slot read a stamp a cooldown old, and the row still holds it:
every other stamp is then a cooldown old.

`GroupedTold` proves `GroupedAreTold`, for a cooldown that is not zero and finitely many runs
(`LedgerConstants`). The ledger sets what the mails have told, or are about to tell (`Paid`),
and what waits in the slot (`Waiting`) against the failures counted (`CountedRuns`). `Paid + Waiting <=
CountedRuns` is not inductive: a task may have read a count and take the slot later. So
`Covered` keeps for every task that may still take the slot that its count is paid for, both
while the row holds the stamp it has read and when the stamp it has read is the one of a slot
given back: a mail that is cut after another task took the slot releases it again, and the
first reader then matches. That the mail with the stamp of the slot is the only one comes from
`Spaced`, and two readers never both match because a new stamp is `Cooldown` later than
any stamp that can be taken. In one process the task between claim and mail is alone
(`AloneAtWork`), finds the slot as it read it, and the amounts are equal (`Exact`) as long as no
task is cut. The sums
are the folds of the community modules; what the proof needs of them (one addend more, one
addend changed) rests on an induction on the number of elements, for which the library's
theorem cannot be used: `Induction` takes the least number outside a set instead (`WFMin`).

The same module proves `OneRunPerFile` for any files, versions and processes. `Reserved`:
one process at a time is past `reserve_next_poll` (`OnePoll`), as `next_run_at` lies ahead until
it is done. `Memory`: a version that was launched is in the memory, or is being launched by the
poll under way, or will never be in the folder again (`Dead`), or the memory is empty and
the next listing is a first pass. `Underway`: where the listing differs from the memory,
what the memory holds is `Dead`, so that replacing the memory forgets nothing that may come back.

The two components are instances in `MCTriggers`, with the constants of the configuration,
and the theorems are about `Alerts!Spec` and `Polls!Spec`. What is assumed of the constants is
named in each theorem: a cooldown and a number of tries are numbers and no row is `NULL`
(`AlertsConstants`), a file may have a version (`PollsConstants`).

## MailSubscription, WebhookBacklog

`MailSubscription.tla` models the subscription that workflows of one owner have to an
Outlook mailbox, and the mails that come by it and by the subscription of an agent to the
same mailbox.

- `row` is the row of `webhook_subscriptions` (consumer `workflow`): `token` is
  `client_state`, `graph` the id at Microsoft Graph, named by the `client_state` it was
  created with; `old` is `RETRY_AFTER` since `updated_at`; `expiry` is far, near (less
  than `RENEW_THRESHOLD_HOURS`) or past. `graph` (the variable) is what lives at Graph.
- `rec[p]` is `reconcile_outlook_subscriptions` in one process: `ReadsWanted`, `ReadsRow`,
  then `Claims` (an insert or a conditional update), `Forgets`, `Creates`, `Writes`, or
  `Removes`; each transaction and each call to Graph is a step. Another process, a
  renewal, or a trigger that is withdrawn may come in between.
- `ren[n]` is `_renew_expiring_subscriptions`: the subscription is picked, renewed at
  Graph, and its row written by its id alone.
- `mail[m]` is a mail. `Comes` notifies it to the agent, and to the subscription the row
  reserves if Graph has it; each notification is a request of its own (`AgentDelivered`,
  `WorkflowDelivered`) that inserts a log or, for the subscription, is refused by what the
  row says by then (`Hears`). `Leaves` takes the mail out of the mailbox. `rows` are the rows
  that existed when the log of the agent was inserted, for `Covers`
  (`has_active_workflow_subscription`) compares `created_at` of the two. The agent's log is
  left to the row, launched, or missed; the workflows' log is taken by a worker, read (its
  copy is committed), launched, or missed; a failure brings it back. A row that is deleted
  takes its log with it (`Erased`), but a worker that has taken it goes on.

`WebhookBacklog.tla` models the queue of `webhook_logs` and the processing of the logs of
an agent: `process_once` is `Ticks` (reclaim, cooldown), `Looks` and `Claims` (the two
statements of `_claim_one`), the fetch of the mail or the replay of its copy, the split of
a mail with several PDFs (a transaction per PDF), the run of the agent, and the mark.
Around it: reception with duplicates, `retrigger_webhook_log`, the deletion of the
subscription with its logs, mails that leave the mailbox, crashes, rate limits. Which
mails are split is decided by hooks of an overlay (`_fanout_should_split`): the core splits none,
so `Split` is a constant.

| Run | Part | Instance | Shows |
|---|---|---|---|
| `mail` | `renewals` | 2 reconcilers, 2 renewers, 2 faults, fairness | `StaysHeard` |
| | `mails` | 1 of each, a mail, a fault, a trigger withdrawn | `MailLaunchesOnce` |
| | `split` | 1 worker, a mail of 2 PDFs, a break, a retrigger, fairness | `SplitComplete`, `RetriggerReplaces`, `EveryRowSettles` |
| | `shared` | 2 workers, a mail, 2 breaks, a retrigger, fairness | `RetriggerReplaces`, `EveryRowSettles` |
| `lostmail` | `mails` | the same | `NoMailLeft` is violated |

`MCMail` chooses a part at the start of each behaviour; the configuration gives the constants
of both modules, and `Renewals`, `OneEach`, `OneWorker` and `NoSplit` say who takes part in
each. Faults are bounded: errors of
Graph, crashes and calls that outlast `RETRY_AFTER` in one module, crashes and lost
attachments in the other; 8 attempts (`_MAX_ATTEMPTS`) are 2 here, one that is retried and
the last. Two reconcilers and two renewers let each write of one meet a row another has
changed. Fairness: reconcilers (every 30 s), renewers (every six hours, `CHECK_INTERVAL_SECONDS`) and workers (every 2 s)
go on, time passes, back-offs and cooldowns end; none on mails, operators and failures.

`StaysHeard` needs its bound of two faults. With three (a renewal that fails, one that
outlasts `RETRY_AFTER` while the row is taken up again, a crash of the process that
took it up) a stale renewal writes `active`, by id alone, on a row whose `client_state` is already the new one
and whose Graph id is still the old one: notifications are refused as a mismatch of
`client_state` while renewals succeed, and nothing takes the row up again.

### The violated statement

`lostmail`: the docstring of `has_active_workflow_subscription` says that a mail the workflow
subscription did not see "n'a été notifié qu'à l'agent (backlog lent) : c'est encore à lui de
le faire". The code compares two `created_at`: that of the agent's log, set when its
notification is inserted and not when the mail comes, and that of the row, set when it is
reserved and never refreshed when an expired or failed row is taken up again. A mail of which
only the agent was told (`wf = "none"`), whose log is inserted once the row is reserved, is
left to a subscription that never saw it.

`MailLaunchesOnce` is about the mails that are neither `excused` nor `missed`. Excused are those
the code itself launches twice or not at all:

1. the row exists when the agent's log is inserted, and the mail was not notified to it, or
   was refused (the case above, for a mail that came before the row as for one that
   came while the row was not active);
2. the mail is notified to the subscription, but the row has changed when the notification
   is inserted (expired, reserved again, deleted), and the agent leaves the mail to it;
3. the row is not active, or gone, when the agent's log is handled, and the mail is in the
   log of the workflows or comes to it afterwards: both launch;
4. an attempt is repeated after it launched, on either path (the docstring of
   `_process_workflow_mail` says so for its own; on the agent's, the workflows are
   dispatched at every attempt while the mail is in the mailbox).

Missed are those that nothing could launch, or not any more:

5. the mail has left the mailbox: the agent replays its copy and dispatches nothing
   (`AgentMisses`), the workflows' log is skipped if it has no copy (`WorkflowMisses`);
6. the last attempt fails, or the agent's dispatch does, which is only logged;
7. the workflows' log is erased with its row after the agent left it the mail, or while
   a worker that then fails has it.

5 and 6 leave the mail missed on the agent's path only if the subscription does not have it
either. What is left to the property is the rest of the interleavings: a row that is deleted
and created again between the mail, its two notifications and their handling, a log erased
before the agent handles its own, notifications refused or late in either order, renewals
and retries in between. The mutant that drops the comparison of ages violates it.

What the code also does, left as it is in the models:

- a mail already split is not processed again by a retrigger: the children exist, the
  parent becomes a success and no agent runs; `RetriggerReplaces` leaves parents out. The
  parent is marked twice, so that a retrigger between the two marks is overwritten;
- an agent run longer than 600 s is reclaimed while it runs, and the mark of the late
  worker may erase a retrigger; the instance lets no live worker outlast the limit;
- `attempts` bounds failures, not crashes: a log that kills its process is claimed for ever;
- attachments that cannot be fetched leave a mail processed without them, and not split;
  a PDF that cannot be copied has no child although the parent is a success (`missed`);
- the cooldown after a rate limit is a variable of the process: other replicas go on.

Left out: Gmail, the dispatch of a mail to the triggers it matches, several agents on one
mailbox, the deletion of an agent's subscription with its logs, an operator that has a mail
launched again once both logs are done, and mails with no subject, text or attachment, whose
copy is not replayed.

### Proofs

`MailProofs.tla` proves `MailLaunchesOnce`, `RetriggerReplaces` and `SplitComplete`, each for any
processes, mails, PDFs, faults and bounds.

`MailLaunchesOnce` rests on `Counted`, for a mail neither missed nor excused. A mail that the
subscription does not have (never told, refused, or erased) is counted by the agent's log
(`AgentCounts`): not launched before it is handled, and older than the row if there is one
(`Older`: `rows < row.id`), so that `Covers` answers no and it is launched there. A mail that the
subscription is told of or has (`SharedCounts`) is launched by that log alone, unless the
agent launched it before the notification was inserted, which then excuses it. What the
processes do to the row meanwhile (`OwnerStays`, `RecMoves`, `RenewsKeeps`) leaves its id or
removes it, and `RowGoes` moves the mails it held from one count to the other.

For the queue, `BacklogInv` puts together what a row owes to the worker that holds it:

- `Alone`: one worker holds a row, and the row says `in_progress` and not old. It fails for one
  row only: a parent marked a success by the split while its worker still has to mark it, which a
  retrigger may put back in the queue for a second worker; such a row is then `Complete`, which is
  why `RowOK` asks one or the other of a parent;
- `Pending`: what an operator asked stays on the row (`force`, or `error`) until a run that had read
  it succeeds; a worker that runs the row has the same `force` as the row, since a retrigger is
  refused while it is `in_progress`;
- `Splitting`: what a split has behind it has a row or is in `missed`, also for a second worker
  that splits the same mail: `missed` grows, and rows of `webhook_logs` go only all together
  (`Deletes`, after which no row of the subscription comes back: `Stored`).

Assumed of the constants: no row is not a row (`OwnerConstants`), and a mail that is split is
a mail, its PDFs are not (`BacklogConstants`). TLC was run on both invariants over the states of the
run (without the type of the worker's row, which it cannot compare).
`StaysHeard` and `EveryRowSettles` are liveness and stay with TLC.

## Plan

Done: `AwaitedRun` with its abstract specification, `DecisionNotices`, `ScheduleTrigger`,
`GraphRun`, `RetryFromFailure`, `WorkflowChain`, `FailureAlerts`, `FilePolls`,
`MailSubscription`, `WebhookBacklog`. Every safety property that a passing run checks is also
a theorem, for every value of the constants that satisfies the hypotheses each section names.
The refinement of `DecisionPromise` is proved in one process,
where the run checks it. Liveness (`EveryRunEnds`, `RunEnds`, `DecisionNoticed`,
`DecisionReminded`, `EndReachesListeners`, `DueIsServed`, `StaysHeard`, `EveryRowSettles`) is
checked by TLC under the fairness each section states.

Left, most important first:

1. `NestedBodies`: `_loop`, `_try`, `_run_body`, `_subworkflow` and the depth they share,
   as a refinement of `Begin`, `Complete` and `Fail` of `GraphRun`.
2. Gmail watches beside the Outlook subscriptions; several agents on one mailbox.
3. Pure operators against reference definitions: `compute_next_run`, cron fields.
4. Versions of definitions, quotas.

## Not modelled

Most of the repository has no state that two actors share, and nothing a model
checker would tell apart: the agent runtime and model calls (an external framework
keeps the sessions), BI (SQL, chart and dashboard specifications are computed from
their input), the tools of the tool store and the clients of external services (one
call each), accounts, administration and storage (CRUD, one transaction per request),
validation, templates, schemas and formatting everywhere. `PROJECT.json` lists these
parts with the reason; the lines the modules map are the ones where state is decided.
