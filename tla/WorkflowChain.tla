---------------------------- MODULE WorkflowChain ----------------------------
(***************************************************************************)
(* Workflows that launch workflows (core/workflow_triggers.py): the end of  *)
(* a run launches the workflows that listen to it ("workflow_done"), an     *)
(* agent of a run calls a workflow as a tool ("agent_tool") and waits for   *)
(* it.  Both carry a chain of workflows that is to stop loops.              *)
(*                                                                         *)
(* A step is a stretch of a task without await.  What a run does between    *)
(* its launch and its end is its outcome; its alert is FailureAlerts.       *)
(***************************************************************************)
EXTENDS Naturals, Sequences, FiniteSets

CONSTANTS
    Workflows,
    Listeners,  \* triggers "workflow_done": records [run, of, on]
    Tools,      \* pairs <<w, v>>: an agent of w holds the tool of v
    MaxChain,   \* MAX_TRIGGER_CHAIN
    MaxRuns,    \* bound: rows of agent_runs
    Changes,    \* bound: publications withdrawn
    None

ASSUME ChainAssumption ==
    /\ MaxRuns \in Nat \ {0} /\ MaxChain \in Nat
    /\ None \notin Nat /\ None \notin Seq(Workflows)

Runs == 1..MaxRuns

\* In call: the task that the tool call drained is over.
Answered == 0

Ended == {"success", "error", "cancelled"}

VARIABLES
    run,        \* the columns of each run: workflow, origin, status
    pc,         \* the task of each run
    todo,       \* listeners the end of a run still has to launch
    call,       \* the run whose task a tool call of this run waits for
    published,  \* workflows whose trigger is armed
    owed,       \* history: workflows that listened when the run ended
    cut         \* history: runs whose end was not told to the last listener

vars == <<run, pc, todo, call, published, owed, cut>>

Absent == [wf |-> None, chain |-> <<>>, parent |-> None, kind |-> "user",
           status |-> "absent"]

Init ==
    /\ \E w \in Workflows :
          run = [r \in Runs |-> IF r = 1
                   THEN [Absent EXCEPT !.wf = w, !.status = "running"] ELSE Absent]
    /\ pc = [r \in Runs |-> IF r = 1 THEN "live" ELSE "none"]
    /\ todo = [r \in Runs |-> {}]
    /\ call = [r \in Runs |-> None]
    /\ published = Workflows
    /\ owed = [r \in Runs |-> {}] /\ cut = {}

-----------------------------------------------------------------------------
\* next_trigger_chain
NextChain(prior, w) ==
    IF (\E k \in DOMAIN prior : prior[k] = w) \/ Len(prior) >= MaxChain
    THEN None ELSE Append(prior, w)

\* current_trigger_chain: a ContextVar that nothing sets.
CurrentChain(r) == <<>>

Free(r) == run[r].status = "absent" /\ \A q \in Runs : run[q].status = "absent" => r <= q

\* launch_triggered_run: the row, then the task that drains its stream.
Launched(new, w, kind, chain, parent) ==
    /\ Free(new)
    /\ run' = [run EXCEPT ![new] = [wf |-> w, chain |-> chain, parent |-> parent,
                                    kind |-> kind, status |-> "running"]]

-----------------------------------------------------------------------------
(* A run and its end (_streaming_run).                                      *)

Goes(r) == pc[r] = "live" /\ call[r] = None

\* The task that drives the run is over; a tool call may be draining it.
TaskEnds(r) ==
    /\ pc' = [pc EXCEPT ![r] = "none"]
    /\ call' = [q \in Runs |-> IF call[q] = r THEN Answered ELSE call[q]]

Listening(r, status) ==
    {l \in Listeners : l.run \in published /\ l.of = run[r].wf
                         /\ l.on \in {"any", status}}

\* finish_run, then notify_run_finished up to its first await.
Tells(r, status) ==
    /\ run' = [run EXCEPT ![r].status = status]
    /\ pc' = [pc EXCEPT ![r] = "telling"]
    /\ todo' = [todo EXCEPT ![r] = Listening(r, status)]
    /\ owed' = [owed EXCEPT ![r] = {l.run : l \in Listening(r, status)}]

Ends(r, status) ==
    /\ Goes(r) /\ Tells(r, status)
    /\ UNCHANGED <<call, published, cut>>

\* An approval node: the task ends, nobody is told yet.
Pauses(r) ==
    /\ Goes(r)
    /\ run' = [run EXCEPT ![r].status = "awaiting"]
    /\ TaskEnds(r)
    /\ UNCHANGED <<todo, published, owed, cut>>

\* claim_paused_run and mark_decided: a task of its own, that no call waits for.
Resumes(r) ==
    /\ run[r].status = "awaiting"
    /\ run' = [run EXCEPT ![r].status = "running"]
    /\ pc' = [pc EXCEPT ![r] = "live"]
    /\ UNCHANGED <<todo, call, published, owed, cut>>

\* Abandoned or expired: decision_notices._announce_end tells the end.
EndsUnanswered(r) ==
    /\ run[r].status = "awaiting"
    /\ \E status \in {"error", "cancelled"} : Tells(r, status)
    /\ UNCHANGED <<call, published, cut>>

\* The process is killed, with the run a tool call waits for;
\* _reconcile_if_orphaned will end the rows without telling anybody.
Dies(r) ==
    LET dead == {r, call[r]} \cap Runs IN
    /\ pc[r] # "none" /\ \A q \in Runs : call[q] # r
    /\ pc' = [q \in Runs |-> IF q \in dead THEN "none" ELSE pc[q]]
    /\ run' = [q \in Runs |-> IF q \in dead /\ run[q].status = "running"
                              THEN [run[q] EXCEPT !.status = "error"] ELSE run[q]]
    /\ todo' = [q \in Runs |-> IF q \in dead THEN {} ELSE todo[q]]
    /\ call' = [call EXCEPT ![r] = None]
    /\ cut' = cut \cup {r} \cup {q \in dead : pc[q] # "none"}
    /\ UNCHANGED <<published, owed>>

-----------------------------------------------------------------------------
(* fire_workflow_done_triggers, one listener after the other.               *)

Without(r, l) == todo' = [todo EXCEPT ![r] = @ \ {l}]

\* Slip: the first listener that is not published ends the loop.
Skips_Returns(r, l) ==
    /\ pc[r] = "telling" /\ l \in todo[r]
    /\ NextChain(run[r].chain, run[r].wf) = None \/ l.run \notin published
    /\ todo' = [todo EXCEPT ![r] = {}]
    /\ UNCHANGED <<run, pc, call, published, owed, cut>>

\* The chain is stopped, or the workflow is no longer published.
Skips(r, l) ==
    /\ pc[r] = "telling" /\ l \in todo[r]
    /\ NextChain(run[r].chain, run[r].wf) = None \/ l.run \notin published
    /\ Without(r, l)
    /\ UNCHANGED <<run, pc, call, published, owed, cut>>

\* Slip: the chain starts again at the workflow that ends.
LaunchesListener_NewChain(r, l) ==
    /\ pc[r] = "telling" /\ l \in todo[r] /\ l.run \in published
    /\ NextChain(run[r].chain, run[r].wf) # None
    /\ \E new \in Runs :
          /\ Launched(new, l.run, "workflow_done", <<run[r].wf>>, r)
          /\ pc' = [pc EXCEPT ![new] = "live"]
    /\ Without(r, l)
    /\ UNCHANGED <<call, published, owed, cut>>

LaunchesListener(r, l) ==
    LET chain == NextChain(run[r].chain, run[r].wf) IN
    /\ pc[r] = "telling" /\ l \in todo[r] /\ l.run \in published
    /\ chain # None
    /\ \E new \in Runs :
          /\ Launched(new, l.run, "workflow_done", chain, r)
          /\ pc' = [pc EXCEPT ![new] = "live"]
    /\ Without(r, l)
    /\ UNCHANGED <<call, published, owed, cut>>

\* The launch raises, or the task is cancelled: the others are left out.
LaunchBreaks(r) ==
    /\ pc[r] = "telling" /\ todo[r] # {}
    /\ todo' = [todo EXCEPT ![r] = {}]
    /\ cut' = cut \cup {r}
    /\ UNCHANGED <<run, pc, call, published, owed>>

Told(r) ==
    /\ pc[r] = "telling" /\ todo[r] = {}
    /\ TaskEnds(r)
    /\ UNCHANGED <<run, todo, published, owed, cut>>

-----------------------------------------------------------------------------
(* call_agent_tool                                                          *)

Calls(r, v) ==
    LET chain == NextChain(CurrentChain(r), v) IN
    /\ Goes(r) /\ <<run[r].wf, v>> \in Tools /\ v \in published
    /\ chain # None
    /\ \E new \in Runs :
          /\ Launched(new, v, "agent_tool", chain, r)
          /\ pc' = [pc EXCEPT ![new] = "live"]
          /\ call' = [call EXCEPT ![r] = new]
    /\ UNCHANGED <<todo, published, owed, cut>>

\* At the limit, or when the caller is stopped, wait_for cancels the task that
\* drains the run and waits for it: the run ends cancelled, or the end it was
\* telling is cut. (A run called as a tool that itself waits for a tool is left
\* out.)
TimesOut(r) ==
    /\ call[r] \in Runs
    /\ LET c == call[r] IN
       \/ /\ pc[c] = "live" /\ call[c] = None
          /\ Tells(c, "cancelled")
          /\ UNCHANGED cut
       \/ /\ pc[c] = "telling" /\ todo[c] # {}
          /\ todo' = [todo EXCEPT ![c] = {}]
          /\ cut' = cut \cup {c}
          /\ UNCHANGED <<run, pc, owed>>
    /\ UNCHANGED <<call, published>>

\* The answer of the run, or "awaiting_decision", whatever became of it since.
Returns(r) ==
    /\ call[r] = Answered
    /\ call' = [call EXCEPT ![r] = None]
    /\ UNCHANGED <<run, pc, todo, published, owed, cut>>

Withdraws(w) ==
    /\ w \in published /\ Cardinality(Workflows \ published) < Changes
    /\ published' = published \ {w}
    /\ UNCHANGED <<run, pc, todo, call, owed, cut>>

-----------------------------------------------------------------------------
Work(r) ==
    \/ \E status \in Ended : Ends(r, status)
    \/ Pauses(r) \/ Resumes(r) \/ EndsUnanswered(r) \/ Dies(r)

Tell(r) ==
    \/ \E l \in Listeners : Skips(r, l) \/ LaunchesListener(r, l)
    \/ LaunchBreaks(r) \/ Told(r)

Tool(r) == \/ \E v \in Workflows : Calls(r, v)
           \/ TimesOut(r) \/ Returns(r)

Next ==
    \/ \E r \in Runs : Work(r) \/ Tell(r) \/ Tool(r)
    \/ \E w \in Workflows : Withdraws(w)

Spec == Init /\ [][Next]_vars

-----------------------------------------------------------------------------
\* The workflows whose ends led to each run, oldest first, since a user or a
\* tool launched the first of them.
Causes ==
    LET causes[r \in Runs] ==
          IF run[r].kind # "workflow_done" THEN <<>>
          ELSE Append(causes[run[r].parent], run[run[r].parent].wf)
    IN  causes

Distinct(s) == \A j, k \in DOMAIN s : s[j] = s[k] => j = k

\* Ends that launch workflows stop: whatever the listeners, no workflow is the
\* cause of a run twice, and no run has more than MaxChain of them
\* (MAX_TRIGGER_CHAIN: "la même borne anti-boucle").
ChainsStop ==
    LET causes == Causes IN
    \A r \in Runs : Distinct(causes[r]) /\ Len(causes[r]) <= MaxChain

Lawful(r) ==
    LET causes == Causes[r] IN
    /\ \A k \in DOMAIN causes : causes[k] # run[r].wf
    /\ Len(causes) < MaxChain

\* The end of a run that was not cut has launched every workflow that listened,
\* but for those withdrawn since and for the chains that had to stop.
EveryListenerHears ==
    \A r \in Runs :
        /\ run[r].status \in Ended /\ pc[r] = "none" /\ r \notin cut
        /\ run[r].kind # "agent_tool" /\ Lawful(r)
        => \A w \in owed[r] \cap published :
              \E c \in Runs : run[c].kind = "workflow_done"
                                /\ run[c].parent = r /\ run[c].wf = w
=============================================================================
