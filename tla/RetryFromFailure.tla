-------------------------- MODULE RetryFromFailure --------------------------
(***************************************************************************)
(* "Reprendre ici" (core/run_main.py, prepare_retry and what undoes it): a  *)
(* run that fails keeps a snapshot of what was done; a retry consumes it,   *)
(* opens a new run that replays what was done, and carries a copy.  A retry *)
(* that is stopped or lost gives the failure back to its original, one that *)
(* fails in turn keeps it.                                                  *)
(*                                                                         *)
(* The first run and its retries form one lineage over a chain of nodes; a  *)
(* snapshot is the number of nodes done.  A transaction is one step, so     *)
(* that two requests, a read from another replica and the tasks interleave. *)
(* The races between the answers of one decision are those of AwaitedRun.   *)
(* No live task outlasts RUN_STALE_AFTER here: only dead ones are orphans.   *)
(***************************************************************************)
EXTENDS Naturals, FiniteSets

CONSTANTS
    MaxRuns,    \* bound: the first run and its retries
    Nodes,      \* number of nodes of the chain
    Approvals,  \* those that wait for a decision
    Handlers,   \* requests POST /runs/{run_id}/retry-from-failure
    None        \* SQL NULL

ASSUME RetryAssumption ==
    /\ MaxRuns \in Nat \ {0} /\ Nodes \in Nat
    /\ Approvals \subseteq 1..Nodes
    /\ None \notin Nat

Runs == 1..MaxRuns
Terminal == {"success", "error", "cancelled"}
Asleep == [at |-> "idle", run |-> None, snap |-> 0, new |-> None]

VARIABLES
    row,        \* the columns of each run read or written here
    pc,         \* the task of each run
    outcome,    \* the outcome that task is about to write
    from,       \* nodes a run replays
    done,       \* nodes done, the replayed ones included
    prep,       \* where each request is
    unrecorded  \* history: runs that ended without a snapshot of their own

vars == <<row, pc, outcome, from, done, prep, unrecorded>>
task == <<pc, outcome, from, done, unrecorded>>

\* of is replay_of; fail and node are failure_state and failure_node, paused is
\* paused_state; old: RUN_STALE_AFTER has passed, ttl: RETRY_STATE_TTL has.
Absent == [status |-> "absent", of |-> None, fail |-> None, node |-> FALSE,
           paused |-> FALSE, old |-> FALSE, ttl |-> FALSE]

Init ==
    /\ row = [r \in Runs |-> IF r = 1 THEN [Absent EXCEPT !.status = "running"]
                                      ELSE Absent]
    /\ pc = [r \in Runs |-> IF r = 1 THEN "live" ELSE "none"]
    /\ outcome = [r \in Runs |-> "success"]
    /\ from = [r \in Runs |-> 0] /\ done = [r \in Runs |-> 0]
    /\ prep = [h \in Handlers |-> Asleep]
    /\ unrecorded = {}

-----------------------------------------------------------------------------
(* What each transaction does to the rows.                                  *)

\* _give_back_retry
GivenBack(rows, r) ==
    LET o == rows[r].of IN
    IF o # None /\ rows[r].fail # None
         /\ rows[o].status = "error" /\ rows[o].fail = None
    THEN [rows EXCEPT ![o].fail = rows[r].fail, ![o].node = rows[r].node]
    ELSE rows

\* Slip: a run that is stopped forgets to give back.
Finished_Keeps(rows, r, status) ==
    [rows EXCEPT ![r].status = status, ![r].paused = FALSE,
                 ![r].fail = IF status = "error" THEN @ ELSE None]

\* finish_run: a pause is never an end, only a failure keeps a snapshot.
Finished(rows, r, status) ==
    LET given == IF status = "cancelled" THEN GivenBack(rows, r) ELSE rows IN
    IF rows[r].status = "awaiting" THEN given
    ELSE [given EXCEPT ![r].status = status, ![r].paused = FALSE,
                       ![r].fail = IF status = "error" THEN @ ELSE None,
                       ![r].node = @ /\ status = "error"]

\* _reconcile_if_orphaned
Reconciled(rows, r) ==
    IF rows[r].status # "running" \/ ~rows[r].old THEN rows
    ELSE IF rows[r].paused
    THEN [rows EXCEPT ![r].status = "awaiting", ![r].old = FALSE]
    ELSE IF rows[r].of = None THEN [rows EXCEPT ![r].status = "error",
                                                        ![r].old = FALSE]
    ELSE [GivenBack(rows, r) EXCEPT ![r].status = "error", ![r].old = FALSE,
                                    ![r].fail = None, ![r].node = FALSE]

\* _purge_failure_states
Purged(rows) ==
    [r \in Runs |-> IF rows[r].ttl THEN [rows[r] EXCEPT !.fail = None] ELSE rows[r]]

\* Slip: a snapshot already there, inherited by a retry, is kept.
WithFailure_First(rows, r, depth) ==
    [Purged(rows) EXCEPT ![r].fail = IF @ = None THEN depth ELSE @, ![r].node = TRUE]

\* Slip: the node that failed is recorded as done.
WithFailure_Skips(rows, r, depth) ==
    [Purged(rows) EXCEPT ![r].fail = IF depth < Nodes THEN depth + 1 ELSE depth,
                         ![r].node = TRUE]

\* save_failure
WithFailure(rows, r, depth) ==
    [Purged(rows) EXCEPT ![r].fail = depth, ![r].node = TRUE]

-----------------------------------------------------------------------------
(* The task of a run (run_graph, _streaming_run).                           *)

Leaves(r) ==
    /\ pc' = [pc EXCEPT ![r] = "none"]
    /\ outcome' = [outcome EXCEPT ![r] = "success"]

EndsAs(r, status) ==
    /\ pc' = [pc EXCEPT ![r] = "ending"]
    /\ outcome' = [outcome EXCEPT ![r] = status]

Executes(r) ==
    /\ pc[r] = "live" /\ done[r] < Nodes
    /\ done[r] + 1 \notin Approvals
    /\ done' = [done EXCEPT ![r] = @ + 1]
    /\ UNCHANGED <<row, pc, outcome, from, prep, unrecorded>>

\* The node fails; its snapshot is saved, or is too large, or the write fails.
NodeFails(r) ==
    /\ pc[r] = "live" /\ done[r] < Nodes
    /\ EndsAs(r, "error")
    /\ \/ row' = WithFailure(row, r, done[r]) /\ UNCHANGED unrecorded
       \/ UNCHANGED row /\ unrecorded' = unrecorded \cup {r}
    /\ UNCHANGED <<from, done, prep>>

\* pause_run writes whatever the status; it does not touch failure_state.
Pauses(r) ==
    /\ pc[r] = "live" /\ done[r] + 1 \in Approvals
    /\ row' = [row EXCEPT ![r].status = "awaiting", ![r].paused = TRUE,
                          ![r].old = FALSE, ![r].ttl = FALSE]
    /\ pc' = [pc EXCEPT ![r] = "none"]
    /\ UNCHANGED <<outcome, from, done, prep, unrecorded>>

\* _pause: too large, or not saved: an error without a snapshot.
PauseFails(r) ==
    /\ pc[r] = "live" /\ done[r] + 1 \in Approvals
    /\ EndsAs(r, "error")
    /\ unrecorded' = unrecorded \cup {r}
    /\ UNCHANGED <<row, from, done, prep>>

Completes(r) ==
    /\ pc[r] = "live" /\ done[r] = Nodes
    /\ EndsAs(r, "success")
    /\ UNCHANGED <<row, from, done, prep, unrecorded>>

\* POST /{wid}/cancel, a client that leaves, a shutdown: even once the outcome
\* is known, until it is written.
Stopped(r) ==
    /\ pc[r] \in {"live", "ending"}
    /\ EndsAs(r, "cancelled")
    /\ UNCHANGED <<row, from, done, prep, unrecorded>>

Ends(r) ==
    /\ pc[r] = "ending"
    /\ row' = Finished(row, r, outcome[r])
    /\ Leaves(r)
    /\ unrecorded' = IF outcome[r] = "cancelled" THEN unrecorded \cup {r}
                                                 ELSE unrecorded
    /\ UNCHANGED <<from, done, prep>>

\* The process is killed: no finally runs.
Dies(r) ==
    /\ pc[r] # "none"
    /\ Leaves(r)
    /\ UNCHANGED <<row, from, done, prep, unrecorded>>

-----------------------------------------------------------------------------
(* The decision a run waits for.                                            *)

Unanswered(r) == row[r].status = "running" /\ row[r].paused

\* claim_paused_run
Claims(r) ==
    /\ row[r].status = "awaiting" /\ pc[r] = "none"
    /\ row' = [row EXCEPT ![r].status = "running", ![r].old = FALSE]
    /\ pc' = [pc EXCEPT ![r] = "claimed"]
    /\ UNCHANGED <<outcome, from, done, prep, unrecorded>>

\* mark_decided: the run goes on past its decision, or the row is lost.
TakesAnswer(r) ==
    /\ pc[r] = "claimed"
    /\ IF Unanswered(r)
       THEN /\ row' = [row EXCEPT ![r].paused = FALSE]
            /\ done' = [done EXCEPT ![r] = @ + 1]
            /\ pc' = [pc EXCEPT ![r] = "live"]
       ELSE /\ UNCHANGED <<row, done>>
            /\ pc' = [pc EXCEPT ![r] = "none"]
    /\ UNCHANGED <<outcome, from, prep, unrecorded>>

\* mark_decided raises: the gate fails as a node, its snapshot is saved or not,
\* and the run goes back to its decision with it.
AnswerFails(r) ==
    /\ pc[r] = "claimed"
    /\ pc' = [pc EXCEPT ![r] = "refused"]
    /\ row' \in {row, WithFailure(row, r, done[r])}
    /\ UNCHANGED <<outcome, from, done, prep, unrecorded>>

\* release_paused_run
Releases(r) ==
    /\ pc[r] \in {"claimed", "refused"}
    /\ row' = IF Unanswered(r) THEN [row EXCEPT ![r].status = "awaiting",
                                                ![r].old = FALSE] ELSE row
    /\ pc' = [pc EXCEPT ![r] = "none"]
    /\ UNCHANGED <<outcome, from, done, prep, unrecorded>>

Closed(r, status) ==
    /\ row' = [row EXCEPT ![r].status = status, ![r].paused = FALSE,
                          ![r].old = FALSE]
    /\ unrecorded' = unrecorded \cup {r}
    /\ UNCHANGED <<outcome, from, done, prep>>

\* stop_unanswered_resume: nothing is given back.
StopsUnanswered(r) ==
    /\ pc[r] \in {"claimed", "refused"} /\ Unanswered(r)
    /\ Closed(r, "cancelled")
    /\ pc' = [pc EXCEPT ![r] = "none"]

\* abandon_paused_run: nothing is given back.
Abandons(r) ==
    /\ row[r].status = "awaiting"
    /\ Closed(r, "cancelled") /\ UNCHANGED pc

\* _expire_due: the copy of an expired retry stays with it.
Expires(r) ==
    /\ row[r].status = "awaiting"
    /\ Closed(r, "error") /\ UNCHANGED pc

-----------------------------------------------------------------------------
(* Time, and the reads that settle what it has made stale.                  *)

Ages(r) ==
    /\ row[r].status = "running" /\ ~row[r].old
    /\ pc[r] = "none"
    /\ \A h \in Handlers : prep[h].new # r
    /\ row' = [row EXCEPT ![r].old = TRUE]
    /\ UNCHANGED <<task, prep>>

TtlPasses(r) ==
    /\ row[r].status = "error" /\ row[r].node /\ ~row[r].ttl
    /\ row' = [row EXCEPT ![r].ttl = TRUE]
    /\ UNCHANGED <<task, prep>>

\* get_run, list_runs
Reads(r) ==
    /\ row' = Reconciled(Purged(row), r)
    /\ unrecorded' = IF row[r].status = "running" /\ row'[r].status = "error"
                     THEN unrecorded \cup {r} ELSE unrecorded
    /\ UNCHANGED <<pc, outcome, from, done, prep>>

-----------------------------------------------------------------------------
(* prepare_retry, one step per transaction.                                 *)

\* Refused, its transaction is rolled back, the purge before it is not.
PrepareReads(h, r) ==
    LET rows == Reconciled(Purged(row), r) IN
    /\ prep[h].at = "idle" /\ row[r].status # "absent"
    /\ IF rows[r].status = "error" /\ rows[r].fail # None
       THEN /\ row' = rows
            /\ prep' = [prep EXCEPT ![h] = [Asleep EXCEPT !.at = "checked", !.run = r,
                                                          !.snap = rows[r].fail]]
            /\ unrecorded' = IF row[r].status = "running" THEN unrecorded \cup {r}
                                                          ELSE unrecorded
       ELSE row' = Purged(row) /\ UNCHANGED <<prep, unrecorded>>
    /\ UNCHANGED <<pc, outcome, from, done>>

\* _unseal fails: the snapshot will never be of use.
PrepareCannotRead(h, r) ==
    LET rows == Reconciled(Purged(row), r) IN
    /\ prep[h].at = "idle"
    /\ rows[r].status = "error" /\ rows[r].fail # None
    /\ row' = [rows EXCEPT ![r].fail = None, ![r].node = FALSE]
    /\ UNCHANGED <<task, prep>>

\* The workflow is gone, invalid, or what was done has changed.
PrepareRefuses(h) ==
    /\ prep[h].at = "checked"
    /\ prep' = [prep EXCEPT ![h] = Asleep]
    /\ UNCHANGED <<row, task>>

\* Slip: the snapshot is erased without asking whether it is still there.
PrepareConsumes_Blind(h) ==
    /\ prep[h].at = "checked"
    /\ row' = [row EXCEPT ![prep[h].run].fail = None]
    /\ prep' = [prep EXCEPT ![h].at = "consumed"]
    /\ UNCHANGED <<task>>

\* Bound: a free row for each retry under way.
Room == Cardinality({r \in Runs : row[r].status = "absent"})
            > Cardinality({h \in Handlers : prep[h].at = "consumed"})

\* The compare-and-swap on failure_state.
PrepareConsumes(h) ==
    /\ prep[h].at = "checked" /\ Room
    /\ IF row[prep[h].run].fail # None
       THEN /\ row' = [row EXCEPT ![prep[h].run].fail = None]
            /\ prep' = [prep EXCEPT ![h].at = "consumed"]
       ELSE /\ prep' = [prep EXCEPT ![h] = Asleep]
            /\ UNCHANGED row
    /\ UNCHANGED <<task>>

\* start_run
PrepareStarts(h) ==
    /\ prep[h].at = "consumed"
    /\ \E new \in Runs :
          /\ row[new].status = "absent"
          /\ \A r \in Runs : row[r].status = "absent" => new <= r
          /\ row' = [row EXCEPT ![new].status = "running", ![new].of = prep[h].run]
          /\ prep' = [prep EXCEPT ![h].at = "started", ![h].new = new]
          /\ from' = [from EXCEPT ![new] = prep[h].snap]
          /\ done' = [done EXCEPT ![new] = prep[h].snap]
    /\ UNCHANGED <<pc, outcome, unrecorded>>

\* save_failure copies the snapshot on the retry, or fails; the stream starts.
PrepareCopies(h, copied) ==
    /\ prep[h].at = "started"
    /\ row' = IF copied THEN WithFailure(row, prep[h].new, prep[h].snap) ELSE row
    /\ pc' = [pc EXCEPT ![prep[h].new] = "live"]
    /\ prep' = [prep EXCEPT ![h] = Asleep]
    /\ UNCHANGED <<outcome, from, done, unrecorded>>

PrepareDies(h) ==
    /\ prep[h].at # "idle"
    /\ prep' = [prep EXCEPT ![h] = Asleep]
    /\ UNCHANGED <<row, task>>

-----------------------------------------------------------------------------
Work(r) ==
    \/ Executes(r) \/ NodeFails(r) \/ Pauses(r) \/ PauseFails(r) \/ Completes(r)
    \/ Stopped(r) \/ Ends(r) \/ Dies(r)

Decide(r) ==
    \/ Claims(r) \/ TakesAnswer(r) \/ AnswerFails(r) \/ Releases(r)
    \/ StopsUnanswered(r) \/ Abandons(r) \/ Expires(r)

Prepare(h) ==
    \/ \E r \in Runs : PrepareReads(h, r) \/ PrepareCannotRead(h, r)
    \/ PrepareRefuses(h) \/ PrepareConsumes(h) \/ PrepareStarts(h)
    \/ \E copied \in BOOLEAN : PrepareCopies(h, copied)
    \/ PrepareDies(h)

Next ==
    \/ \E r \in Runs : Work(r) \/ Decide(r) \/ Ages(r) \/ TtlPasses(r) \/ Reads(r)
    \/ \E h \in Handlers : Prepare(h)

Spec == Init /\ [][Next]_vars

-----------------------------------------------------------------------------
(* What a retry promises.                                                   *)

\* The runs from which the lineage goes on or may be taken up again.
Ways == {r \in Runs :
            \/ row[r].status \in {"running", "awaiting"}
            \/ row[r].status = "error" /\ row[r].fail # None}

\* A failure is taken up once: whatever is consumed, copied, given back,
\* reconciled or expired, the work goes on in one place, or waits in one place
\* to be taken up.
OneWayOn ==
    Cardinality(Ways)
        + Cardinality({h \in Handlers : prep[h].at = "consumed"}) <= 1

Executed(r) == {k \in 1..Nodes : from[r] < k /\ k <= done[r]}

\* What a run has done is not done again by a later one, unless that run
\* ended (stopped, orphaned, expired, snapshot too large) without a snapshot
\* of its own (prepare_retry: "l'amont est rejoué depuis l'instantané, jamais
\* réexécuté").
DoneNotRedone ==
    \A r, s \in Runs :
        r < s /\ r \notin unrecorded => Executed(r) \cap Executed(s) = {}

\* A retry that succeeds leaves no node behind: every node was run by it or by
\* a run before it, however many snapshots lie between.
NothingSkipped ==
    \A r \in Runs : row[r].status = "success"
        => 1..Nodes \subseteq UNION {Executed(s) : s \in 1..r}

Kept ==
    \/ \E r \in Runs : row[r].fail # None
                         /\ row[r].status \in {"running", "awaiting", "error"}
    \/ \E h \in Handlers : prep[h].at \in {"consumed", "started"}

\* The ways a failure may be given up: success, its time to live, its owner who
\* abandons or stops a decision, the first run stopped, a request cut between
\* two transactions or whose copy fails, a key that changed.
GivenUp ==
    \/ \E r \in Runs :
          \/ row[r].ttl /\ row[r].fail # None
          \/ row[r].status # "success" /\ row'[r].status = "success"
          \/ Abandons(r) \/ StopsUnanswered(r)
          \/ row[r].of = None /\ row[r].status # "cancelled"
               /\ row'[r].status = "cancelled"
    \/ \E h \in Handlers :
          \/ PrepareDies(h) \/ PrepareCopies(h, FALSE)
          \/ \E r \in Runs : PrepareCannotRead(h, r)

\* A failure that may be taken up again still may after any other step: a
\* retry stopped, cut or reconciled gives it back, one that fails keeps it
\* (_give_back_retry: "elle ne doit pas emporter la seule possibilité de
\* reprendre").
FailureKept == [][Kept => (Kept' \/ GivenUp)]_vars
=============================================================================
