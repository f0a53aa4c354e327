---------------------------- MODULE WebhookBacklog ----------------------------
(***************************************************************************)
(* The queue of webhook_logs (scheduler/backlog_worker.py) and the agent     *)
(* mails it processes (process_webhook_log_row and _split_into_children of   *)
(* routers/webhook_handlers/outlook.py), for one subscription of an agent.   *)
(*                                                                         *)
(* A transaction is one step, the run of the agent another.  A mail with     *)
(* several PDFs is split: a row for each, processed like a mail.             *)
(***************************************************************************)
EXTENDS Naturals, Sequences, SequencesExt

CONSTANTS
    Letters,        \* mails
    Split,          \* those with several PDFs
    PDFs,           \* of such a mail
    Workers,        \* one per process
    MaxAttempts,    \* _MAX_ATTEMPTS
    Breaks,         \* bound: crashes, lost attachments, failed copies
    Retriggers      \* bound: calls of retrigger_webhook_log

Children == Split \X PDFs
Rows == Letters \cup Children

VARIABLES
    logs,           \* the rows of webhook_logs
    queue,          \* their ids, in order of insertion
    subscribed,     \* the subscription exists and is active
    inbox,          \* mails that are still in the mailbox
    worker,
    breaks, retriggers,
    asked           \* history: retriggered, not yet processed again

store == <<logs, queue>>
world == <<subscribed, inbox>>
vars == <<store, world, worker, breaks, retriggers, asked>>

Absent == [status |-> "absent", attempts |-> 0, ready |-> TRUE, old |-> FALSE,
           force |-> FALSE, copy |-> "none", missed |-> {}]
Resting == [at |-> "idle", id |-> 0, attempts |-> 0, force |-> FALSE,
            todo |-> {}, cool |-> FALSE]

Init ==
    /\ logs = [r \in Rows |-> Absent] /\ queue = <<>>
    /\ subscribed = TRUE /\ inbox = Letters
    /\ worker = [w \in Workers |-> Resting]
    /\ breaks = 0 /\ retriggers = 0
    /\ asked = [r \in Rows |-> FALSE]

Break == breaks < Breaks /\ breaks' = breaks + 1

Exists(r) == logs[r].status # "absent"
Queued(r) == logs[r].status \in {"pending", "retrying"}

\* handle_outlook_notification; a second delivery is ignored.
Delivers(m) ==
    /\ subscribed /\ m \notin Range(queue)
    /\ logs' = [logs EXCEPT ![m].status = "pending"]
    /\ queue' = Append(queue, m)
    /\ UNCHANGED <<world, worker, breaks, retriggers, asked>>

\* retrigger_webhook_log
Retrigger(r) ==
    /\ retriggers < Retriggers /\ retriggers' = retriggers + 1
    /\ subscribed /\ Exists(r) /\ logs[r].status \notin {"in_progress", "pending"}
    /\ logs' = [logs EXCEPT ![r].status = "pending", ![r].attempts = 0, ![r].ready = TRUE,
                            ![r].old = FALSE, ![r].force = TRUE]
    /\ asked' = [asked EXCEPT ![r] = TRUE]
    /\ UNCHANGED <<queue, world, worker, breaks>>

\* delete_subscription, or _renew_expiring_subscriptions on a 404: its logs
\* go with it.
Deletes ==
    /\ subscribed /\ subscribed' = FALSE
    /\ logs' = [r \in Rows |-> Absent]
    /\ UNCHANGED <<queue, inbox, worker, breaks, retriggers, asked>>

LeavesInbox(m) ==
    /\ m \in inbox /\ m \in Range(queue)
    /\ inbox' = inbox \ {m}
    /\ UNCHANGED <<store, subscribed, worker, breaks, retriggers, asked>>

-----------------------------------------------------------------------------
(* process_once                                                             *)

Goes(w, at) == worker' = [worker EXCEPT ![w].at = at]
\* Back to the loop, or restarted: only the cooldown outlives the row.
Rests(w, cool) == worker' = [worker EXCEPT ![w] = [Resting EXCEPT !.cool = cool]]

Stale(r) == logs[r].status = "in_progress" /\ logs[r].old
Ready(r) == Queued(r) /\ logs[r].ready

\* Slip: a row whose process has died stays in_progress.
Reclaimed_None == logs

\* _reclaim_stale_in_progress
Reclaimed == [r \in Rows |-> IF Stale(r) THEN [logs[r] EXCEPT !.status = "pending"]
                             ELSE logs[r]]

\* A tick that finds nothing changes nothing.
Ticks(w) ==
    /\ worker[w].at = "idle"
    /\ \E r \in Rows : Stale(r) \/ (Ready(r) /\ ~worker[w].cool)
    /\ logs' = Reclaimed
    /\ Goes(w, IF worker[w].cool THEN "idle" ELSE "looks")
    /\ UNCHANGED <<queue, world, breaks, retriggers, asked>>

\* The SELECT of _claim_one: the oldest row that is ready.
Oldest(r) ==
    \E i \in DOMAIN queue :
        queue[i] = r /\ Ready(r) /\ \A j \in 1..(i - 1) : ~Ready(queue[j])

Looks(w) ==
    /\ worker[w].at = "looks"
    /\ IF \E r \in Range(queue) : Ready(r)
       THEN \E r \in Rows : /\ Oldest(r)
                            /\ worker' = [worker EXCEPT ![w].at = "claims", ![w].id = r]
       ELSE worker' = [worker EXCEPT ![w].at = "idle", ![w].id = 0]
    /\ UNCHANGED <<store, world, breaks, retriggers, asked>>

\* Its conditional UPDATE.
Claims(w) ==
    /\ worker[w].at = "claims"
    /\ LET r == worker[w].id IN
       IF Queued(r)
       THEN /\ logs' = [logs EXCEPT ![r].status = "in_progress", ![r].attempts = @ + 1,
                                    ![r].ready = TRUE, ![r].old = FALSE]
            /\ worker' = [worker EXCEPT ![w].at = "reads",
                                        ![w].attempts = logs[r].attempts + 1]
       ELSE Rests(w, FALSE) /\ UNCHANGED logs
    /\ UNCHANGED <<queue, world, breaks, retriggers, asked>>

\* What the capture leads to: a mail with several PDFs is split.
Then(w, copy) ==
    LET r == worker[w].id
        splits == r \in Split /\ copy = "whole"
    IN  worker' = [worker EXCEPT ![w].at = IF splits THEN "split" ELSE "runs",
                                 ![w].force = logs[r].force,
                                 ![w].todo = IF splits THEN PDFs ELSE {}]

\* Fetched from the mailbox: a copy is kept, with the attachments unless they
\* cannot be read. (The listening workflows are launched: MailSubscription.)
ReadsMail(w) ==
    LET r == worker[w].id IN
    /\ worker[w].at = "reads" /\ Exists(r) /\ r \in inbox
    /\ \E copy \in {"whole", "bare"} :
         /\ IF copy = "bare" THEN r \in Split /\ Break ELSE UNCHANGED breaks
         /\ logs' = [logs EXCEPT ![r].copy = copy]
         /\ Then(w, copy)
    /\ UNCHANGED <<queue, world, retriggers, asked>>

\* The mail has left: the copy is processed. The copy of a child is its PDF.
Replays(w) ==
    LET r == worker[w].id IN
    /\ worker[w].at = "reads" /\ logs[r].copy # "none" /\ r \notin inbox
    /\ Then(w, logs[r].copy)
    /\ UNCHANGED <<store, world, breaks, retriggers, asked>>

\* The row or the copy is gone, no PDF can be staged, or Graph answers with an
\* error.
ReadFails(w) ==
    /\ worker[w].at = "reads"
    /\ Goes(w, "failed")
    /\ UNCHANGED <<store, world, breaks, retriggers, asked>>

\* One PDF: the child exists, its row cannot be inserted, its file cannot be
\* copied, or it is created.
SplitsOne(w, k) ==
    LET m == worker[w].id
        r == <<m, k>>
    IN
    /\ worker[w].at = "split" /\ k \in worker[w].todo
    /\ worker' = [worker EXCEPT ![w].todo = @ \ {k}]
    /\ \/ (Exists(r) \/ ~subscribed) /\ UNCHANGED <<logs, queue, breaks>>
       \/ /\ Exists(m) /\ ~Exists(r) /\ subscribed /\ Break
          /\ logs' = [logs EXCEPT ![m].missed = @ \cup {k}]
          /\ UNCHANGED queue
       \/ /\ ~Exists(r) /\ subscribed
          /\ logs' = [logs EXCEPT ![r] = [Absent EXCEPT !.status = "pending", !.copy = "whole",
                                                        !.force = worker[w].force]]
          /\ queue' = Append(queue, r)
          /\ UNCHANGED breaks
    /\ UNCHANGED <<world, retriggers, asked>>

\* Slip: the parent is a success as soon as one child exists.
SplitOver_First(w) == worker[w].todo # PDFs

SplitOver(w) == worker[w].todo = {}

\* The parent is written here first, then by _mark_success.
SplitEnds(w) ==
    LET m == worker[w].id IN
    /\ worker[w].at = "split" /\ SplitOver(w)
    /\ logs' = IF Exists(m) THEN [logs EXCEPT ![m].status = "success"] ELSE logs
    /\ Goes(w, "done")
    /\ UNCHANGED <<queue, world, breaks, retriggers, asked>>

\* run_agent_for_webhook, and what it recorded.
Runs(w) ==
    /\ worker[w].at = "runs"
    /\ \/ /\ Goes(w, "done")
          /\ asked' = [asked EXCEPT ![worker[w].id] = @ /\ ~worker[w].force]
       \/ Goes(w, "failed") /\ UNCHANGED asked
    /\ UNCHANGED <<store, world, breaks, retriggers>>

\* _mark_success
Succeeds(w) ==
    LET r == worker[w].id IN
    /\ worker[w].at = "done"
    /\ logs' = IF Exists(r) THEN [logs EXCEPT ![r].status = "success", ![r].force = FALSE]
               ELSE logs
    /\ Rests(w, FALSE)
    /\ UNCHANGED <<queue, world, breaks, retriggers, asked>>

\* Slip: the request of the operator is spent by the first attempt.
Retrying_Spent(r) == [logs[r] EXCEPT !.status = "retrying", !.ready = FALSE, !.force = FALSE]

\* _mark_retrying
Retrying(r) == [logs[r] EXCEPT !.status = "retrying", !.ready = FALSE]

\* A rate limit holds this worker back, and no other.
Fails(w) ==
    LET r == worker[w].id
        last == worker[w].attempts >= MaxAttempts
    IN
    /\ worker[w].at = "failed"
    /\ logs' = IF Exists(r)
               THEN [logs EXCEPT ![r] = IF last THEN [@ EXCEPT !.status = "error", !.force = FALSE]
                                        ELSE Retrying(r)]
               ELSE logs
    /\ \E limited \in BOOLEAN : (limited => ~last) /\ Rests(w, limited)
    /\ UNCHANGED <<queue, world, breaks, retriggers, asked>>

Dies(w) ==
    /\ worker[w].at # "idle" /\ Break
    /\ Rests(w, FALSE)
    /\ UNCHANGED <<store, world, retriggers, asked>>

-----------------------------------------------------------------------------
(* Time                                                                     *)

Cools(w) ==
    /\ worker[w].cool
    /\ worker' = [worker EXCEPT ![w].cool = FALSE]
    /\ UNCHANGED <<store, world, breaks, retriggers, asked>>

BecomesReady(r) ==
    /\ logs[r].status = "retrying" /\ ~logs[r].ready
    /\ logs' = [logs EXCEPT ![r].ready = TRUE]
    /\ UNCHANGED <<queue, world, worker, breaks, retriggers, asked>>

Held(r) == \E w \in Workers :
    worker[w].at \in {"reads", "split", "runs", "done", "failed"} /\ worker[w].id = r

\* _STALE_IN_PROGRESS_SECONDS, which no live worker outlasts here.
Ages(r) ==
    /\ logs[r].status = "in_progress" /\ ~logs[r].old /\ ~Held(r)
    /\ logs' = [logs EXCEPT ![r].old = TRUE]
    /\ UNCHANGED <<queue, world, worker, breaks, retriggers, asked>>

-----------------------------------------------------------------------------
Work(w) ==
    \/ Ticks(w) \/ Looks(w) \/ Claims(w)
    \/ ReadsMail(w) \/ Replays(w) \/ ReadFails(w)
    \/ (\E k \in PDFs : SplitsOne(w, k)) \/ SplitEnds(w)
    \/ Runs(w) \/ Succeeds(w) \/ Fails(w)

Next ==
    \/ \E m \in Letters : Delivers(m) \/ LeavesInbox(m)
    \/ \E r \in Rows : Retrigger(r) \/ BecomesReady(r) \/ Ages(r)
    \/ Deletes
    \/ \E w \in Workers : Work(w) \/ Dies(w) \/ Cools(w)

Fairness ==
    /\ \A w \in Workers : WF_vars(Work(w)) /\ WF_vars(Cools(w))
    /\ \A r \in Rows : WF_vars(BecomesReady(r)) /\ WF_vars(Ages(r))

Spec == Init /\ [][Next]_vars /\ Fairness

-----------------------------------------------------------------------------
\* What the operator asked for is done: a row that succeeds after a retrigger
\* has been processed as one, whatever attempts, crashes and replays came
\* between. A mail that was split is not processed again (README.md).
RetriggerReplaces ==
    \A r \in Rows \ Split : logs[r].status = "success" => ~asked[r]

\* A split mail is a success once each of its PDFs has a row, but for those
\* whose file could not be copied.
SplitComplete ==
    \A m \in Split : logs[m].status = "success" /\ logs[m].copy = "whole" =>
        \A k \in PDFs \ logs[m].missed : Exists(<<m, k>>)
=============================================================================
