--------------------------- MODULE MailSubscription ---------------------------
(***************************************************************************)
(* The workflow subscription of one owner to an Outlook mailbox             *)
(* (core/workflow_mail_subscriptions.py, scheduler/webhook_renewal.py) and  *)
(* the mails it launches workflows for, beside the subscription of an agent *)
(* to the same mailbox (routers/webhook_handlers/outlook.py).               *)
(*                                                                         *)
(* A transaction is one step, a call to Microsoft Graph another.  A         *)
(* subscription at Graph is named by the client_state it was created with.  *)
(***************************************************************************)
EXTENDS Naturals

CONSTANTS
    Reconcilers,    \* processes that run reconcile_outlook_subscriptions
    Renewers,       \* processes that run _renew_expiring_subscriptions
    Mails,
    MaxTokens,      \* bound: reservations
    MaxRows,        \* bound: rows ever inserted
    Faults,         \* bound: errors of Graph, crashes, slow calls
    Toggles,        \* bound: e-mail triggers armed or disarmed
    None

Tokens == 1..MaxTokens

VARIABLES
    wanted,         \* an e-mail trigger of the owner is armed
    row,            \* the row of webhook_subscriptions, or None
    graph,          \* subscriptions that live at Graph
    rows, tokens,   \* rows inserted, client_state drawn
    rec, ren,       \* the tasks
    mail,
    faults, toggles

sub == <<wanted, row, graph, rows, tokens, toggles>>
vars == <<sub, rec, ren, mail, faults>>

Resting == [at |-> "idle", wanted |-> FALSE, read |-> None, token |-> 0,
            drop |-> 0]
Asleep == [at |-> "idle", id |-> 0, graph |-> 0]

\* The mailbox; the log of each subscription, wf being "told" while the
\* notification of subscription told is on its way and "none" if there is none;
\* the copy in the log of the workflows ("lost" with the log while it is
\* processed); the rows that existed when the log of the agent was inserted. The
\* rest is history: the launches, and the mails that nobody could launch
\* (missed) or that the code does not launch once (excused).
NotCome == [box |-> "none", told |-> 0, agent |-> "none", wf |-> "none",
            copy |-> "none", rows |-> 0, launched |-> 0,
            missed |-> FALSE, excused |-> FALSE]

Init ==
    /\ wanted = TRUE /\ row = None /\ graph = {} /\ rows = 0 /\ tokens = 0
    /\ rec = [p \in Reconcilers |-> Resting]
    /\ ren = [n \in Renewers |-> Asleep]
    /\ mail = [m \in Mails |-> NotCome]
    /\ faults = 0 /\ toggles = 0

Fault == faults < Faults /\ faults' = faults + 1

\* An update refreshes updated_at (onupdate).
Updated(r) == [r EXCEPT !.old = FALSE]

\* The log goes with its row (ON DELETE CASCADE); the worker that holds it goes on.
Erased(l) ==
    CASE l.wf = "todo" -> [l EXCEPT !.wf = "erased", !.copy = "none",
                                    !.missed = @ \/ l.agent = "done"]
      [] l.wf \in {"taken", "runs"} -> [l EXCEPT !.copy = "lost"]
      [] OTHER -> l

Deleted == row' = None /\ mail' = [m \in Mails |-> Erased(mail[m])]

Active == row # None /\ row.status = "active"

\* The checks of handle_outlook_notification on a notification of t.
Hears(t) == Active /\ row.graph = t /\ row.token = t

Heard == \E t \in graph : Hears(t)

-----------------------------------------------------------------------------
(* reconcile_outlook_subscriptions                                          *)

Goes(p, at) ==
    rec' = [rec EXCEPT ![p] = IF at = "idle" THEN Resting ELSE [@ EXCEPT !.at = at]]

\* _wanted_owner_emails, _owners_with_integration
ReadsWanted(p) ==
    /\ rec[p].at = "idle"
    /\ rec' = [rec EXCEPT ![p] = [Resting EXCEPT !.at = "rows", !.wanted = wanted]]
    /\ UNCHANGED <<sub, ren, mail, faults>>

\* Slip: a row that is pending is never taken up again.
Retried_NotPending(r) == r.status \in {"expired", "error"} /\ r.old

\* Neither active nor within RETRY_AFTER.
Retried(r) == r.status # "active" /\ r.old

ReadsRow(p) ==
    /\ rec[p].at = "rows"
    /\ LET at == CASE rec[p].wanted /\ row = None -> "claim"
                  [] rec[p].wanted /\ row # None /\ Retried(row) -> "claim"
                  [] ~rec[p].wanted /\ row # None -> "remove"
                  [] OTHER -> "idle"
       IN  rec' = [rec EXCEPT ![p] = IF at = "idle" THEN Resting
                                     ELSE [@ EXCEPT !.at = at, !.read = row]]
    /\ UNCHANGED <<sub, ren, mail, faults>>

\* _graph_delete is next, if there is something to delete at Graph.
Drops(p, g) ==
    rec' = [rec EXCEPT ![p] = IF g = 0 THEN Resting
                              ELSE [@ EXCEPT !.at = "drop", !.drop = g]]

\* By id alone; then the subscription that was read.
Removes(p) ==
    /\ rec[p].at = "remove"
    /\ IF row # None /\ row.id = rec[p].read.id THEN Deleted ELSE UNCHANGED <<row, mail>>
    /\ Drops(p, rec[p].read.graph)
    /\ UNCHANGED <<wanted, graph, rows, tokens, toggles, ren, faults>>

\* _graph_delete: an error is only logged. After a claim the new one comes next.
Forgets(p) ==
    /\ rec[p].at \in {"drop", "replace"}
    /\ \/ graph' = graph \ {rec[p].drop} /\ UNCHANGED faults
       \/ Fault /\ UNCHANGED graph
    /\ Goes(p, IF rec[p].at = "drop" THEN "idle" ELSE "create")
    /\ UNCHANGED <<wanted, row, rows, tokens, toggles, ren, mail>>

\* The conditional update of _claim.
Claimable(r) ==
    row # None /\ row.id = r.id /\ row.status = r.status /\ row.token = r.token

Claims(p) ==
    LET r == rec[p].read IN
    /\ rec[p].at = "claim" /\ tokens < MaxTokens
    /\ tokens' = tokens + 1
    /\ \/ /\ r = None /\ row = None /\ rows < MaxRows
          /\ rows' = rows + 1
          /\ row' = [id |-> rows', status |-> "pending", token |-> tokens',
                     graph |-> 0, old |-> FALSE, expiry |-> "far"]
          /\ rec' = [rec EXCEPT ![p].at = "create", ![p].token = tokens']
       \/ /\ r # None /\ Claimable(r)
          /\ row' = Updated([row EXCEPT !.status = "pending", !.token = tokens'])
          /\ rec' = [rec EXCEPT ![p].token = tokens', ![p].drop = r.graph,
                                ![p].at = IF r.graph = 0 THEN "create" ELSE "replace"]
          /\ UNCHANGED rows
    /\ UNCHANGED <<wanted, graph, toggles, ren, mail, faults>>

\* Another process has the row.
Yields(p) ==
    /\ rec[p].at = "claim"
    /\ IF rec[p].read = None THEN row # None ELSE ~Claimable(rec[p].read)
    /\ Goes(p, "idle")
    /\ UNCHANGED <<sub, ren, mail, faults>>

\* OutlookWebhookService.create_subscription
Creates(p) ==
    /\ rec[p].at = "create"
    /\ \/ graph' = graph \cup {rec[p].token} /\ Goes(p, "write") /\ UNCHANGED faults
       \/ Fault /\ Goes(p, "fail") /\ UNCHANGED graph
    /\ UNCHANGED <<wanted, row, rows, tokens, toggles, ren, mail>>

Mine(p) == row # None /\ row.token = rec[p].token

\* The row is written if it is still the reservation of p; if not, the
\* subscription just created is given up.
Writes(p) ==
    /\ rec[p].at = "write"
    /\ IF Mine(p)
       THEN /\ row' = Updated([row EXCEPT !.status = "active", !.graph = rec[p].token,
                                          !.expiry = "far"])
            /\ Goes(p, "idle")
       ELSE Drops(p, rec[p].token) /\ UNCHANGED row
    /\ UNCHANGED <<wanted, graph, rows, tokens, toggles, ren, mail, faults>>

WritesFailure(p) ==
    /\ rec[p].at = "fail"
    /\ row' = IF Mine(p) THEN Updated([row EXCEPT !.status = "error", !.graph = 0]) ELSE row
    /\ Goes(p, "idle")
    /\ UNCHANGED <<wanted, graph, rows, tokens, toggles, ren, mail, faults>>

Dies(p) ==
    /\ rec[p].at # "idle" /\ Fault
    /\ rec' = [rec EXCEPT ![p] = Resting]
    /\ UNCHANGED <<sub, ren, mail>>

Reconcile(p) ==
    \/ ReadsWanted(p) \/ ReadsRow(p) \/ Removes(p) \/ Forgets(p)
    \/ Claims(p) \/ Yields(p) \/ Creates(p) \/ Writes(p) \/ WritesFailure(p)

-----------------------------------------------------------------------------
(* _renew_expiring_subscriptions; a pass that is killed starts again.       *)

\* Selected with the others of the pass, renewed later.
PicksDue(n) ==
    /\ ren[n].at = "idle" /\ Active /\ row.expiry # "far" /\ row.graph # 0
    /\ ren' = [ren EXCEPT ![n] = [at |-> "due", id |-> row.id, graph |-> row.graph]]
    /\ UNCHANGED <<sub, rec, mail, faults>>

\* Renewed, 404, or another error.
AsksGraph(n) ==
    /\ ren[n].at = "due"
    /\ \/ /\ ren' = [ren EXCEPT ![n].at = IF ren[n].graph \in graph THEN "renewed" ELSE "gone"]
          /\ UNCHANGED faults
       \/ Fault /\ ren' = [ren EXCEPT ![n].at = "failed"]
    /\ UNCHANGED <<sub, rec, mail>>

Same(n) == row # None /\ row.id = ren[n].id

\* By id alone.
Records(n) ==
    /\ ren[n].at \in {"renewed", "gone", "failed"}
    /\ CASE ~Same(n) -> UNCHANGED <<row, mail>>
         [] Same(n) /\ ren[n].at = "gone" -> Deleted
         [] Same(n) /\ ren[n].at = "renewed" ->
               /\ row' = Updated([row EXCEPT !.status = "active", !.expiry = "far"])
               /\ UNCHANGED mail
         [] Same(n) /\ ren[n].at = "failed" ->
               row' = Updated([row EXCEPT !.status = "expired"]) /\ UNCHANGED mail
    /\ ren' = [ren EXCEPT ![n] = Asleep]
    /\ UNCHANGED <<wanted, graph, rows, tokens, toggles, rec, faults>>

\* The end of a pass.
MarksPastDue(n) ==
    /\ ren[n].at = "idle" /\ Active /\ row.expiry = "past"
    /\ row' = Updated([row EXCEPT !.status = "expired"])
    /\ UNCHANGED <<wanted, graph, rows, tokens, toggles, rec, ren, mail, faults>>

Renew(n) == PicksDue(n) \/ AsksGraph(n) \/ Records(n) \/ MarksPastDue(n)

-----------------------------------------------------------------------------
(* Time, Graph and the owner.                                               *)

Creating == {p \in Reconcilers : rec[p].at \in {"replace", "create", "write", "fail"}}

\* RETRY_AFTER; the creation or the renewal of a row lasts that long by fault.
Ages ==
    /\ row # None /\ ~row.old
    /\ IF \/ \E p \in Creating : Mine(p)
          \/ row.status # "active" /\ \E n \in Renewers : ren[n].at # "idle" /\ Same(n)
       THEN Fault ELSE UNCHANGED faults
    /\ row' = [row EXCEPT !.old = TRUE]
    /\ UNCHANGED <<wanted, graph, rows, tokens, toggles, rec, ren, mail>>

NearsExpiry ==
    /\ row # None /\ row.expiry = "far" /\ Active
    /\ row' = [row EXCEPT !.expiry = "near"]
    /\ UNCHANGED <<wanted, graph, rows, tokens, toggles, rec, ren, mail, faults>>

\* Two passes have run in between, unless the processes were down.
Expires ==
    /\ row # None /\ row.expiry = "near" /\ Active
    /\ IF row.graph # 0 THEN Fault ELSE UNCHANGED faults
    /\ row' = [row EXCEPT !.expiry = "past"]
    /\ graph' = graph \ {row.graph}
    /\ UNCHANGED <<wanted, rows, tokens, toggles, rec, ren, mail>>

\* A subscription that nobody renews ends; one that is in use, by fault.
GraphDrops(t) ==
    /\ t \in graph
    /\ IF \/ row # None /\ row.graph = t
          \/ \E p \in Creating : rec[p].at = "write" /\ rec[p].token = t
       THEN Fault ELSE UNCHANGED faults
    /\ graph' = graph \ {t}
    /\ UNCHANGED <<wanted, row, rows, tokens, toggles, rec, ren, mail>>

\* A workflow is published or withdrawn (sync_trigger_for_workflow).
Toggle ==
    /\ toggles < Toggles
    /\ toggles' = toggles + 1 /\ wanted' = ~wanted
    /\ UNCHANGED <<row, graph, rows, tokens, rec, ren, mail, faults>>

-----------------------------------------------------------------------------
(* A mail, notified to the agent and to this subscription by requests of     *)
(* their own, at any time. Graph sends again what was not answered; a second *)
(* log is refused (unique index).                                            *)

\* A subscription that is not the one of the row is not told: it is refused.
Comes(m) ==
    /\ mail[m].box = "none"
    /\ mail' = [mail EXCEPT ![m] = [@ EXCEPT !.box = "in",
         !.wf = IF row # None /\ row.token \in graph THEN "told" ELSE "none",
         !.told = IF row # None /\ row.token \in graph THEN row.token ELSE 0]]
    /\ UNCHANGED <<sub, rec, ren, faults>>

\* The mail is moved or deleted: Graph answers 404.
Leaves(m) ==
    /\ mail[m].box = "in"
    /\ mail' = [mail EXCEPT ![m].box = "gone"]
    /\ UNCHANGED <<sub, rec, ren, faults>>

\* The subscription has the mail, or will be told of it.
Theirs(m) == mail[m].wf \in {"told", "todo", "taken", "runs", "done"}

\* created_at of the log is what the coverage is judged by. Excused: there is a
\* row, and it has not been told of the mail.
AgentDelivered(m) ==
    /\ mail[m].box # "none" /\ mail[m].agent = "none"
    /\ mail' = [mail EXCEPT ![m].agent = "todo", ![m].rows = rows,
                            ![m].excused = @ \/ (row # None /\ ~Theirs(m))]
    /\ UNCHANGED <<sub, rec, ren, faults>>

\* The agent leaves the mail to the row, or has left it.
LeftToRow(m) ==
    \/ mail[m].agent = "todo" /\ row # None /\ row.id <= mail[m].rows
    \/ mail[m].agent = "done" /\ mail[m].launched = 0

\* Excused: what the agent has launched is launched again, or what it leaves
\* is refused, for the row has changed since the mail came.
WorkflowDelivered(m) ==
    /\ mail[m].wf = "told"
    /\ mail' = [mail EXCEPT
         ![m].wf = IF Hears(mail[m].told) THEN "todo" ELSE "refused",
         ![m].excused = @ \/ IF Hears(mail[m].told) THEN mail[m].launched > 0
                             ELSE LeftToRow(m)]
    /\ UNCHANGED <<sub, rec, ren, faults>>

-----------------------------------------------------------------------------
(* process_webhook_log_row; the check and the dispatch of the agent are one  *)
(* step, as nothing in between reads what is launched.                       *)

\* Slip: any active subscription covers any mail.
Covers_Any(m) == Active

\* has_active_workflow_subscription: the row is older than the log of the agent.
Covers(m) == Active /\ row.id <= mail[m].rows

AgentLeaves(m) ==
    /\ mail[m].agent = "todo" /\ mail[m].box = "in" /\ Covers(m)
    /\ mail' = [mail EXCEPT ![m].agent = "done"]
    /\ UNCHANGED <<sub, rec, ren, faults>>

\* A run of the agent that fails comes back here: launched again.
AgentLaunches(m) ==
    /\ mail[m].agent = "todo" /\ mail[m].box = "in" /\ ~Covers(m)
    /\ \E again \in BOOLEAN :
         /\ IF again THEN Fault ELSE UNCHANGED faults
         /\ mail' = [mail EXCEPT
              ![m].agent = IF again THEN "todo" ELSE "done",
              ![m].launched = @ + 1,
              ![m].excused = @ \/ again \/ mail[m].wf \in {"todo", "taken", "runs", "done"}]
    /\ UNCHANGED <<sub, rec, ren>>

\* The replay of a mail that is gone dispatches nothing; nor do attempts that
\* all fail, and a dispatch that fails is only logged.
AgentMisses(m) ==
    /\ mail[m].agent = "todo"
    /\ IF mail[m].box = "gone" THEN UNCHANGED faults ELSE Fault
    /\ mail' = [mail EXCEPT ![m].agent = "done", ![m].missed = @ \/ ~Theirs(m)]
    /\ UNCHANGED <<sub, rec, ren>>

WorkflowTakes(m) ==
    /\ mail[m].wf = "todo"
    /\ mail' = [mail EXCEPT ![m].wf = "taken"]
    /\ UNCHANGED <<sub, rec, ren, faults>>

\* _process_workflow_mail: the copy is committed before the dispatch.
WorkflowReads(m) ==
    /\ mail[m].wf = "taken"
    /\ mail[m].box = "in" \/ mail[m].copy = "kept"
    /\ mail' = [mail EXCEPT ![m].wf = "runs", ![m].copy = IF @ = "none" THEN "kept" ELSE @]
    /\ UNCHANGED <<sub, rec, ren, faults>>

\* [SKIP] of _replay_workflow_mail; or the last attempt fails.
WorkflowMisses(m) ==
    /\ mail[m].wf = "taken"
    /\ IF mail[m].box = "gone" /\ mail[m].copy # "kept" THEN UNCHANGED faults ELSE Fault
    /\ mail' = [mail EXCEPT ![m].wf = "done", ![m].missed = TRUE]
    /\ UNCHANGED <<sub, rec, ren>>

WorkflowLaunches(m) ==
    /\ mail[m].wf = "runs"
    /\ mail' = [mail EXCEPT ![m].wf = "done", ![m].launched = @ + 1]
    /\ UNCHANGED <<sub, rec, ren, faults>>

\* An error or a kill: attempted again, what was launched too, if the log is there.
WorkflowFails(m) ==
    /\ mail[m].wf \in {"taken", "runs"} /\ Fault
    /\ \E some \in {FALSE} \cup {mail[m].wf = "runs"} :
         mail' = [mail EXCEPT
              ![m].wf = IF mail[m].copy = "lost" THEN "erased" ELSE "todo",
              ![m].launched = IF some THEN @ + 1 ELSE @,
              ![m].excused = @ \/ some, ![m].missed = @ \/ mail[m].copy = "lost"]
    /\ UNCHANGED <<sub, rec, ren>>

Delivered(m) == AgentDelivered(m) \/ WorkflowDelivered(m)

Handles(m) ==
    \/ AgentLeaves(m) \/ AgentLaunches(m) \/ AgentMisses(m)
    \/ WorkflowTakes(m) \/ WorkflowReads(m) \/ WorkflowMisses(m)
    \/ WorkflowLaunches(m) \/ WorkflowFails(m)

-----------------------------------------------------------------------------
Time == Ages \/ NearsExpiry \/ Expires

Next ==
    \/ \E p \in Reconcilers : Reconcile(p) \/ Dies(p)
    \/ \E n \in Renewers : Renew(n)
    \/ Time \/ (\E t \in Tokens : GraphDrops(t)) \/ Toggle
    \/ \E m \in Mails : Comes(m) \/ Leaves(m) \/ Delivered(m) \/ Handles(m)

Fairness ==
    /\ \A p \in Reconcilers : WF_vars(Reconcile(p))
    /\ \A n \in Renewers : WF_vars(Renew(n))
    /\ WF_vars(Ages) /\ WF_vars(NearsExpiry) /\ WF_vars(Expires)

Spec == Init /\ [][Next]_vars /\ Fairness

-----------------------------------------------------------------------------
Settled(m) == mail[m].agent = "done" /\ mail[m].wf \notin {"told", "todo", "taken", "runs"}

\* A mail launches the workflows once, by the one path or the other, in whatever
\* order the two logs are inserted and handled and whatever the row becomes
\* meanwhile; but for the cases README.md lists (missed, excused).
OneLaunchPerMail ==
    \A m \in Mails :
        Settled(m) /\ ~mail[m].missed /\ ~mail[m].excused => mail[m].launched = 1

\* While a trigger stays armed, the mailbox is heard again and again: after
\* crashes, errors of Graph, slow calls and stale writes.
WantedIsHeard == <>[]wanted => []<>Heard

\* "Un mail plus ancien n'a été notifié qu'à l'agent (backlog lent) : c'est
\* encore à lui de le faire": a mail that only the agent was told of is launched.
NoMailLost ==
    \A m \in Mails :
        Settled(m) /\ mail[m].wf = "none" /\ ~mail[m].missed => mail[m].launched >= 1
=============================================================================
