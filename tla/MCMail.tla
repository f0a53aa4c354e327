-------------------------------- MODULE MCMail --------------------------------
(***************************************************************************)
(* Instances of WebhookBacklog and MailSubscription for TLC.  They share no  *)
(* state: a behaviour is one part, chosen at the start, in which some of the  *)
(* constants of the configuration take part.                                 *)
(*   renewals   both reconcilers and both renewers, no mail                  *)
(*   mails      one of each, a mail, a trigger that is withdrawn             *)
(*   split      one worker, a mail with two PDFs, a retrigger                *)
(*   shared     both workers, a mail without PDF, a retrigger                *)
(***************************************************************************)
EXTENDS WebhookBacklog, TLC

CONSTANTS
    Reconcilers, Renewers, Mails, MaxTokens, MaxRows, Faults, Toggles, None,
    Worker1, Reconciler1, Renewer1, Parts

VARIABLES
    part,
    wanted, row, graph, rows, tokens, rec, ren, mail, faults, toggles

Owner == INSTANCE MailSubscription

owner == <<wanted, row, graph, rows, tokens, rec, ren, mail, faults, toggles>>

Start == part \in Parts /\ Init /\ Owner!Init

\* Who does not take part, and the bounds of a part.
Renewals ==
    /\ mail' = mail /\ toggles' = toggles

OneEach ==
    /\ \A p \in Reconcilers \ {Reconciler1} : rec'[p] = rec[p]
    /\ \A n \in Renewers \ {Renewer1} : ren'[n] = ren[n]
    /\ tokens' <= 3 /\ rows' <= 2 /\ faults' <= 1

OneWorker ==
    /\ \A w \in Workers \ {Worker1} : worker'[w] = worker[w]
    /\ Range(queue') \cap Letters \subseteq Split
    /\ breaks' <= 1

NoSplit == Range(queue') \cap Split = {}

Step ==
    /\ UNCHANGED part
    /\ \/ part = "renewals" /\ Owner!Next /\ Renewals /\ UNCHANGED vars
       \/ part = "mails" /\ Owner!Next /\ OneEach /\ UNCHANGED vars
       \/ part = "split" /\ Next /\ OneWorker /\ UNCHANGED owner
       \/ part = "shared" /\ Next /\ NoSplit /\ UNCHANGED owner

\* The fairness of each specification, for its part.
OneOfThem ==
    /\ Start /\ [][Step]_<<part, vars, owner>>
    /\ \A p \in Reconcilers : WF_owner(part = "renewals" /\ Owner!Reconcile(p))
    /\ \A n \in Renewers : WF_owner(part = "renewals" /\ Owner!Renew(n))
    /\ WF_owner(part = "renewals" /\ Owner!Ages)
    /\ WF_owner(part = "renewals" /\ Owner!NearsExpiry)
    /\ WF_owner(part = "renewals" /\ Owner!Expires)
    /\ \A w \in Workers :
          /\ WF_vars((part = "shared" \/ (part = "split" /\ w = Worker1)) /\ Work(w))
          /\ WF_vars((part = "shared" \/ (part = "split" /\ w = Worker1)) /\ Cools(w))
    /\ \A r \in Rows : WF_vars(BecomesReady(r)) /\ WF_vars(Ages(r))

-----------------------------------------------------------------------------
\* A mail launches the workflows once (OneLaunchPerMail), and is not left to nobody.
MailLaunchesOnce == Owner!OneLaunchPerMail
NoMailLeft == Owner!NoMailLost

\* While a trigger stays armed, the mailbox is heard again and again: after
\* crashes, errors of Graph and slow calls (reconcile_outlook_subscriptions,
\* _renew_expiring_subscriptions).
StaysHeard == part = "renewals" => Owner!WantedIsHeard

\* Every row of webhook_logs that is queued or held comes to an end, after
\* crashes, rate limits, and restarts in the middle of a split (process_once).
EveryRowSettles ==
    \A r \in Rows : logs[r].status \in {"pending", "in_progress", "retrying"}
                    ~> logs[r].status \in {"absent", "success", "error"}
=============================================================================
