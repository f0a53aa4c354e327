---------------------------- MODULE FailureAlerts ----------------------------
(***************************************************************************)
(* "Me prévenir en cas d'échec" (core/workflow_alerts.py): the mails about  *)
(* the failed runs of one workflow, at most one per ALERT_COOLDOWN, the     *)
(* failures in between being counted in the next one.                       *)
(*                                                                         *)
(* A transaction is one step.  In one process the stretch from the claim of *)
(* a run to its mail has no await; replicas interleave.                     *)
(***************************************************************************)
EXTENDS Integers, FiniteSets, Functions

CONSTANTS
    Failures,   \* runs that end in error; one task alert_run_failed each
    Cooldown,   \* ALERT_COOLDOWN, in units of the clock
    Tries,      \* tries of _take_slot, three in the code
    MaxClock,   \* bound
    None        \* SQL NULL, and no row

\* last_sent_at once released: before any stamp.
Never == -Cooldown

VARIABLES
    clock,
    alert,      \* agent_runs.failure_alert
    slot,       \* the row of workflow_failure_alerts, or None
    task,       \* where each task is, what it read, the stamp it wrote
    mails,      \* history: what each mail that left said
    counted,    \* history: the failures counted in the slot
    replicas,   \* several processes (fixed from the start)
    calm        \* history: no task was cancelled or killed

vars == <<clock, alert, slot, task, mails, counted, replicas, calm>>

Asleep == [at |-> "idle", now |-> 0, read |-> None, tries |-> 0]

Init ==
    /\ clock = 0 /\ slot = None /\ mails = {} /\ counted = {} /\ calm = TRUE
    /\ alert = [f \in Failures |-> None]
    /\ task = [f \in Failures |-> Asleep]
    /\ replicas \in BOOLEAN

\* In one process nothing comes between the claim and the mail.
Free(f) ==
    replicas \/ \A g \in Failures \ {f} :
                    task[g].at \in {"idle", "mail", "teams", "over"}

Settle(f, outcome) ==
    /\ alert' = [alert EXCEPT ![f] = outcome]
    /\ task' = [task EXCEPT ![f].at = "over"]

\* _claim; another task or an end_notice may have it already.
Claims(f) ==
    /\ task[f].at = "idle" /\ Free(f) /\ alert[f] = None
    /\ alert' = [alert EXCEPT ![f] = "claimed"]
    /\ task' = [task EXCEPT ![f].at = "claimed"]
    /\ UNCHANGED <<clock, slot, mails, counted, replicas, calm>>

\* The workflow is gone, or its alerts are off.
TurnedOff(f) ==
    /\ task[f].at = "claimed"
    /\ Settle(f, "off")
    /\ UNCHANGED <<clock, slot, mails, counted, replicas, calm>>

-----------------------------------------------------------------------------
(* _take_slot, up to Tries times.                                           *)

ReadsSlot(f) ==
    /\ task[f].at \in {"claimed", "again"} /\ task[f].tries < Tries
    /\ task' = [task EXCEPT ![f].at = "read", ![f].read = slot,
                            ![f].now = IF task[f].at = "claimed" THEN clock ELSE @]
    /\ UNCHANGED <<clock, alert, slot, mails, counted, replicas, calm>>

Elapsed(f) == task[f].read # None /\ task[f].read.last <= task[f].now - Cooldown

\* Slip: the stamp that was read is not compared.
Takes_Blind(f) ==
    /\ task[f].at = "read"
    /\ task[f].read = None \/ Elapsed(f)
    /\ slot' = [last |-> task[f].now, grouped |-> 0]
    /\ task' = [task EXCEPT ![f].at = "mail"]
    /\ UNCHANGED <<clock, alert, mails, counted, replicas, calm>>

\* Slip: the count is told and kept.
Takes_Recounts(f) ==
    /\ task[f].at = "read"
    /\ task[f].read = None \/ Elapsed(f)
    /\ IF task[f].read = None
       THEN slot = None
       ELSE slot # None /\ slot.last = task[f].read.last
    /\ slot' = [last |-> task[f].now,
                grouped |-> IF slot = None THEN 0 ELSE slot.grouped]
    /\ task' = [task EXCEPT ![f].at = "mail"]
    /\ UNCHANGED <<clock, alert, mails, counted, replicas, calm>>

\* The row is inserted, or updated if its stamp is the one that was read.
Takes(f) ==
    /\ task[f].at = "read"
    /\ \/ task[f].read = None /\ slot = None
       \/ Elapsed(f) /\ slot.last = task[f].read.last
    /\ slot' = [last |-> task[f].now, grouped |-> 0]
    /\ task' = [task EXCEPT ![f].at = "mail"]
    /\ UNCHANGED <<clock, alert, mails, counted, replicas, calm>>

\* IntegrityError, or the update finds another stamp.
Overtaken(f) ==
    /\ task[f].at = "read"
    /\ \/ task[f].read = None /\ slot # None
       \/ Elapsed(f) /\ slot.last # task[f].read.last
    /\ task' = [task EXCEPT ![f].at = "again", ![f].tries = @ + 1]
    /\ UNCHANGED <<clock, alert, slot, mails, counted, replicas, calm>>

\* Too soon after the last one: this failure is counted, whatever the slot
\* has become since it was read.
Counts(f) ==
    /\ task[f].at = "read" /\ task[f].read # None /\ ~Elapsed(f)
    /\ slot' = [slot EXCEPT !.grouped = @ + 1]
    /\ counted' = counted \cup {f}
    /\ task' = [task EXCEPT ![f].at = "counted"]
    /\ UNCHANGED <<clock, alert, mails, replicas, calm>>

\* The transaction that follows: the run is marked.
Groups(f) ==
    /\ task[f].at = "counted"
    /\ Settle(f, "grouped")
    /\ UNCHANGED <<clock, slot, mails, counted, replicas, calm>>

\* Overtaken every time: grouped, and not counted.
GivesUp(f) ==
    /\ task[f].at = "again" /\ task[f].tries = Tries
    /\ Settle(f, "grouped")
    /\ UNCHANGED <<clock, slot, mails, counted, replicas, calm>>

-----------------------------------------------------------------------------
(* The mail, then the card.                                                 *)

Told(f) == IF task[f].read = None THEN 0 ELSE task[f].read.grouped

\* Sent, or tried and failed: the slot stays taken.
Mails(f) ==
    /\ task[f].at = "mail" /\ Free(f)
    /\ mails' = mails \cup {[of |-> f, at |-> task[f].now, told |-> Told(f)]}
    /\ \E outcome \in {"sent", "failed"} :
          task' = [task EXCEPT ![f].at = "teams", ![f].read = outcome]
    /\ UNCHANGED <<clock, alert, slot, counted, replicas, calm>>

\* _release
Released(f) ==
    IF slot.last = task[f].now THEN [last |-> Never, grouped |-> Told(f)] ELSE slot

MailCut(f) ==
    /\ task[f].at = "mail" /\ Free(f)
    /\ slot' = Released(f)
    /\ Settle(f, None)
    /\ calm' = FALSE
    /\ UNCHANGED <<clock, mails, counted, replicas>>

\* The card is sent, fails or is cut: the mail has left.
Settles(f) ==
    /\ task[f].at = "teams" /\ Free(f)
    /\ Settle(f, task[f].read)
    /\ UNCHANGED <<clock, slot, mails, counted, replicas, calm>>

Killed(f) ==
    /\ task[f].at \notin {"idle", "over"}
    /\ task' = [task EXCEPT ![f].at = "over"]
    /\ calm' = FALSE
    /\ UNCHANGED <<clock, alert, slot, mails, counted, replicas>>

\* Assumed: _take_slot is over before the clock moves, a fraction of an hour.
TimePasses ==
    /\ clock < MaxClock
    /\ \A f \in Failures : task[f].at \notin {"read", "again"}
    /\ clock' = clock + 1
    /\ UNCHANGED <<alert, slot, task, mails, counted, replicas, calm>>

Next ==
    \/ \E f \in Failures :
          \/ Claims(f) \/ TurnedOff(f)
          \/ ReadsSlot(f) \/ Takes(f) \/ Overtaken(f) \/ Counts(f) \/ Groups(f) \/ GivesUp(f)
          \/ Mails(f) \/ MailCut(f) \/ Settles(f) \/ Killed(f)
    \/ TimePasses

Spec == Init /\ [][Next]_vars

-----------------------------------------------------------------------------
\* Two alerts about a workflow are an ALERT_COOLDOWN apart, whatever fails at
\* the same time on several replicas, is cancelled and gives its slot back
\* (_take_slot: "deux réplicas ne prennent jamais le même créneau").
OneAlertAnHour ==
    \A m, n \in mails : m.of # n.of /\ m.at <= n.at => n.at - m.at >= Cooldown

LeftOut == {f \in Failures : alert[f] = "grouped" \/ task[f].at = "counted"}

TotalTold == SumFunctionOnSet([m \in mails |-> m.told], mails)

Leaving == [f \in Failures |-> IF task[f].at = "mail" THEN Told(f) ELSE 0]
InMail == SumFunctionOnSet(Leaving, Failures)

Waiting == IF slot = None THEN 0 ELSE slot.grouped

\* A failure left out of the mails is told by the next one, once: in one
\* process where no task is cut, each is in a mail, in the slot, or in a mail
\* being sent; elsewhere some may be lost, never told twice, although the slot,
\* the run and the mail are written in three transactions.
GroupedAreTold ==
    /\ TotalTold + Waiting <= Cardinality(counted)
    /\ ~replicas /\ calm =>
          /\ counted = LeftOut
          /\ TotalTold + Waiting + InMail = Cardinality(LeftOut)
=============================================================================
