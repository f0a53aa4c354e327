--------------------------- MODULE DecisionNotices ---------------------------
(***************************************************************************)
(* What decision_notices tells about one run: the decision it waits for, a  *)
(* reminder before the deadline, an end without an answer.  Passes (tick    *)
(* from the scheduler of each replica, deliver from a stream that stops)    *)
(* read the row, reserve a column of it, then send; between a read and a    *)
(* reservation they send the notices of other runs, and the row lives on.   *)
(* An operator Name_Slip is Name with one line of its code gone wrong.      *)
(***************************************************************************)
EXTENDS Naturals, FiniteSets

CONSTANTS
    Passes,     \* the passes that may be under way
    Decisions,  \* approval nodes on the path of the run
    MaxCuts,    \* bound: shutdowns that cancel a pass
    Kills,      \* a process may be killed during a pass
    None        \* SQL NULL

ASSUME NoticesAssumption ==
    /\ None \notin Passes /\ IsFiniteSet(Passes)
    /\ Decisions \in Nat /\ MaxCuts \in Nat
    /\ Kills \in BOOLEAN

Kinds == {"notice", "reminder"}
Idle == <<"idle", "none">>

VARIABLES
    row,        \* the columns of the run read or written here
    pc,         \* where each pass is: <<stage, kind>>
    late,       \* the decision whose remind_at had passed when it began
    seen,       \* the decision in the row a pass read
    sent,       \* history: the decisions a message was tried for, per kind
    tries,      \* history: messages tried, per kind
    told,       \* history: notify_run_finished for an unanswered end
    cuts,       \* passes cancelled
    again       \* history: notices and reminders given back by their pass

vars == <<row, pc, late, seen, sent, tries, told, cuts, again>>

Init ==
    /\ row = [status |-> "running", asks |-> 0, mark |-> [k \in Kinds |-> None],
              soon |-> FALSE, due |-> FALSE, endNotice |-> "none"]
    /\ pc = [t \in Passes |-> Idle]
    /\ late = [t \in Passes |-> 0] /\ seen = [t \in Passes |-> 0]
    /\ sent = [k \in Kinds |-> {}] /\ tries = [k \in Kinds |-> 0]
    /\ told = 0
    /\ cuts = 0 /\ again = [k \in Kinds |-> 0]

-----------------------------------------------------------------------------
(* The run.                                                                 *)

RowStep == UNCHANGED <<pc, late, seen, sent, tries, told, cuts, again>>

\* Slip: an end without an answer that nobody is asked to tell.
Closed_Silent(r) == [r EXCEPT !.status = "unanswered"]

\* An end without an answer: expired, abandoned, unreadable, stopped.
Closed(r) == [r EXCEPT !.status = "unanswered", !.endNotice = "pending"]

\* _expire_due
Expired(r) == IF r.status = "awaiting" /\ r.due THEN Closed(r) ELSE r

\* pause_run: a new decision, to be announced then reminded.
Pause ==
    /\ row.status = "running" /\ row.asks < Decisions
    /\ row' = [row EXCEPT !.status = "awaiting", !.asks = @ + 1,
                          !.mark = [k \in Kinds |-> None],
                          !.soon = FALSE, !.due = FALSE, !.endNotice = "none"]
    /\ RowStep

\* claim_paused_run
Claim ==
    /\ row.status = "awaiting" /\ ~row.due
    /\ row' = [row EXCEPT !.status = "claimed"]
    /\ RowStep

\* release_paused_run, or a dead resumption set free: the marks stay.
Release ==
    /\ row.status = "claimed"
    /\ row' = [row EXCEPT !.status = "awaiting"]
    /\ RowStep

\* mark_decided
Answer ==
    /\ row.status = "claimed"
    /\ row' = [row EXCEPT !.status = "running"]
    /\ RowStep

\* finish_run: the task of the run tells this end itself.
Finish ==
    /\ row.status = "running"
    /\ row' = [row EXCEPT !.status = "over"]
    /\ RowStep

\* abandon_paused_run, an unreadable snapshot, stop_unanswered_resume.
Close ==
    /\ row.status \in {"awaiting", "claimed"}
    /\ row' = Closed(row)
    /\ RowStep

\* Any read of the runs.
Read ==
    /\ row' = Expired(row)
    /\ RowStep

ReminderComes ==
    /\ row.asks > 0 /\ ~row.soon
    /\ row' = [row EXCEPT !.soon = TRUE]
    /\ RowStep

DeadlinePasses ==
    /\ row.soon /\ ~row.due
    /\ row' = [row EXCEPT !.due = TRUE]
    /\ RowStep

-----------------------------------------------------------------------------
(* A pass: tick, alone or for one run (deliver).                            *)

\* Slip: the reminders are left out.
After_NoReminder(kind) ==
    CASE kind = "notice" -> <<"read", "end">>
      [] kind = "reminder" -> <<"read", "end">>
      [] kind = "end" -> Idle

\* What a pass goes on to once it is done with a kind of message.
After(kind) ==
    CASE kind = "notice" -> <<"read", "reminder">>
      [] kind = "reminder" -> <<"read", "end">>
      [] kind = "end" -> Idle

Goes(t, place) == pc' = [pc EXCEPT ![t] = place]

\* tick begins: its "now" is taken, deadlines are applied.
Begin(t) ==
    /\ pc[t] = Idle
    /\ row' = Expired(row)
    /\ late' = [late EXCEPT ![t] = IF row.soon THEN row.asks ELSE 0]
    /\ Goes(t, <<"read", "notice">>)
    /\ UNCHANGED <<seen, sent, tries, told, cuts, again>>

\* What pass t selects for each kind of message (_rows, _remind_moment).
Due(t, kind) ==
    CASE kind = "notice" ->
            row.status = "awaiting" /\ row.mark["notice"] = None
      [] kind = "reminder" ->
            /\ row.status = "awaiting" /\ row.mark["notice"] # None
            /\ row.mark["reminder"] = None /\ late[t] = row.asks
      [] kind = "end" -> row.endNotice = "pending"

\* _rows: the row as it is now, kept while other runs are told theirs.
ReadRow(t, kind) ==
    /\ pc[t] = <<"read", kind>>
    /\ IF Due(t, kind)
       THEN Goes(t, <<"reserve", kind>>) /\ seen' = [seen EXCEPT ![t] = row.asks]
       ELSE Goes(t, After(kind)) /\ UNCHANGED seen
    /\ UNCHANGED <<row, late, sent, tries, told, cuts, again>>

\* Slip: the reservation does not look at the column it writes.
Reservable_Always(kind) ==
    IF kind = "end" THEN row.endNotice # "none" ELSE row.status = "awaiting"

\* The WHERE of _reserve, on the row as it is by then.
Reservable(kind) ==
    IF kind = "end" THEN row.endNotice = "pending"
    ELSE row.status = "awaiting" /\ row.mark[kind] = None

\* _reserve: one pass wins the column.
Reserve(t, kind) ==
    /\ pc[t] = <<"reserve", kind>>
    /\ IF Reservable(kind)
       THEN /\ Goes(t, <<"send", kind>>)
            /\ row' = IF kind = "end" THEN [row EXCEPT !.endNotice = "sent"]
                                      ELSE [row EXCEPT !.mark[kind] = t]
       ELSE Goes(t, After(kind)) /\ UNCHANGED row
    /\ UNCHANGED <<late, seen, sent, tries, told, cuts, again>>

\* The message goes to the assignee of the decision that was read.
Attempt(t, kind) ==
    /\ sent' = [sent EXCEPT ![kind] = @ \cup {seen[t]}]
    /\ tries' = [tries EXCEPT ![kind] = @ + 1]

\* _ask, then the next message, whether the mail went out or failed.
Send(t, kind) ==
    /\ kind \in Kinds /\ pc[t] = <<"send", kind>>
    /\ Attempt(t, kind)
    /\ Goes(t, After(kind))
    /\ UNCHANGED <<row, late, seen, told, cuts, again>>

\* _tell_end, then notify_run_finished, cancelled or not from there on.
TellEnd(t) ==
    /\ pc[t] = <<"send", "end">>
    /\ told' = told + 1
    /\ Goes(t, Idle)
    /\ UNCHANGED <<row, late, seen, sent, tries, cuts, again>>

\* Slip: a cancelled pass keeps its reservation.
GivenBack_Kept(t, kind) == row

\* Slip: whatever reservation is there is given back.
GivenBack_Any(t, kind) ==
    IF kind = "end" THEN [row EXCEPT !.endNotice = "pending"]
    ELSE [row EXCEPT !.mark[kind] = None]

\* The reservation of pass t, given back if it is still its own.
GivenBack(t, kind) ==
    IF kind = "end"
    THEN IF row.endNotice = "sent" THEN [row EXCEPT !.endNotice = "pending"]
                                   ELSE row
    ELSE IF row.mark[kind] = t THEN [row EXCEPT !.mark[kind] = None] ELSE row

\* The pass is cancelled: while it sends, it gives its reservation back
\* (_sending, _announce_end); the mail may already be out.
Cut(t) ==
    /\ pc[t] # Idle /\ cuts < MaxCuts
    /\ cuts' = cuts + 1
    /\ Goes(t, Idle)
    /\ \/ /\ \A kind \in Kinds \cup {"end"} : pc[t] # <<"send", kind>>
          /\ UNCHANGED <<row, sent, tries, again>>
       \/ /\ pc[t] = <<"send", "end">>
          /\ row' = GivenBack(t, "end")
          /\ UNCHANGED <<sent, tries, again>>
       \/ \E kind \in Kinds :
             /\ pc[t] = <<"send", kind>>
             /\ row' = GivenBack(t, kind)
             /\ again' = IF row.mark[kind] = t THEN [again EXCEPT ![kind] = @ + 1]
                                               ELSE again
             /\ UNCHANGED <<sent, tries>> \/ Attempt(t, kind)
    /\ UNCHANGED <<late, seen, told>>

\* The process is killed: reservations stay, no end is told.
Killed(t) ==
    /\ Kills /\ pc[t] # Idle
    /\ Goes(t, Idle)
    /\ UNCHANGED <<row, late, seen, sent, tries, told, cuts, again>>

-----------------------------------------------------------------------------
Run ==
    \/ Pause \/ Claim \/ Release \/ Answer \/ Finish \/ Close \/ Read
    \/ ReminderComes \/ DeadlinePasses

Pass(t) ==
    \/ Begin(t) \/ TellEnd(t)
    \/ \E kind \in Kinds \cup {"end"} :
          ReadRow(t, kind) \/ Reserve(t, kind) \/ Send(t, kind)

Next == Run \/ \E t \in Passes : Pass(t) \/ Cut(t) \/ Killed(t)

Spec == Init /\ [][Next]_vars

\* The scheduler begins a pass every minute, and a pass goes on to its end.
FairSpec == Spec /\ \A t \in Passes : WF_vars(Pass(t))

-----------------------------------------------------------------------------
(* What the notices promise.                                                *)

\* Messages of a kind tried so far, the ones reserved and not yet tried included.
Tried(kind) ==
    tries[kind] + Cardinality({t \in Passes : pc[t] = <<"send", kind>>})

\* "Une seule fois": every pause is announced, and reminded, at most once,
\* whatever passes meet on the row; only the cancelled pass that holds the
\* reservation lets its message leave once more.
OncePerPause ==
    \A kind \in Kinds : Tried(kind) <= row.asks + again[kind]

\* The listeners of the end are told once, and only when nobody answered:
\* the reservation is given back before notify_run_finished, never after.
EndToldOnce ==
    /\ told + Cardinality({t \in Passes : pc[t] = <<"send", "end">>}) <= 1
    /\ told > 0 => row.status = "unanswered" /\ row.endNotice = "sent"

\* A decision that waits is announced to whoever has to answer it.
DecisionNoticed ==
    \A d \in 1..Decisions :
        row.status = "awaiting" /\ row.asks = d
            ~> d \in sent["notice"] \/ row.status # "awaiting" \/ row.asks # d

\* A decision that still waits when its reminder comes is reminded.
DecisionReminded ==
    \A d \in 1..Decisions :
        row.status = "awaiting" /\ row.asks = d /\ row.soon
            ~> d \in sent["reminder"] \/ row.status # "awaiting"
               \/ row.asks # d

\* An end without an answer reaches the listeners, on this pass or a later one.
EndReachesListeners == row.status = "unanswered" ~> told = 1
=============================================================================
