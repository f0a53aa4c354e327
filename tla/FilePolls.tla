------------------------------ MODULE FilePolls ------------------------------
(***************************************************************************)
(* A trigger "file" (core/workflow_file_triggers.py): a folder is listed    *)
(* every interval (flow_scheduler._tick_file_trigger), each file new or     *)
(* modified since the memory of the last listing launches a run.            *)
(*                                                                         *)
(* Time is the number of intervals that have passed.  A step is a stretch   *)
(* of a tick without await.  Files are dropped, modified and removed; the   *)
(* versions of a file never come back.                                      *)
(***************************************************************************)
EXTENDS Naturals, FiniteSets

CONSTANTS
    Files,
    Processes,
    MaxVersion, \* bound: versions of a file; 0 is its absence
    MaxClock,   \* bound
    Faults,     \* bound: answers of the provider that are not a listing
    None

Versions == 0..MaxVersion

VARIABLES
    clock,
    due,        \* next_run_at of the trigger
    folder,     \* version of each file in the folder, 0 once removed
    last,       \* last version of each file
    seen,       \* workflow_trigger_seen_files
    poll,       \* the poll of each process
    faults,
    fired,      \* history: how often a version of a file launched a run
    waived,     \* history: recorded without a run, by a first pass or because
                \* the workflow was no longer published
    broken      \* history: a poll stopped between its first launch and its end

vars == <<clock, due, folder, last, seen, poll, faults, fired, waived, broken>>

Asleep == [at |-> "idle", due |-> 0, moment |-> 0,
           list |-> [f \in Files |-> 0], todo |-> {}]

Init ==
    /\ clock = 0 /\ due = 1 /\ faults = 0 /\ broken = FALSE
    /\ \E S \in SUBSET Files :
          folder = [f \in Files |-> IF f \in S THEN 1 ELSE 0]
    /\ last = folder
    /\ seen = [f \in Files |-> 0]
    /\ poll = [p \in Processes |-> Asleep]
    /\ fired = [x \in Files \X Versions |-> 0]
    /\ waived = {}

-----------------------------------------------------------------------------
(* The folder.                                                              *)

Saves(f) ==
    /\ last[f] < MaxVersion
    /\ last' = [last EXCEPT ![f] = @ + 1]
    /\ folder' = [folder EXCEPT ![f] = last[f] + 1]
    /\ UNCHANGED <<clock, due, seen, poll, faults, fired, waived, broken>>

Removes(f) ==
    /\ folder[f] # 0
    /\ folder' = [folder EXCEPT ![f] = 0]
    /\ UNCHANGED <<clock, due, last, seen, poll, faults, fired, waived, broken>>

\* A poll is over before the next is due (the interval is minutes long).
TimePasses ==
    /\ clock < MaxClock
    /\ \A p \in Processes : poll[p].at = "idle"
    /\ clock' = clock + 1
    /\ UNCHANGED <<due, folder, last, seen, poll, faults, fired, waived, broken>>

-----------------------------------------------------------------------------
(* _tick_file_trigger                                                       *)

\* due_file_triggers
TickReads(p) ==
    /\ poll[p].at = "idle" /\ due <= clock
    /\ poll' = [poll EXCEPT ![p] = [Asleep EXCEPT !.at = "due", !.due = due,
                                                  !.moment = clock]]
    /\ UNCHANGED <<clock, due, folder, last, seen, faults, fired, waived, broken>>

\* reserve_next_poll; the owner may have removed the integration since.
Reserves(p) ==
    /\ poll[p].at = "due"
    /\ IF due = poll[p].due
       THEN /\ due' = poll[p].moment + 1
            /\ poll' \in {[poll EXCEPT ![p].at = "listing"],
                          [poll EXCEPT ![p] = Asleep]}
       ELSE UNCHANGED due /\ poll' = [poll EXCEPT ![p] = Asleep]
    /\ UNCHANGED <<clock, folder, last, seen, faults, fired, waived, broken>>

Empty(list) == \A f \in Files : list[f] = 0

\* Slip: only files that are not in the memory count as new.
NewFiles_Unseen(list) == {f \in Files : list[f] # 0 /\ seen[f] = 0}

\* dedupe_new_files
NewFiles(list) == {f \in Files : list[f] # 0 /\ seen[f] # list[f]}

\* poll_file_trigger once it has a listing: a first pass, and one that finds
\* nothing new, replace the memory at once (_persist_seen_files).
Compares(p, list) ==
    LET todo == IF Empty(seen) THEN {} ELSE NewFiles(list) IN
    /\ IF todo = {}
       THEN seen' = list /\ poll' = [poll EXCEPT ![p] = Asleep]
       ELSE /\ poll' = [poll EXCEPT ![p].at = "launching", ![p].list = list,
                                    ![p].todo = todo]
            /\ UNCHANGED seen
    /\ waived' = IF Empty(seen) THEN waived \cup {<<f, list[f]>> : f \in Files}
                                ELSE waived

Lists(p) ==
    /\ poll[p].at = "listing"
    /\ Compares(p, folder)
    /\ UNCHANGED <<clock, due, folder, last, faults, fired, broken>>

\* The provider answers an error, or the token is gone: an empty listing.
ListsNothing(p) ==
    /\ poll[p].at = "listing" /\ faults < Faults
    /\ Compares(p, [f \in Files |-> 0])
    /\ faults' = faults + 1
    /\ UNCHANGED <<clock, due, folder, last, fired, broken>>

\* The listing raises.
ListingFails(p) ==
    /\ poll[p].at = "listing" /\ faults < Faults
    /\ poll' = [poll EXCEPT ![p] = Asleep]
    /\ faults' = faults + 1
    /\ UNCHANGED <<clock, due, folder, last, seen, fired, waived, broken>>

\* The next file, or the memory.
GoesOn(p, f) ==
    IF poll[p].todo = {f}
    THEN seen' = poll[p].list /\ poll' = [poll EXCEPT ![p] = Asleep]
    ELSE UNCHANGED seen /\ poll' = [poll EXCEPT ![p].todo = @ \ {f}]

\* launch_triggered_run for one file
Launches(p, f) ==
    /\ poll[p].at = "launching" /\ f \in poll[p].todo
    /\ fired' = [fired EXCEPT ![<<f, poll[p].list[f]>>] = @ + 1]
    /\ GoesOn(p, f)
    /\ UNCHANGED <<clock, due, folder, last, faults, waived, broken>>

\* TriggerNotActive: the file is recorded all the same.
LaunchRefused(p, f) ==
    /\ poll[p].at = "launching" /\ f \in poll[p].todo
    /\ waived' = waived \cup {<<f, poll[p].list[f]>>}
    /\ GoesOn(p, f)
    /\ UNCHANGED <<clock, due, folder, last, faults, fired, broken>>

\* A launch raises: the poll is left, the memory as it was.
Breaks(p) ==
    /\ poll[p].at = "launching"
    /\ poll' = [poll EXCEPT ![p] = Asleep]
    /\ broken' = TRUE
    /\ UNCHANGED <<clock, due, folder, last, seen, faults, fired, waived>>

Dies(p) ==
    /\ poll[p].at # "idle"
    /\ poll' = [poll EXCEPT ![p] = Asleep]
    /\ broken' = (broken \/ poll[p].at = "launching")
    /\ UNCHANGED <<clock, due, folder, last, seen, faults, fired, waived>>

Tick(p) ==
    \/ TickReads(p) \/ Reserves(p)
    \/ Lists(p) \/ ListsNothing(p) \/ ListingFails(p)
    \/ \E f \in Files : Launches(p, f) \/ LaunchRefused(p, f)
    \/ Breaks(p) \/ Dies(p)

Next ==
    \/ \E f \in Files : Saves(f) \/ Removes(f)
    \/ TimePasses
    \/ \E p \in Processes : Tick(p)

Spec == Init /\ [][Next]_vars

-----------------------------------------------------------------------------
\* A file in the memory has launched one run, unless it is there since a first
\* pass, or was refused; no file launches two, whichever replicas poll, unless a
\* poll broke off between a launch and the memory ("un run par fichier
\* nouveau/modifié", "premier passage sans déclenchement").
OneRunPerFile ==
    \A f \in Files, v \in Versions \ {0} :
        /\ seen[f] = v => fired[<<f, v>>] >= 1 \/ <<f, v>> \in waived
        /\ ~broken => fired[<<f, v>>] <= 1
=============================================================================
