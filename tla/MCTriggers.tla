------------------------------ MODULE MCTriggers ------------------------------
(***************************************************************************)
(* Instances of WorkflowChain, FailureAlerts and FilePolls for TLC.  The     *)
(* three share no state: a behaviour is one of them, chosen at the start.    *)
(***************************************************************************)
EXTENDS WorkflowChain, TLC

CONSTANTS
    wfA, wfB, wfC,      \* workflows
    Failures, Cooldown, Tries,
    Files, Processes, MaxVersion, Faults,
    MaxClock,           \* of FailureAlerts or of FilePolls
    Parts               \* which of the three are explored

\* The end of wfA launches wfB, and wfC too when it is an error; an end of wfB
\* or of wfC launches wfA.
FourListeners ==
    {[run |-> wfB, of |-> wfA, on |-> "any"], [run |-> wfC, of |-> wfA, on |-> "error"],
     [run |-> wfA, of |-> wfB, on |-> "success"], [run |-> wfA, of |-> wfC, on |-> "any"]}

\* An agent of wfB calls wfC.
OneTool == {<<wfB, wfC>>}

VARIABLES
    part,
    alert, slot, task, mails, counted, replicas, calm,
    due, folder, last, seen, poll, faults, fired, waived, broken,
    clock               \* of FailureAlerts or of FilePolls

Alerts == INSTANCE FailureAlerts
Polls == INSTANCE FilePolls

alerts == <<alert, slot, task, mails, counted, replicas, calm>>
polls == <<due, folder, last, seen, poll, faults, fired, waived, broken>>

Start ==
    /\ part \in Parts
    /\ Init /\ Alerts!Init /\ Polls!Init
    /\ run[1].wf = wfA
    /\ part # "alerts" => ~replicas
    /\ part # "polls" => \A f \in Files : folder[f] = 0

Step ==
    /\ UNCHANGED part
    /\ \/ part = "chain" /\ Next /\ UNCHANGED <<alerts, polls, clock>>
       \/ part = "alerts" /\ Alerts!Next /\ UNCHANGED <<vars, polls>>
       \/ part = "polls" /\ Polls!Next /\ UNCHANGED <<vars, alerts>>

OneOfThem == Start /\ [][Step]_<<part, vars, alerts, polls, clock>>

SameProcesses == Permutations(Processes)

OneAlertAnHour == Alerts!OneAlertAnHour
GroupedAreTold == Alerts!GroupedAreTold
OneRunPerFile == Polls!OneRunPerFile
=============================================================================
