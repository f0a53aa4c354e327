\* Four runs that launch each other, three failures, two files and two replicas.
CONSTANTS
    wfA = wfA
    wfB = wfB
    wfC = wfC
    Workflows = {wfA, wfB, wfC}
    Listeners <- FourListeners
    MaxChain = 2
    Changes = 1
    Tools <- OneTool
    MaxRuns = 4
    Failures = {f1, f2, f3}
    Cooldown = 2
    Tries = 2
    Files = {d1, d2}
    Processes = {p1, p2}
    MaxVersion = 2
    Faults = 1
    MaxClock = 3
    None = None
    Parts = {"chain", "alerts", "polls"}
CHECK_DEADLOCK FALSE
SPECIFICATION OneOfThem
SYMMETRY SameProcesses
INVARIANTS ChainsStop EveryListenerHears OneAlertAnHour GroupedAreTold OneRunPerFile
