\* Several processes and tasks that outlast RUN_STALE_AFTER, two gates.
CONSTANTS
    Launch = launch
    Resumes = {r1, r2}
    Gates = 2
    Replicas = TRUE
    LongRuns = TRUE
    Outages = TRUE
    None = None
SPECIFICATION FairSpec
INVARIANTS OneHolder HeldIsNotOpen NoStrandedRun EndToldOnce
PROPERTIES EveryRunEnds HeldIsStable
