\* One process, two gates, crashes, outages, tasks that outlast RUN_STALE_AFTER.
CONSTANTS
    Launch = launch
    Resumes = {r1, r2}
    Gates = 2
    Replicas = FALSE
    LongRuns = TRUE
    Outages = TRUE
    None = None
SYMMETRY ResumeSymmetry
SPECIFICATION Spec
INVARIANTS TypeOK TakenOnce
PROPERTIES AnsweredNeverReopens KeepsPromise
