\* One process: a tick between the end of a run and its callback.
CONSTANTS
    Processes = {p1}
    Runs = {r1, r2, r3}
    Plans <- OnePlan
    Horizon = 3
    MaxSaves = 0
    MaxCrashes = 0
    SlowTicks = FALSE
    SlowEnds = TRUE
    LongRuns = FALSE
    None = None
CHECK_DEADLOCK FALSE
SPECIFICATION Spec
INVARIANTS NoOverlap
