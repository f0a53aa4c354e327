\* Two replicas that tick the same slots, a save and a crash.
CONSTANTS
    Processes = {p1, p2}
    Runs = {r1, r2, r3}
    Plans <- OnePlan
    Horizon = 3
    MaxSaves = 1
    MaxCrashes = 1
    SlowTicks = FALSE
    SlowEnds = FALSE
    LongRuns = FALSE
    None = None
CHECK_DEADLOCK FALSE
SPECIFICATION Spec
SYMMETRY Interchangeable
INVARIANTS NoOverlap OneLaunchPerSlot
