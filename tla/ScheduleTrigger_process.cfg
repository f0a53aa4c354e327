\* One process, three slots, two schedules, a save and a crash; ticks may be slow.
CONSTANTS
    Processes = {p1}
    Runs = {r1, r2, r3}
    Plans <- TwoPlans
    Horizon = 3
    MaxSaves = 1
    MaxCrashes = 1
    SlowTicks = TRUE
    SlowEnds = FALSE
    LongRuns = FALSE
    None = None
CHECK_DEADLOCK FALSE
SPECIFICATION FairSpec
INVARIANTS ArmedAsPublished
PROPERTIES DueIsServed
