\* Two passes, two decisions, shutdowns and kills.
CONSTANTS
    Passes = {t1, t2}
    Decisions = 2
    MaxCuts = 1
    Kills = TRUE
    None = None
SYMMETRY PassSymmetry
SPECIFICATION Spec
INVARIANTS OncePerPause EndToldOnce
