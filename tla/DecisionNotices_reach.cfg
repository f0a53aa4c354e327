\* Two passes, one decision, a shutdown, no kill.
CONSTANTS
    Passes = {t1, t2}
    Decisions = 1
    MaxCuts = 1
    Kills = FALSE
    None = None

SPECIFICATION FairSpec
PROPERTIES DecisionNoticed DecisionReminded EndReachesListeners
