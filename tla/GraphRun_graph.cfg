\* Chains of four runs over five versions of one workflow.
CONSTANTS
    Versions = {1, 2, 3, 4, 5}
    Graph <- MCGraph
    MaxRuns = 4
    Edits = TRUE
SPECIFICATION FairSpec
INVARIANTS TypeOK PathJustified OncePerCall ResumesWhereItStopped
PROPERTIES DoneStaysDone RunEnds
