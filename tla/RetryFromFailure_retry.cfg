\* A run, two retries, two requests, a decision on the path.
CONSTANTS
    MaxRuns = 3
    Nodes = 4
    Approvals = {2}
    Handlers = {h1, h2}
    None = None
SYMMETRY HandlerSymmetry
SPECIFICATION Spec
INVARIANTS OneWayOn DoneNotRedone NothingSkipped
PROPERTIES FailureKept
