\* What takes part in each part, and its bounds, are in MCMail.
CONSTANTS
    Letters = {m1, m2}
    Split = {m1}
    PDFs = {1, 2}
    Workers = {w1, w2}
    MaxAttempts = 2
    Breaks = 2
    Retriggers = 1
    Reconcilers = {p1, p2}
    Renewers = {n1, n2}
    Mails = {m1}
    MaxTokens = 6
    MaxRows = 4
    Faults = 2
    Toggles = 1
    None = None
    Worker1 = w1
    Reconciler1 = p1
    Renewer1 = n1
    Parts = {"renewals", "mails", "split", "shared"}
CHECK_DEADLOCK FALSE
SPECIFICATION OneOfThem
INVARIANTS  RetriggerReplaces SplitComplete
PROPERTIES StaysHeard EveryRowSettles
