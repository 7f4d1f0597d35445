SPECIFICATION Spec
CONSTANTS
    Calls = {c1, c2, c3}
    Requests = {t1, t2}
    Bindings = {b1, b2}
    Plain = Plain
    Restoring = Restoring
    Keys = {Key}
    Goals = {t1, t2}
    Window = 1
    MaxAttempts = 2
    MaxJobs = 2
    MaxHead = 1
    MaxTime = 2
    Repos = {t1, t2}
    MaxOps = 2
    MaxRetirings = 1
    MaxCommits = 1
    None = None
SYMMETRY Symmetry
INVARIANTS
    AtMostOnce
    DecidedAsProposed
    DividedIsMarked
PROPERTIES
    RestoreIsReported
    AuthorizedInTime
    RestoreIsSafe
CHECK_DEADLOCK FALSE
