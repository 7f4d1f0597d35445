SPECIFICATION FairSpec
CONSTANTS
    Managers = {m1}
    Questions = {q1}
    Briefs = {b1, b2}
    MaxAttempts = 2
    MaxRounds = 1
    MaxTurns = 3
    Budgeted = FALSE
    Cancellable = TRUE
    Recovering = FALSE
    StartLimit = 2
    None = None
INVARIANTS
    PaidOncePerProcess
    Resumable
PROPERTIES
    ManageEnds
    WorkerIsToldTheDecision
CHECK_DEADLOCK FALSE
