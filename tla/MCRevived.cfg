SPECIFICATION Spec
CONSTANTS
    Managers = {m1}
    Questions = {q1}
    Briefs = {b1, b2}
    MaxAttempts = 2
    MaxRounds = 1
    MaxTurns = 3
    Budgeted = FALSE
    Cancellable = TRUE
    Recovering = FALSE
    StartLimit = 1
    None = None
PROPERTIES
    CancelledStays
CHECK_DEADLOCK FALSE
