SPECIFICATION Spec
CONSTANTS
    Managers = {m1, m2}
    Questions = {q1}
    Briefs = {b1}
    MaxAttempts = 2
    MaxRounds = 1
    MaxTurns = 2
    Budgeted = TRUE
    Cancellable = FALSE
    Recovering = TRUE
    StartLimit = 2
    None = None
INVARIANTS
    TurnsWithinCeiling
PROPERTIES
    LateAnswerRefused
SYMMETRY Symmetry
CHECK_DEADLOCK FALSE
