SPECIFICATION BriefingSpec
CONSTANTS
    DirectJobs = {d1}
    ManagedJobs = {}
    Explorations = {}
    WriteJobs = {d1}
    Parent <- MCParent
    MaxAttempts <- MCTwice
    Checks = 1
    Ceiling <- MCCeiling
    Unlimited = Unlimited
    MaxSpend = 1
    Reports = {TRUE, FALSE}
    Servers = {s1, s2}
    Managers = {}
    None = None
    MaxCancels = 2
SYMMETRY MCServerSymmetry
INVARIANTS
    JobAgreesWithAttempts
    LiveAttemptIsDriven
    ClosedAttemptHasNoChild
    CancelReceiptIsTrue
    ToldAsItWas
PROPERTIES
    ClosedAttemptIsFinal
    RecoveryFindsNobody
CHECK_DEADLOCK FALSE
