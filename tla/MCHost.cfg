SPECIFICATION Spec
CONSTANTS
    Pids = {1, 2, 3}
    MaxKills = 2
    Roles = {"operator", "observer", "proposer", "executor"}
    Required = {"operator", "observer"}
    Values = {t1, t2}
    Cmds = {p1, p2}
    Turns = {a1, a2, a3}
    Threads = {t1, t2}
    MaxWire = 3
    Processes = {p1, p2}
    Receipts = {t1, t2}
    Columns = {t1, t2}
    MaxCrashes = 1
    Attempts = {Priced, Unpriced}
    Supported = {Priced, Unpriced}
    Tariffed = {Priced}
    Costs <- MCCosts
    MaxCalls = 2
    MaxLog = 2
    Counts = {0, 1}
    MaxTurns = 2
    None = None
SYMMETRY Symmetry
INVARIANTS
    AnswersAreTrue
    DatabaseIsKept
    ReceiptsAreHonest
    SplitsAreTrue
PROPERTIES
    TaskIsObeyed
    CredentialsAreKept
CHECK_DEADLOCK FALSE
