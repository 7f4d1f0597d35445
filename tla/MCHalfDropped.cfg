SPECIFICATION Spec
CONSTANTS
    Processes = {p, q}
    Receipts = {r1, r2}
    Columns = {c, d}
    Together = FALSE
    MaxCrashes = 1
    None = None
INVARIANTS
    ReceiptsAreKept
CHECK_DEADLOCK FALSE
