SPECIFICATION Spec
CONSTANTS
  Jobs = {j1}
  Projects = {p1}
  Project <- MCOneProject
  Principals = {h1, h2}
  Requests = {c1, c2}
  None = None
  MaxReceipts = 2
  MaxOutside = 1
  MaxCrashes = 1
  MaxLost = 1
SYMMETRY MCSymmetry
INVARIANTS
    ApprovalSpentOnce
    RecordsAgree
PROPERTIES
    ToldTruly
    AuthoritySpec
CHECK_DEADLOCK FALSE
