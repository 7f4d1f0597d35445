SPECIFICATION Spec
CONSTANTS
  Jobs = {j1, j2}
  Projects = {p1}
  Project <- MCOneProject
  Principals = {h1}
  Requests = {c1, c2}
  None = None
  MaxReceipts = 2
  MaxOutside = 0
  MaxCrashes = 1
  MaxLost = 1
INVARIANTS
  SerialIntegration
PROPERTIES
  RollbackReceiptIsTrue
SYMMETRY MCJobSymmetry
CHECK_DEADLOCK FALSE
