SPECIFICATION Spec
CONSTANTS
  d1 = d1  d2 = d2  m0 = m0  x1 = x1  x2 = x2
  DirectJobs = {}
  ManagedJobs = {m0}
  Explorations = {x1, x2}
  WriteJobs = {m0}
  Parent <- MCParent
  MaxAttempts <- MCOnce
  Checks = 1
  Ceiling <- MCCeiling
  Unlimited = Unlimited
  MaxSpend = 1
  Reports = {FALSE}
  Servers = {s1}
  Managers = {m1}
  None = None
  MaxCancels = 1
SYMMETRY MCChildSymmetry
INVARIANTS
    CeilingHolds
CHECK_DEADLOCK FALSE
