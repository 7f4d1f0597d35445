SPECIFICATION RecoverySpec
CONSTANTS
  d1 = d1  d2 = d2  m0 = m0  x1 = x1  x2 = x2
  DirectJobs = {d1, d2}
  ManagedJobs = {}
  Explorations = {}
  WriteJobs = {d1}
  Parent <- MCParent
  MaxAttempts <- MCOnce
  Checks = 1
  Ceiling <- MCNoCeiling
  Unlimited = Unlimited
  MaxSpend = 0
  Reports = {FALSE}
  Servers = {s1, s2}
  Managers = {}
  None = None
  MaxCancels = 1
INVARIANTS
  ExclusiveAttempts
  IInv
PROPERTIES
  AttemptsSettle
  RecoveryCompletes
CHECK_DEADLOCK FALSE
