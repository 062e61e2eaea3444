SPECIFICATION FairSpec
CHECK_DEADLOCK FALSE
CONSTANTS
  u1 = u1  u2 = u2  c1 = c1  c2 = c2
  Inst = inst
  Terms = {t1}
  Units = {u1, u2}
  Clusters = {c1, c2}
  ClusterOf <- OwnClusters
  NRes = 1
  Approval <- NoResource
  Malformed <- NoResource
  UninstallWhen <- OnceReturned
  MaxChecks = 1
  MaxFlips = 2
  MaxDbErrs = 0
  MaxCrashes = 0
PROPERTIES InstallEnds TerminateEnds
