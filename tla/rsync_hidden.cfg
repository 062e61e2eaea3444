SPECIFICATION Spec
\* The environment may do nothing more, and the code itself deadlocks.
CHECK_DEADLOCK FALSE
CONSTANTS
  u1 = u1  u2 = u2  c1 = c1  c2 = c2
  Inst = inst
  Terms = {t1}
  Units = {u1}
  Clusters = {c1}
  ClusterOf <- OneUnit
  NRes = 2
  Approval <- NoResource
  Malformed <- NoResource
  UninstallWhen <- Never
  MaxChecks = 1
  MaxFlips = 1
  MaxDbErrs = 0
  MaxCrashes = 0
INVARIANT InstantiatedMeansApplied
