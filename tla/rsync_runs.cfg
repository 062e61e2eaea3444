SPECIFICATION Spec
\* The environment may do nothing more, and the code itself deadlocks.
CHECK_DEADLOCK FALSE
SYMMETRY UnitSymmetry
CONSTANTS
  u1 = u1  u2 = u2  c1 = c1  c2 = c2
  Inst = inst
  Terms = {t1}
  Units = {u1, u2}
  Clusters = {c1}
  ClusterOf <- SharedCluster
  NRes = 1
  Approval <- NoResource
  Malformed <- NoResource
  UninstallWhen <- OnceStarted
  MaxChecks = 1
  MaxFlips = 0
  MaxDbErrs = 1
  MaxCrashes = 0
INVARIANTS TypeOK Registry NoOverlap
