SPECIFICATION Spec
CHECK_DEADLOCK FALSE
CONSTANTS
  u1 = u1  u2 = u2  c1 = c1  c2 = c2
  Inst = inst
  Terms = {t1}
  Units = {u1}
  Clusters = {c1}
  ClusterOf <- OneUnit
  NRes = 3
  Approval <- Approvals
  Malformed <- LastResource
  UninstallWhen <- OnceStarted
  MaxChecks = 2
  MaxFlips = 2
  MaxDbErrs = 0
  MaxCrashes = 1
INVARIANTS InOrder AppliedMeansInstalled TrackerMeansInstalled
PROPERTIES DeletedMeansGone ImplementsAppContext
