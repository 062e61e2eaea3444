SPECIFICATION Spec
\* No request has to come.
CHECK_DEADLOCK FALSE
CONSTANTS
  Reqs = {r1}
  Ctxs = {k1}
  NoCtx = NoCtx
  Keys = {y1}
  NoKey = NoKey
  Clusters = {c1}
  Quotas = {u}
  MaxRequests = 7
  MaxFaults = 0
PROPERTY AppliedIsNotRemoved
