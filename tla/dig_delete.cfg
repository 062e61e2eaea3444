SPECIFICATION Spec
\* No request has to come.
CHECK_DEADLOCK FALSE
CONSTANTS
  r1 = r1  r2 = r2  k1 = k1  k2 = k2  k3 = k3
  Reqs = {r1}
  Ctxs = {k1, k2}
  NoCtx = NoCtx
  MaxRequests = 8
  MaxFaults = 0
PROPERTY DeletedMeansTerminated
