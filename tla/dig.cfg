SPECIFICATION Spec
\* No request has to come.
CHECK_DEADLOCK FALSE
SYMMETRY Symmetry
CONSTANTS
  r1 = r1  r2 = r2  k1 = k1  k2 = k2  k3 = k3
  Reqs = {r1, r2}
  Ctxs = {k1, k2, k3}
  NoCtx = NoCtx
  MaxRequests = 8
  MaxFaults = 2
INVARIANTS TypeOK HistoryLegal RecordedMeansCalled NoOrphan LastContextExists
