SPECIFICATION ServicesSpec
\* No request has to come.
CHECK_DEADLOCK FALSE
SYMMETRY Symmetry
CONSTANTS
  Reqs = {r1, r2}
  Ctxs = {k1, k2, k3}
  NoCtx = NoCtx
  MaxFaults = 1
  Networks = {n}
  ProviderNets = {p}
  NoNet = NoNet
  MaxNetworkRequests = 6
  Keys = {y1, y2}
  NoKey = NoKey
  Clusters = {c1, c2}
  Quotas = {u}
  MaxRequests = 7
INVARIANTS ServicesTypeOK HistoryCalled AppliedIsCurrent AnswersTrue SavedContextExists KeyFitsContext
