SPECIFICATION Spec
\* The requests are bounded; one whose list was dropped waits for ever.
CHECK_DEADLOCK FALSE
CONSTANTS
  r1 = r1  r2 = r2  a = a  b = b
  Requests = {r1, r2}
  Values = {a, b}
  NoConfig = NoConfig
  NoOne = NoOne
  MaxStarts = 4
  MaxFaults = 1
  MaxGens = 6
SYMMETRY Symmetry
INVARIANTS TypeOK History Counted ClusterTruth
PROPERTY Unchanged
