SPECIFICATION Spec
CONSTANTS
  Kind <- MCKind
  Key <- KeyOf
  Routes <- RoutesOf
  Focuses <- MCFocuses
  Unchecked = {"NetControlIntent"}
  c1 = c1  c2 = c2
  Client = {c1, c2}
  MaxFaults = 1
  NoDoc = NoDoc
SYMMETRY Clients
INVARIANTS TypeOK NoDangling Usable RefusedLeavesNoTrace
PROPERTY ImplementsEntityTree
