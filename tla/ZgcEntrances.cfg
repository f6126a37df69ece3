SPECIFICATION Spec
CONSTANTS
  Node = {n1, n2, n3}
  IP = {i1, i2, i3}
  None = None
  Ops = {"post", "delete"}
  Settled = TRUE
  Refuses = TRUE
  Resubmit = FALSE
  Lossy = TRUE
  MaxEntrances = 2
  MaxRequests = 4
  MaxCrashes = 1
SYMMETRY Symmetry
CHECK_DEADLOCK FALSE
INVARIANT OneEntrance
INVARIANT EntrancesMatch
INVARIANT GwRowsBacked
