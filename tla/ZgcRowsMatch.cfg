SPECIFICATION Spec
CONSTANTS
  Node = {n1, n2, n3}
  IP = {i1, i2, i3, i4}
  None = None
  Ops = {"post", "delete"}
  Settled = TRUE
  Refuses = FALSE
  Resubmit = FALSE
  Lossy = FALSE
  MaxEntrances = 4
  MaxRequests = 3
  MaxCrashes = 0
SYMMETRY Symmetry
CHECK_DEADLOCK FALSE
INVARIANT GwRowsMatch
