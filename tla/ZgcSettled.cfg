SPECIFICATION Spec
CONSTANTS
  Node = {n1, n2, n3}
  IP = {i1, i2, i3, i4}
  None = None
  Ops = {"post", "delete"}
  Settled = TRUE
  Refuses = TRUE
  Resubmit = FALSE
  Lossy = FALSE
  MaxEntrances = 3
  MaxRequests = 4
  MaxCrashes = 1
SYMMETRY Symmetry
CHECK_DEADLOCK FALSE
INVARIANT TypeOK
INVARIANT RangeCovered
PROPERTY PatchKeepsIps
PROPERTY OwnershipSpec
