SPECIFICATION FairSpec
CONSTANTS
  Node = {n1, n2, n3}
  IP = {i1, i2}
  None = None
  Ops = {"post", "delete"}
  Settled = FALSE
  Refuses = TRUE
  Resubmit = TRUE
  Lossy = FALSE
  MaxEntrances = 4
  MaxRequests = 3
  MaxCrashes = 1
CHECK_DEADLOCK FALSE
INVARIANT StoredDropletsExist
INVARIANT EveryDropletHasIp
PROPERTY ProvisionedStays
PROPERTY EventuallyProvisioned
