SPECIFICATION JointSpec
CONSTANTS
  Node = {n1, n2, n3}
  Vpc = {"v1"}
  Port = {"p1"}
  VpcOf <- MCVpcOf
  Requests <- MCRequests
  Batch = 1
  BatchLimit = 1
  Capacity = 2
  Socket = 2
  MaxSends = 1
  MaxPosts = 1
  Made = {"v1"}
  Known <- NoNodes
  MaxChanges = 3
  MaxCrashes = 1
  MaxDeaths = 0
  NoCall = NoCall
  IP = {i1, i2, i3}
  NoNode = NoNode
  Ops = {"post", "delete"}
  Settled = TRUE
  Refuses = TRUE
  Resubmit = TRUE
  Lossy = FALSE
  MaxEntrances = 2
  MaxRequests = 3
  MaxFailures = 1
SYMMETRY Symmetry
INVARIANT GatewaysKnown
PROPERTY EveryGatewayTold
PROPERTY GatewaysTold
CHECK_DEADLOCK FALSE
