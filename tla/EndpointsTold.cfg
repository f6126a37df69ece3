SPECIFICATION Spec
CONSTANTS
  Node = {"n1", "n2"}
  Vpc = {"v1", "v2"}
  Port = {"p1", "p2"}
  VpcOf <- MCVpcOf
  Requests <- MCRequests
  Batch = 2
  BatchLimit = 2
  Capacity = 1
  Socket = 2
  MaxSends = 2
  MaxPosts = 2
  Made = {"v1"}
  Known <- MCKnown
  MaxChanges = 2
  MaxCrashes = 1
  MaxDeaths = 1
  NoCall = NoCall
INVARIANT TypeOK
INVARIANT NeverOlder
INVARIANT RowsFirst
PROPERTY EveryNodeTold
PROPERTY RequestsEnd
CHECK_DEADLOCK FALSE
