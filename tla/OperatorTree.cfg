SPECIFICATION FairSpec
CONSTANTS
  NChains = 1
  NReplicas = 2
  Droplet = {d1, d2, d3, d4}
  Present = {d1, d2, d3}
  Nothing = Nothing
  MaxTries = 2
  Threads = 2
  MaxTroubles = 1
INVARIANTS
  OneHolder
  Complete
PROPERTIES
  EventuallyServed
CHECK_DEADLOCK FALSE
