SPECIFICATION Spec
CONSTANTS
  NItf = 2
  NStage = 1
  k1 = k1
  k2 = k2
  v1 = v1
  v2 = v2
  Key <- TwoKeys
  Val <- TwoVals
  NoEntry = NoEntry
  Unknown = Unknown
  Fails <- AfterLoadFailures
  MaxLoads = 2
  MaxRestarts = 1
SYMMETRY Symmetry
INVARIANTS
  EndpointsServed
  PinsCurrent
CHECK_DEADLOCK FALSE
