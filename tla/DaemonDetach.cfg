SPECIFICATION Spec
CONSTANTS
  NItf = 2
  NStage = 2
  k1 = k1
  k2 = k2
  v1 = v1
  v2 = v2
  Key <- NoKeys
  Val <- TwoVals
  NoEntry = NoEntry
  Unknown = Unknown
  Fails <- NoFailure
  MaxLoads = 2
  MaxRestarts = 0
INVARIANTS
  DetachedBeforeRelease
CHECK_DEADLOCK FALSE
