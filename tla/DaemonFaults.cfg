SPECIFICATION Spec
CONSTANTS
  NItf = 2
  NStage = 2
  k1 = k1
  k2 = k2
  v1 = v1
  v2 = v2
  Key <- NoKeys
  Val <- TwoVals
  NoEntry = NoEntry
  Unknown = Unknown
  Fails <- NoReattachFailure
  MaxLoads = 3
  MaxRestarts = 1
SYMMETRY Symmetry
INVARIANTS
  TypeOK
  LoadedServes
  JumpsFilled
  DropletServed
CHECK_DEADLOCK FALSE
