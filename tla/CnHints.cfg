SPECIFICATION Spec
CONSTANTS
  CPU = {"c1"}
  Frames <- MCFrames
  Objects = {"good", "noqueue", "othersize"}
  Cap = 2
  MaxStarts = 2
  MaxPushes = 3
  HostOf <- MCHostOf
  Nothing = Nothing
INVARIANT TypeOK
INVARIANT Delivers
INVARIANT ToldHost
INVARIANT NewestTold
PROPERTY Drained
CHECK_DEADLOCK FALSE
