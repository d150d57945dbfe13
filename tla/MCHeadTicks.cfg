SPECIFICATION FairSpec
CONSTANTS
  CycleCap = 2
  Buffer = 2
  MaxBehind = 5
INVARIANT NoLostTick
PROPERTY HeadsIndexed
CHECK_DEADLOCK FALSE
