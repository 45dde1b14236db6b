CONSTANTS
  N = 4
  Threshold = 1
  IntMod = 64
  MaxDepth = 3
  Key = {0, 1}
  Faults = {}
SPECIFICATION FairSpec
INVARIANT ProcessBound
PROPERTY Succeeds
