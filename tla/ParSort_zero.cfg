CONSTANTS
  N = 1
  Threshold = 0
  IntMod = 64
  MaxDepth = 4
  Key = {0, 1}
  Faults = {}
SPECIFICATION FairSpec
INVARIANT NeverSucceeds
PROPERTY AllEnd
