CONSTANTS
  N = 5
  Threshold = 1
  IntMod = 4
  MaxDepth = 3
  Key = {0, 1}
  Faults = {}
SPECIFICATION Spec
INVARIANT SortedOnSuccess
