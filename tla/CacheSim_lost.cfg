CONSTANTS
  WordBits = 6
  NumSets = 1
  BlocksPerSet = 2
  BytesPerBlock = 4
  CounterMod = 100000
  Address = {0, 5, 10}
  MaxTrace = 6
SPECIFICATION Spec
INVARIANT NoStoreLost
CHECK_DEADLOCK FALSE
