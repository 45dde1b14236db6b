CONSTANTS
  WordBits = 6
  NumSets = 1
  BlocksPerSet = 2
  BytesPerBlock = 4
  CounterMod = 8
  Address = {0, 5, 10}
  MaxTrace = 7
SPECIFICATION FairSpec
PROPERTY KeepsContract
CHECK_DEADLOCK FALSE
