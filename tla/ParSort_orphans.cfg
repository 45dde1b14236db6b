CONSTANTS
  N = 4
  Threshold = 1
  IntMod = 64
  MaxDepth = 2
  Key = {0, 1}
  Faults = {"fork", "wait"}
SPECIFICATION Spec
INVARIANTS NoRace SuccessIsComplete
