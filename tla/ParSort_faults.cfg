CONSTANTS
  N = 3
  Threshold = 1
  IntMod = 64
  MaxDepth = 2
  Key = {0, 1}
  Faults = {"io", "fork", "wait", "kill"}
SPECIFICATION FairSpec
INVARIANTS TypeOK NoOverrun NoRace SortedOnSuccess SuccessIsComplete WstatusIsSet DataKept
PROPERTIES KeepsContract AllEnd
