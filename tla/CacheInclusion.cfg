CONSTANTS
  WordBits = 6
  NumSets = 2
  FewWays = 2
  ManyWays = 3
  BytesPerBlock = 4
  CounterMod = 100000
  Address = {0, 6, 8, 17, 24}
  MaxTrace = 5
SPECIFICATION Spec
INVARIANTS WellFormed EveryAccessCounted NoHitStoreLost LruInclusion EveryAddressNamed
PROPERTIES KeepsContract DirtyLeavesPaid
CHECK_DEADLOCK FALSE
