CONSTANTS
  N = 3
  MaxAsserts = 2
  MaxCleanupCrashes = 2
SPECIFICATION Spec
INVARIANTS VerdictIsTheReports OwnLine FreedOnce
CHECK_DEADLOCK FALSE
