SPECIFICATION MulSpec
CONSTANTS
  Bits = 2
  Base = 4
  Operands <- UInt
INVARIANTS MulIsExact
CHECK_DEADLOCK FALSE
