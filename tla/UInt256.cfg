CONSTANTS
  Bits = 2
  Base = 4
  Operands <- UInt
  HexBase = 2
  ChunkDigits = 2
  Other = 99
  MaxLength = 9
SPECIFICATION MCSpec
INVARIANTS AddIsExact SubIsExact NarrowProduct RoundTrip
CHECK_DEADLOCK FALSE
