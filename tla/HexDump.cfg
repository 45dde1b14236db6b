CONSTANTS
  sHexDigits <- MCHexDigits
  LineSize = 2
  OffsetDigits = 3
  ShownDigits = 2
  Printable = {1, 2}
  Dot = 2
  Inputs <- MCInputs
  MaxErrors = 1
SPECIFICATION MCSpec
INVARIANT DumpIsFaithful
PROPERTIES SameAsC Ends
CHECK_DEADLOCK FALSE
