CONSTANTS
  MAX_LEN = 4
  Rooms = {"lobby", "den"}
  Room = "lobby"
  Texts <- ColonTexts
  DeliveryMore = 1
  MaxCommands = 2
  MaxShown = 3
  AnswerSizes = {1}
  Closes = FALSE
SPECIFICATION Spec
INVARIANT DisplayedWhole
CHECK_DEADLOCK FALSE
