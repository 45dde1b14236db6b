CONSTANTS
  MAX_LEN = 4
  Rooms = {"lobby", "den"}
  Room = "lobby"
  Texts <- PlainText
  DeliveryMore = 1
  MaxCommands = 2
  MaxShown = 3
  AnswerSizes = {1}
  Closes = TRUE
SPECIFICATION Spec
INVARIANT DisplayedOnce
CHECK_DEADLOCK FALSE
