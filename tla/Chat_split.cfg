CONSTANTS
  MAX_LEN = 4
  Rooms = {"lobby", "den"}
  Room = "lobby"
  Texts <- PlainText
  DeliveryMore = 1
  MaxCommands = 3
  MaxShown = 3
  AnswerSizes = {1, 4}
  Closes = FALSE
SPECIFICATION Spec
INVARIANT OkIsSuccess
CHECK_DEADLOCK FALSE
