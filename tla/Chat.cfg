CONSTANTS
  MAX_LEN = 4
  Rooms = {"lobby", "den"}
  Room = "lobby"
  Texts <- ColonTexts
  DeliveryMore = 1
  MaxCommands = 3
  MaxShown = 2
  AnswerSizes = {3}
  Closes = TRUE
SPECIFICATION FairSpec
INVARIANTS InStep AckIsTrue DisplayedInOrder
PROPERTIES SenderEnds DeliveriesShown
CHECK_DEADLOCK FALSE
