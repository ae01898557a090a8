SPECIFICATION LifeSpec
CONSTANTS
  Callers = {"c1"}
  BufferCount = 2
  MaxCalls <- LeaveCalls
  MaxPushes <- NoPushes
  BrokerIds = {1}
  FirstId = 1
  MsgCallback = TRUE
  SubscribeFirst = FALSE
  Faults = {"send", "close"}
  MaxEofReads = 1
  NoOne = NoOne
  NoMsg = NoMsg
  NoEntry = NoEntry
  ConnackCodes = {0, 2, 5, 6}
  MaxFailures = 2
INVARIANTS SlotOwnership SendFifo CallbackOnce OpenMeansAccepted
PROPERTIES DisconnectReturns ConnectReturns CallsReturnUnlessFull
CHECK_DEADLOCK FALSE
