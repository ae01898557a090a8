SPECIFICATION Spec
CONSTANTS
  Callers = {"c1", "c2"}
  BufferCount = 2
  MaxCalls <- SharedCalls
  MaxPushes <- NoPushes
  BrokerIds = {1}
  FirstId = 1
  MsgCallback = FALSE
  SubscribeFirst = FALSE
  Faults = {"close"}
  MaxEofReads = 1
  NoOne = NoOne
  NoMsg = NoMsg
  NoEntry = NoEntry
INVARIANTS SlotOwnership SendFifo CallbackOnce
CHECK_DEADLOCK FALSE
