SPECIFICATION FairSpec
CONSTANTS
  Callers = {"c1"}
  BufferCount = 2
  MaxCalls <- PubThenSub
  MaxPushes <- NoPushes
  BrokerIds = {1}
  FirstId = 1
  MsgCallback = FALSE
  SubscribeFirst = FALSE
  Faults = {}
  MaxEofReads = 0
  NoOne = NoOne
  NoMsg = NoMsg
  NoEntry = NoEntry
PROPERTIES EveryCallbackComes
CHECK_DEADLOCK FALSE
