SPECIFICATION Spec
CONSTANTS
  Callers = {"c1"}
  BufferCount = 3
  MaxCalls <- TrafficCalls
  MaxPushes <- TrafficPushes
  BrokerIds = {1, 2}
  FirstId = 1
  MsgCallback = TRUE
  SubscribeFirst = FALSE
  Faults = {"send"}
  MaxEofReads = 0
  NoOne = NoOne
  NoMsg = NoMsg
  NoEntry = NoEntry
INVARIANTS TypeOK SendFifo AckMatches CallbackAfterAnswer DeliverInOrder HandoverSafe
PROPERTIES KeepsPromises
CHECK_DEADLOCK FALSE
