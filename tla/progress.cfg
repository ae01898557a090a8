SPECIFICATION FairSpec
CONSTANTS
  Callers = {"c1"}
  BufferCount = 2
  MaxCalls <- DuplexCalls
  MaxPushes <- DuplexPushes
  BrokerIds = {1}
  FirstId = 1
  MsgCallback = TRUE
  SubscribeFirst = TRUE
  Faults = {}
  MaxEofReads = 0
  NoOne = NoOne
  NoMsg = NoMsg
  NoEntry = NoEntry
INVARIANTS AckMatches
PROPERTIES EveryCallbackComes ImplementsAsyncClient EveryPushDelivered
