SPECIFICATION TwoSpec
CONSTANTS
  MaxCalls <- OneMessage
  MaxPushes <- OneQos1
  BrokerIds = {1}
  ConnackCodes = {0}
  GarbageIds = {0}
  TopicByte = 116
  Faults = {}
  NoMsg = NoMsg
INVARIANTS EachGetsItsOwn
CHECK_DEADLOCK FALSE
