SPECIFICATION Spec
CONSTANTS
  MaxCalls <- TwoNext
  MaxPushes <- OneQos0
  BrokerIds = {1}
  ConnackCodes = {0}
  GarbageIds = {0}
  TopicByte = 116
  Faults = {}
  NoMsg = NoMsg
INVARIANTS HandedOnce
CHECK_DEADLOCK FALSE
