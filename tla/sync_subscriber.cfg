SPECIFICATION Spec
CONSTANTS
  MaxCalls <- SubscriberCalls
  MaxPushes <- SubscriberPushes
  BrokerIds = {1, 116}
  ConnackCodes = {0, 5}
  GarbageIds = {0}
  TopicByte = 116
  Faults = {"connect", "send", "close"}
  NoMsg = NoMsg
INVARIANTS HandoverSafe
PROPERTIES ApiReturns
CHECK_DEADLOCK FALSE
