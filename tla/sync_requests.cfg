SPECIFICATION Spec
CONSTANTS
  MaxCalls <- RequestCalls
  MaxPushes <- RequestPushes
  BrokerIds = {1}
  ConnackCodes = {0}
  GarbageIds = {0}
  TopicByte = 116
  Faults = {"send", "close"}
  NoMsg = NoMsg
INVARIANTS OkMeansAnswered HealthyCallsSucceed
CHECK_DEADLOCK FALSE
