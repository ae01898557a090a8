SPECIFICATION Spec
CONSTANTS
  SocketPlans <- BrokerPlans
  MemoryPlans <- FormPlans
  Cuts <- AllCuts
  MaxAstray = 2
  NoResponse = NoResponse
INVARIANTS TypeOK InOrder InStep RoundTrip StaleMessage
CHECK_DEADLOCK FALSE
