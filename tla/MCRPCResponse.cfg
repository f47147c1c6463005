SPECIFICATION FairSpec
CONSTANTS
  SyncCaller = {main}
  AsyncCaller = {health}
  TIMEOUT_DURATION = 1
  WORD = 3
  MaxCalls = 2
INVARIANTS
  LoopWithinResponse
  NoEarlyTimeout
  GetNeverInternal
  BacklogHasCause
PROPERTIES
  ImplementsChannel
  CallReturns
CHECK_DEADLOCK FALSE
