SPECIFICATION Spec
CONSTANTS
  SyncCaller = {main}
  AsyncCaller = {health}
  TIMEOUT_DURATION = 2
  WORD = 4
  MaxCalls = 2
INVARIANTS
  ReplyMatchesCall
CHECK_DEADLOCK FALSE
