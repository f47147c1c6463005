SPECIFICATION FairSpec
CONSTANTS
  Worker = {w1, w2}
  MaxRuns = 2
  CheckRequest = {c1}
  NodesRequest = {n1}
  EmptyRequest = {e1}
INVARIANTS
  TerminationHasCause
  ErrorHasCause
  NoThreadOutlivesNode
  StopSticks
PROPERTIES
  TakenIsAnswered
  QueuedIsAnswered
CHECK_DEADLOCK FALSE
