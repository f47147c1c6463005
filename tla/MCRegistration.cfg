SPECIFICATION Spec
CONSTANTS
  Node <- MCNode
  NoNode <- MCNoNode
  Self <- MCSelf
  Worker = {w1, w2}
  HealthThread = health
  MAX_NUM_NODES = 3
  MaxRequests = 2
  MaxRounds = 1
SYMMETRY Symmetry
INVARIANTS
  OwnSlotWhole
  Isolated
  NoMemberTwice
  ThrowHasCause
PROPERTIES
  WholeUnlessOverlapped
CHECK_DEADLOCK FALSE
