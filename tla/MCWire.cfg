SPECIFICATION Spec
CONSTANTS
  WORD = 16
  MAX_NUM_NODES = 4
  Proc = {0, 1, 2, 3}
  Plain <- MCPlain
  Travelling <- MCTravelling
  Node <- MCNode
  NoNode <- NoAddress
INVARIANTS
  MessagesSurvive
  AddressesSurvive
  ThrowHasCause
  FalseAddressHasColon
  JoinedIsRegistered
CHECK_DEADLOCK FALSE
