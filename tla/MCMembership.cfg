SPECIFICATION FairSpec
CONSTANTS
  Node = {lead, a, b}
  NoNode = none
  Leader = lead
  Worker = {w1, w2}
  MAX_NUM_NODES = 3
  MaxJoins = 3
  MaxFaults = 1
INVARIANTS
  JoinedIsMember
  SlotsAgree
PROPERTIES
  Forgotten
CHECK_DEADLOCK FALSE
