SPECIFICATION IMQSpec
CONSTANTS
  lead = lead
  Self = self
  Peer = {lead, p}
  Node = {self, lead, p}
  NoNode = none
  Leader = lead
  LeaderList <- MCLeaderList
  Worker = {w1}
  MAX_NUM_NODES = 2
  REMOVE_AFTER_NUM_RETRIES = 0
  MaxOutstanding = 1
  MaxJoins = 1
INVARIANTS
  SelfUntilMerge
  OwnEntryStays
PROPERTIES
  SharesLeaderChannel
CHECK_DEADLOCK FALSE
