SPECIFICATION Spec
CONSTANTS
  Self = self
  Peer = {p, q}
  Node = {self, p, q}
  NoNode = none
  Worker = {w1, w2}
  MAX_NUM_NODES = 3
  REMOVE_AFTER_NUM_RETRIES = 1
  MaxOutstanding = 1
INVARIANTS
  ChecksMembersOnly
CHECK_DEADLOCK FALSE
