SPECIFICATION FairSpec
CONSTANTS
  Self = self
  Peer = {p, q}
  Node = {self, p, q}
  NoNode = none
  Worker = {w1}
  MAX_NUM_NODES = 2
  REMOVE_AFTER_NUM_RETRIES = 2
  MaxOutstanding = 2
INVARIANTS
  KnowsSelf
  RetriesCountSilence
PROPERTIES
  EvictionAfterSilence
  UsesChannels
  RegistrationAnswered
  EvictedOrAbandoned
CHECK_DEADLOCK FALSE
