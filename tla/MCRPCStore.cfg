SPECIFICATION Spec
CONSTANTS
  Thread = {t1, t2, t3}
  Addr = {p, q}
  Self = self
SYMMETRY Symmetry
INVARIANTS
  SomeThreadLives
  ConnectionsBounded
PROPERTIES
  StoreIsStable
CHECK_DEADLOCK FALSE
