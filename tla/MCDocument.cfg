SPECIFICATION Spec
CONSTANTS
  WORD = 256
  MaxEdits = 2
  Documents <- MCDocuments
  Patches <- MCPatches
INVARIANTS
  DiffReaches
  FlattenRestores
CHECK_DEADLOCK FALSE
