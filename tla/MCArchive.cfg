SPECIFICATION Spec
CONSTANTS
  WORD = 256
  MaxParts = 2
  MaxBytes = 10
  MaxLost = 3
  Documents <- MCDocuments
  Foreign <- MCForeign
INVARIANTS
  ReadsWhatWasWritten
