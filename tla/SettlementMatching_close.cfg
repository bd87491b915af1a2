SPECIFICATION Spec
CONSTANTS
  Batches <- AllBatches
  Utrs = {1, 2}
  NoUtr = 0
  MinDays = 0
  MaxDays = 1
  MaxCandidates = 4
  MaxGroupSize = 2
  MaxValidGroups = 2
  AutoClear = TRUE
INVARIANTS
  TypeOK
  EvidenceUsedOnce
  ClearedIffDeserved
  FailureIsNamed
  ClearedIsPaidAndPosted
CHECK_DEADLOCK FALSE
