SPECIFICATION Spec
CONSTANTS
  Batches <- BankBatches
  Utrs = {1, 2}
  NoUtr = 0
  MinDays = 0
  MaxDays = 1
  MaxCandidates = 3
  MaxGroupSize = 2
  MaxValidGroups = 2
  AutoClear = TRUE
INVARIANTS
  DuplicateNeverCleared
CHECK_DEADLOCK FALSE
