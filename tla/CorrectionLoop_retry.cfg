SPECIFICATION RetrySpec
CONSTANTS
  Workers = {w1, w2}
  Batches <- MCBatches
  DuplicateIds <- MCDuplicateIds
  MaxRuns = 5
  MaxExports = 2
  MaxFailures = 1
  Faults = {"stop", "invalid", "kernel"}
  Utrs = {1, 2}
  NoUtr = 0
  MinDays = 0
  MaxDays = 1
  MaxCandidates = 3
  MaxGroupSize = 2
  MaxValidGroups = 2
  AutoClear = TRUE
INVARIANTS
  TypeOK
  LedgerIsExplained
  ReceiptsNameResults
  CorrectionsAreLocal
  CorrectionsSettleTheirCause
PROPERTIES
  AnswersStay
  ImplementsPromise
  ExportedIsCorrected
CHECK_DEADLOCK FALSE
