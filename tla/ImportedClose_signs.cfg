SPECIFICATION Spec
CONSTANTS
  Profiles <- MCProfiles
  Integer <- MCInteger
  Paise <- MCPaise
  Day <- MCDay
  Instant <- MCInstant
  Currencies = {"INR", "USD"}
  Threshold = 8000
  Margin = 500
  RunIds = {1}
  Requests <- SignRequests
  MaxSpan = 45
  MaxRequests = 1
  Names <- MCNames
  Utrs <- MCUtrs
  NoUtr = ""
  Currency = "INR"
  Sign <- MCSign
  Accounts <- MCAccounts
  Side <- MCSide
  MinDays = 0
  MaxDays = 3
  MaxCandidates = 12
  MaxGroupSize = 4
  MaxValidGroups = 2
  AutoClear = TRUE
INVARIANTS
  ClearedIsAsReported
CHECK_DEADLOCK FALSE
