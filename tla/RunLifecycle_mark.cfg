SPECIFICATION Spec
CONSTANTS
  Procs = {p1}
  RunIds = {r1}
  FileIds <- MCFileIds
  Contents <- MCContents
  ValidContents <- MCValidContents
  Batches <- MCFewBatches
  Policies = {v1}
  OurPolicy = v1
  Faults = {"kernel", "commit", "mark"}
INVARIANTS
  ExceptionMarksFailed
