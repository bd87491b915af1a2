SPECIFICATION FairSpec
CONSTANTS
  Procs = {p1, p2}
  RunIds = {r1}
  FileIds <- MCFileIds
  Contents <- MCContents
  ValidContents <- MCValidContents
  Batches <- MCFewBatches
  Policies = {v0, v1}
  OurPolicy = v1
  Faults = {"import", "kernel", "commit", "log"}
PROPERTIES
  ReconciliationEnds
