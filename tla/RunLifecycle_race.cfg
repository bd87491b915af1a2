SPECIFICATION Spec
CONSTANTS
  Procs = {p1, p2}
  RunIds = {r1}
  FileIds <- MCFileIds
  Contents <- MCContents
  ValidContents <- MCValidContents
  Batches <- MCBatches
  Policies = {v1}
  OurPolicy = v1
  Faults = {"crash", "import", "kernel", "commit", "log", "mark"}
SYMMETRY Symmetry
INVARIANTS
  TypeOK
  ManifestMatchesRows
  CommittedFilesWhole
  ResultsOnlyWhenCompleted
  AuditMirrorsHistory
  ReconcilerOwnsRun
PROPERTIES
  RecordsAreAppendOnly
  ImplementsPromise
