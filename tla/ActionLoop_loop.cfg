SPECIFICATION Spec
CONSTANTS
  Workers = {w1}
  Actions = {journal, question}
  Journals = {journal}
  Texts = {t0, t1}
  DefaultText = t0
  JournalCsv = csv
  MaxReviews = 2
  MaxStops = 2
  Faults = {"stop", "tear"}
INVARIANTS
  TypeOK
  HistoryLegal
  OnlyApprovedLeaves
  ReceiptsVerify
  ReviewsExplainHistory
PROPERTIES
  RecordsAreAppendOnly
  ImplementsPromise
