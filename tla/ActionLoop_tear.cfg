SPECIFICATION RetrySpec
CONSTANTS
  Workers = {w1}
  Actions = {question}
  Journals = {}
  Texts = {t0, t1}
  DefaultText = t0
  JournalCsv = csv
  MaxReviews = 2
  MaxStops = 2
  Faults = {"stop", "tear"}
PROPERTIES
  ApprovedIsExported
