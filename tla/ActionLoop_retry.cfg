SPECIFICATION RetrySpec
CONSTANTS
  Workers = {w1, w2}
  Actions = {question}
  Journals = {}
  Texts = {t0, t1}
  DefaultText = t0
  JournalCsv = csv
  MaxReviews = 2
  MaxStops = 1
  Faults = {"stop"}
PROPERTIES
  ApprovedIsExported
