SPECIFICATION FairSpec
CONSTANTS
  Desks = {d1, d2}
  Workers = 2
  NoCase = none
  Cases = {"c1", "c2"}
  Exceptions = {"c1"}
  Events <- MCEvents
  Amount <- MCAmount
  Cited <- MCCited
  Recommended <- MCRecommended
  Answers <- MCAnswers
  Failures <- FailureKinds
  MaxTime = 1
  MaxReviews = 1
  MaxOpens = 3
INVARIANTS TypeOK AdviceIsSound VerdictsNeverGoBack
PROPERTIES HistoryStays EveryAskEnds
CHECK_DEADLOCK FALSE
