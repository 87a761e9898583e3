SPECIFICATION FairSpec
CONSTANTS
  NAddrs = 2
  ConnBound = 2
  Buffered = TRUE
  Requests <- MCRequests
INVARIANTS NothingLeaked AnswersWhole SurvivesRequests
PROPERTY ComesBack
CHECK_DEADLOCK FALSE
