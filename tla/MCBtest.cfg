SPECIFICATION FairSpec
CONSTANTS
  TestSet <- MCTestSet
  W = 7
  Mantissa = 3
  TEST_RANGE = 4
  MAX_TEST_VALS = 52
  TIMEOUT_LIMIT = 2
  Fixed = {3}
  Weights = {0, 50}
INVARIANT ValuesFit
PROPERTIES PointsEarned HarnessEnds StrayAlarms
CHECK_DEADLOCK FALSE
