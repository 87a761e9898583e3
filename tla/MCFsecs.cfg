SPECIFICATION FairSpec
CONSTANTS
  B = 4
  Durations = {2, 3}
  TickCost = 4
  Gaps = {1, 4, 6}
  THRESHOLD = 3
  RECORDTHRESH = 2
  NEVENT = 1
  EpsilonPercent = 50
  Ks = {2}
  MaxSampleChoices = {1, 3}
  CacheSizes = {1}
  Packages = {"FCYC", "ITIMER", "GETTOD"}
  U = 5
  N = 2
  MAX_ETIME = 1
  Steps <- MCSteps
INVARIANTS CounterExact BestReturned RunsTimed
PROPERTY FcycReturns
CHECK_DEADLOCK FALSE
