SPECIFICATION FairSpec
CONSTANTS
  Keys = {}
  MAXJOBS = 1
  JidBound = 1
  Pids = {p1, p2}
PROPERTIES ZombiesReaped WaitfgEnds
CHECK_DEADLOCK FALSE
