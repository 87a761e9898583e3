SPECIFICATION Spec
CONSTANTS
  Keys = {}
  MAXJOBS = 2
  JidBound = 2
  Pids = {p1, p2}
INVARIANT OneForeground
CHECK_DEADLOCK FALSE
