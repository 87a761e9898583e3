SPECIFICATION Spec
CONSTANTS
  Keys = {"TSTP", "QUIT"}
  MAXJOBS = 2
  JidBound = 2
  Pids = {p1, p2}
SYMMETRY PidSymmetry
INVARIANTS ChildrenTracked ForegroundAwaited StopRecorded
PROPERTIES ListSpec JidFresh
CHECK_DEADLOCK FALSE
