SPECIFICATION Spec
CONSTANTS
  Keys = {"INT", "TSTP"}
  MAXJOBS = 1
  JidBound = 1
  Pids = {p1, p2}
SYMMETRY PidSymmetry
INVARIANTS EntriesLive
PROPERTIES KeysArrive NoSignalToBackground WaitfgReturnsWhenDone
CHECK_DEADLOCK FALSE
