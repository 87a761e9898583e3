SPECIFICATION RefFairSpec
CONSTANTS
  Keys = {"INT", "TSTP"}
  MAXJOBS = 1
  JidBound = 1
  Pids = {p1}
INVARIANT ForgottenOnlyDoomed
PROPERTIES RefWaitfgReturnsWhenDone InterruptEndsJob
CHECK_DEADLOCK FALSE
