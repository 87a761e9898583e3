SPECIFICATION TransSpec
CONSTANTS
  set_bits = 5
  block_bits = 5
  lines = 1
  AddrBits = 24
  TraceAddrs = {}
  CountBound = 0
  Shapes <- MCShapes
  A_ADDR = 3190912
  B_ADDR = 3453056
  MARKER_START = 3715212
  MARKER_END = 3715213
  GLOBALS <- MCGlobals
INVARIANTS Transposed MissesAsRecorded FirstLineDecides
CHECK_DEADLOCK FALSE
