SPECIFICATION Spec
CONSTANTS
  set_bits = 1
  block_bits = 1
  lines = 3
  AddrBits = 4
  TraceAddrs = {0, 4, 8, 12, 3}
  CountBound = 12
PROPERTY ImplementsLru
CHECK_DEADLOCK FALSE
