SPECIFICATION Spec
CONSTANTS
  throttle_rate = 1
  PROBE_INTERVAL = 3
  XFER_BLOCK_SIZE = 2
  MaxSize = 10
  Delays = {0}
  Jumps = {}
  MaxJumps = 0
  Faults = {}
INVARIANTS
  WithinCap
