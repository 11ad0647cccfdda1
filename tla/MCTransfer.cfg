SPECIFICATION Spec
CONSTANTS
  throttle_rate = 1
  PROBE_INTERVAL = 1
  XFER_BLOCK_SIZE = 2
  MaxSize = 7
  Delays = {0, 1}
  Jumps <- MCJumps
  MaxJumps = 1
  Faults = {"short", "truncate", "hangup", "error", "signal"}
INVARIANTS
  RetrExact
  RetrInOrder
  StorExact
  StorInOrder
  RateBound
