SPECIFICATION Spec
CONSTANTS
  Bytes = {"a", "SP", "CR", "NL"}
  Stale = {"NL", "a"}
  line_len = 5
  MaxSent = 6
INVARIANTS
  BufferInBounds
PROPERTIES
  ImplementsLineQueue
CHECK_DEADLOCK FALSE
