SPECIFICATION Spec
CONSTANTS
  Inputs <- MCInputs
INVARIANTS
  FebruarySometimes29
CHECK_DEADLOCK FALSE
