SPECIFICATION Spec
CONSTANTS
  Chars = {"/", ".", "a"}
  FTP_MAX_PATH = 5
  MaxLen = 5
INVARIANTS
  CwdCanonical
  InBounds
  RealpathCorrect
  TooLongCorrect
