SPECIFICATION FairSpec
CONSTANTS
  Users = {"bob"}
  Paths = {"/", "/pub"}
  Root = "/"
  allow_anon = TRUE
  MaxBlocks = 1
  Signals = {"SIGTERM", "SIGPIPE"}
  Faults = {}
PROPERTIES
  TerminationHonoured
CHECK_DEADLOCK FALSE
