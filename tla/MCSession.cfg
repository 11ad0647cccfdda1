SPECIFICATION FairSpec
CONSTANTS
  Users = {"bob"}
  Paths = {"/", "/pub"}
  Root = "/"
  allow_anon = TRUE
  MaxBlocks = 1
  Signals = {"SIGTERM", "SIGPIPE"}
  Faults = {"malloc", "setuid", "socket", "accept", "opendir", "xfer",
            "log", "anon_root_dir", "daemon"}
INVARIANTS
  TypeOK
  LoginSound
  EveryCommandAnswered
  DescriptorsClosed
  CrashesOnlyWithoutPools
  CwdReported
PROPERTIES
  LoginStable
  ReportsInOrder
  TermEndsWaiting
CHECK_DEADLOCK FALSE
