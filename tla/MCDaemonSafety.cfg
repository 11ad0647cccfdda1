SPECIFICATION Spec
CONSTANTS
  LOGIN_BUF = 1
  MAX_LOGIN_NAME = 1
  FTP_MAX_PATH = 3
  FTP_MAX_NAME = 1
  XFER_INFO_SIZE = 1
  SEEK_BUFFER_SIZE = 2
  PIPE_BUF = 4
  PIPE_CAPACITY = 4
  p1 = p1
  p2 = p2
  Pids = {p1, p2}
  max_clients = 2
  Paths = {"/pub"}
  Names = {"x"}
  Infos = {0, 1}
  MaxBacklog = 1
  MaxReports = 1
  Signals = {"SIGTERM"}
  Faults = {}
INVARIANTS
  TypeOK
  ListIsChildren
  RecordsFaithful
  NoOrphansUnlessNoMemory
  NeverCrashesUnlessStopped
PROPERTIES
  KillsOnlyChildren
SYMMETRY Symmetry
CHECK_DEADLOCK FALSE
