SPECIFICATION FairSpec
CONSTANTS
  LOGIN_BUF = 1
  MAX_LOGIN_NAME = 1
  FTP_MAX_PATH = 3
  FTP_MAX_NAME = 2
  XFER_INFO_SIZE = 1
  SEEK_BUFFER_SIZE = 2
  PIPE_BUF = 4
  PIPE_CAPACITY = 5
  p1 = p1
  p2 = p2
  Pids = {p1, p2}
  max_clients = 1
  Paths = {"/pub"}
  Names = {"x"}
  Infos = {0}
  MaxBacklog = 1
  MaxReports = 2
  Signals = {"SIGTERM"}
  Faults = {"poll", "accept", "eintr", "epipe", "fork", "malloc", "read", "jobctl"}
INVARIANTS
  ReportsFramed
  RecordsFaithful
  SessionsBounded
PROPERTIES
  ReportsRead
  TerminationHeeded
  LoneDeadCollected
CHECK_DEADLOCK FALSE
