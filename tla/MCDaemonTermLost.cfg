SPECIFICATION FairSpec
CONSTANTS
  LOGIN_BUF = 1
  MAX_LOGIN_NAME = 1
  FTP_MAX_PATH = 3
  FTP_MAX_NAME = 2
  XFER_INFO_SIZE = 1
  SEEK_BUFFER_SIZE = 2
  PIPE_BUF = 4
  PIPE_CAPACITY = 4
  p1 = p1
  p2 = p2
  Pids = {p1, p2}
  max_clients = 2
  Paths = {"/pub"}
  Names = {"x"}
  Infos = {0, 1}
  MaxBacklog = 1
  MaxReports = 0
  Signals = {"SIGTERM"}
  Faults = {}
PROPERTIES
  TerminationNotForgotten
CHECK_DEADLOCK FALSE
