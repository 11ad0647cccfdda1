SPECIFICATION Spec
CONSTANTS
  Lines <- MCLines
  MaxLines = 3
  PAGE_SIZE = 5
  TMP_SIZE = 3
  INT_MAX = 20
  MAX_PORT = 9
  CommandList <- MCCommandList
  DEFAULT_CMD_SIZE = 2
  Faults = {"args", "open", "malloc", "realloc", "server"}
INVARIANTS
  TypeOK
  ConfigMeansFile
  CrashesOnlyAtPageEnd
