SPECIFICATION FairMainSpec
CONSTANTS
  msg = msg
  val = val
  Labels = {msg, val}
  NoLabel = NoLabel
  MaxLines = 3
  Files <- SomeFile
  MAX_SYMBOLS = 2
  DATA_SIZE = 16
  base_vaddr = 65536
  DEFAULT_VADDR = 100
  PK_VADDR = 65536
  CommandLines <- SomeCommandLine
  Cuts <- Someplace
INVARIANTS OneBase SuccessLoads ErrorLeavesOutput
PROPERTY Exits
