SPECIFICATION ReplacingSpec
CONSTANTS
  msg = msg
  val = val
  buf = buf
  Labels = {msg, val, buf}
  NoLabel = NoLabel
  MaxLines = 3
  Files <- ReplacedFile
  MAX_SYMBOLS = 2
  DATA_SIZE = 8
  base_vaddr = 0
INVARIANTS CapacityRespected ImageFilled
