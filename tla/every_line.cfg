SPECIFICATION FairSpec
CONSTANTS
  msg = msg
  val = val
  buf = buf
  Labels = {msg, val, buf}
  NoLabel = NoLabel
  MaxLines = 4
  Files <- LongerFile
  MAX_SYMBOLS = 2
  DATA_SIZE = 12
  base_vaddr = 100
INVARIANTS TypeOK PassesAgree CapacityRespected AcceptedShape VerdictInv LaReachesData
PROPERTIES SizesConfirmed Termination KeepsPromise
