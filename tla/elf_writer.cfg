SPECIFICATION Spec
CONSTANTS
  base_vaddr = 65536
  Cuts <- Offsets
  TextSizes = {0, 4, 8}
  DataSizes = {0, 1, 6}
INVARIANTS AnswerIsTrue LoadedInPlace TablesTrue
