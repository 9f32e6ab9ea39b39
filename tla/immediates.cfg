SPECIFICATION Spec
CONSTANTS
  LOW = 8
  HIGH = 16
  Longs <- AllLongs
  Words <- AllWords
INVARIANTS Loaded ExpansionAccepted
CHECK_DEADLOCK FALSE
