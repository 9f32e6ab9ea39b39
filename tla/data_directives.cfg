SPECIFICATION Spec
CONSTANTS
  Labels = {}
  NoLabel = NoLabel
  Malformed = Malformed
  Directives <- AllDirectives
  DATA_SIZE = 4
  SizeTypes = {8, 1024}
INVARIANT OverrunRefused
PROPERTIES KeepsContract LaidDown
