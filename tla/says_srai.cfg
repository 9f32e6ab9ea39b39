SPECIFICATION Spec
CONSTANTS
  Lines <- AllLines
  WIDTH = 3
INVARIANT Funct7Kept
