SPECIFICATION Spec
CONSTANTS
  Lines <- AllLines
  WIDTH = 3
INVARIANTS Decoded RefusedForCause PseudoMeans
