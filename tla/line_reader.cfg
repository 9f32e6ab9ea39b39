SPECIFICATION Spec
CONSTANTS
  LINE_BUF_LEN = 4
  MaxLength = 6
  Texts <- AllTexts
INVARIANT LinesWhole
