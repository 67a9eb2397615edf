SPECIFICATION Spec
CONSTANTS
  SizeMax = 255
  kBodyLimit = 40
  Other = Other
  MaxLength = 3
  Texts <- MCTexts
INVARIANTS
  NeverGuesses
CHECK_DEADLOCK FALSE
