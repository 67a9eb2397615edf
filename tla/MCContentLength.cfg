SPECIFICATION Spec
CONSTANTS
  SizeMax = 255
  kBodyLimit = 40
  Other = Other
  MaxLength = 4
  Texts <- MCTexts
INVARIANTS
  TypeOK
  AcceptedExact
  RejectedTooBig
PROPERTIES
  WrapsOnlyAtTenth
CHECK_DEADLOCK FALSE
