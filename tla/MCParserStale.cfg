SPECIFICATION Spec
CONSTANTS
  Unset = Unset
  Invalid = Invalid
  kBodyLimit = 3
  MaxCalls = 2
  Values <- MCValues
  WithPort <- MCWithPort
  LengthOf <- MCLengthOf
  Inputs <- MCInputs
  MessageSet = {"plain"}
INVARIANTS
  StaleParserReported
CHECK_DEADLOCK FALSE
