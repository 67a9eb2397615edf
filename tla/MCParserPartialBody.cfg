SPECIFICATION Spec
CONSTANTS
  Unset = Unset
  Invalid = Invalid
  kBodyLimit = 3
  MaxCalls = 1
  Values <- MCValues
  WithPort <- MCWithPort
  LengthOf <- MCLengthOf
  Inputs <- MCInputs
  MessageSet = {"plain", "body"}
PROPERTIES
  PartialBodyReported
CHECK_DEADLOCK FALSE
