SPECIFICATION Spec
CONSTANTS
  Unset = Unset
  Invalid = Invalid
  kBodyLimit = 3
  MaxCalls = 2
  Values <- MCValues
  WithPort <- MCWithPort
  LengthOf <- MCLengthOf
  Inputs <- MCInputs
  MessageSet = {"plain", "twoSizes", "twoEncodings"}
INVARIANTS
  LengthUncontested
CHECK_DEADLOCK FALSE
