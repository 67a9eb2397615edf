SPECIFICATION Spec
CONSTANTS
  Unset = Unset
  Invalid = Invalid
  kBodyLimit = 3
  MaxCalls = 3
  Values <- MCValues
  WithPort <- MCWithPort
  LengthOf <- MCLengthOf
  Inputs <- MCInputs
  MessageSet = {"plain", "body", "zero", "badSize", "twoSizes", "chunked", "twoEncodings", "encoding", "noPort", "lower", "twoHosts", "badField", "badUri", "noSlash", "cutWord", "lowWord", "noSpace", "badLine"}
INVARIANTS
  TypeOK
  OneTransaction
  LengthKnown
  FirstCallComplete
  HostKnown
  Framing
  Diagnosed
  FirstCallSpin
PROPERTIES
  Returns
CHECK_DEADLOCK FALSE
