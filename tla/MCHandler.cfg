SPECIFICATION HandlerSpec
CONSTANTS
  Unset = Unset
  Invalid = Invalid
  kBodyLimit = 3
  MaxCalls = 1
  Values <- MCValues
  WithPort <- MCWithPort
  LengthOf <- MCLengthOf
  Inputs <- MCInputs
  Streams <- MCStreams
  MessageSet = {"plain", "body", "zero", "badSize", "twoSizes", "chunked", "twoEncodings", "encoding", "noPort", "noPortBad", "lower", "twoHosts", "badField", "badUri", "noSlash", "cutWord", "lowWord", "noSpace", "badLine"}
  Seconds = {"plain", "body", "noPort"}
INVARIANTS
  Answered
  NeverStuck
CHECK_DEADLOCK FALSE
