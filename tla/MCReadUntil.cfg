SPECIFICATION Spec
CONSTANTS
  Bytes <- MCBytes
  Blank = Blank
  MaxSize = 7
  BufferDelta = 2
  Delim <- MCDelim
  Streams <- MCStreams
  MinRead = 3
  MaxRead = 4
  NotFound = NotFound
  LongestAny = 5
  LongestDelim = 9
INVARIANTS
  Intact
  FirstDelimiter
  NeverThrows
CHECK_DEADLOCK FALSE
