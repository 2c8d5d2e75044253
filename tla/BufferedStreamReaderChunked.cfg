SPECIFICATION MCSpec
CONSTANTS
  Mode = "chunked"
  Wire <- ChunkedWire
  BUF_SIZE = 3
  TIMEOUT_MS = 2
  CLOCK_MOD = 5
INVARIANTS
  TypeOK
  FramingKept
  NothingLost
PROPERTIES
  EndJustified
  CallReturns
  ImplementsByteSource
