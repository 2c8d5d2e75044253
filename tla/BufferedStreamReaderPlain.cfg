SPECIFICATION MCSpec
CONSTANTS
  Mode = "plain"
  Wire <- PlainWire
  BUF_SIZE = 4
  TIMEOUT_MS = 2
  CLOCK_MOD = 5
PROPERTY CallReturns
