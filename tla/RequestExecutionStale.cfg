SPECIFICATION Spec
CONSTANTS
  Objects = {o1, o2}
  Kinds <- Rest
  ServerCodes <- OkOrError
  Retries <- Extreme
  INT_MAX = 1
  MaxMade = 2
  MaxRuns = 1
  MaxDepth = 2
INVARIANTS
  SuccessIsAnswered
CHECK_DEADLOCK FALSE
