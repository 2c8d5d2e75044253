SPECIFICATION Spec
CONSTANTS
  Objects = {o1, o2}
  Kinds <- AllKinds
  ServerCodes <- OkOrError
  Retries <- Extreme
  INT_MAX = 1
  MaxMade = 2
  MaxRuns = 1
  MaxDepth = 2
INVARIANTS
  TypeOK
  ExecutedOnce
  NeverResent
  OutcomeEarned
PROPERTIES
  KeepsContract
  AttemptsEnd
CHECK_DEADLOCK FALSE
