SPECIFICATION Spec
CONSTANTS
  Reserve = 3
  FieldCounts <- UpToFour
  MaxBindings = 7
INVARIANTS
  EveryKeyLive
CHECK_DEADLOCK FALSE
