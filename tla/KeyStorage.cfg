SPECIFICATION Spec
CONSTANTS
  Reserve = 3
  FieldCounts <- UpToFour
  MaxBindings = 7
INVARIANTS
  TypeOK
  KeysLive
CHECK_DEADLOCK FALSE
