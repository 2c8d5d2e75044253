SPECIFICATION Spec
CONSTANTS
  Bodies <- ResponseBodies
  BindingLists <- Lists
INVARIANTS
  ElementBound
  CutNeverWrong
  InStep
  FaultReported
CHECK_DEADLOCK FALSE
