SPECIFICATION Spec
CONSTANTS
  Texts <- DocumentTexts
  BindingLists <- Pairs
  TextLimit = 4
INVARIANTS
  BoundAsDesignated
  OnlyTheCutValueIsWrong
  WithinItsValue
  RecursionBounded
PROPERTY ParserStops
CHECK_DEADLOCK FALSE
