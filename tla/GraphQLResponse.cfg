SPECIFICATION GqlSpec
CONSTANTS
  Texts <- ResponseTexts
  BindingLists <- Lists
  TextLimit = 4
  Incremental <- MultipartTexts
  Boundary <- Separator
  NumberRoom = 3
  NameRoom = 2
  NullRoom = 5
  WordRoom = 6
INVARIANTS
  ErrorsAsSent
  DataAsDesignated
  OnlyTheCutValueIsWrong
  PayloadsInOrder
PROPERTY ResponseEnds
CHECK_DEADLOCK FALSE
