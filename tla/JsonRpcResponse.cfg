SPECIFICATION RpcSpec
CONSTANTS
  Texts <- ResponseTexts
  BindingLists <- Lists
  TextLimit = 4
INVARIANTS
  ResultAsDesignated
  OnlyTheCutValueIsWrong
  MembersAsSent
PROPERTY ResponseEnds
CHECK_DEADLOCK FALSE
