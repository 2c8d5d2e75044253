SPECIFICATION Spec
CONSTANTS
  Path <- PathDef
  Bases <- BasesDef
  Ports <- PortsDef
  FirstBase <- FirstBaseDef
  Keys <- KeysDef
  Texts <- TextsDef
  PathValues <- PathValuesDef
  QueryValues <- QueryValuesDef
  Bare <- BareDef
  RawJson <- RawJsonDef
  Structs <- StructsDef
  HeaderNames <- HeaderNamesDef
  HeaderValues <- HeaderValuesDef
  CookieNames <- CookieNamesDef
  Lower <- LowerDef
  NameSize = 3
  ValueSize = 10
  IdCount = 2
  IntText <- IntTextDef
  MaxSteps = 5
INVARIANTS
  BodyAsAsked
  IdsApart
  UrlAsAsked
  HeadersAsSet
CHECK_DEADLOCK FALSE
