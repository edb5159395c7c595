\* Every dialect in one conversation of up to five messages.
SPECIFICATION Spec
CONSTANTS
  Nobody = Nobody
  NoId = NoId
  NoName = NoName
  Names = {"look"}
  Vendors <- FiveVendors
  Dialect <- FourDialects
  Replies <- Scripts
  Manners <- SomeManners
  Sayings <- SomeSayings
  MaxMessages = 5
  MaxStreamed = 1
  MaxText = 2
  MaxBlocks = 2
INVARIANTS
  TypeOK
  SentIsTaken
  TurnsComeBack
  AnswerKept
PROPERTIES
  KeepsStream
