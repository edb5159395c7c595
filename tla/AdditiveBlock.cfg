\* One answer of Anthropic's, one of its blocks of a type the adapter skips.
SPECIFICATION AdditiveSpec
CONSTANTS
  Nobody = Nobody
  NoId = NoId
  NoName = NoName
  Names = {"look"}
  Vendors <- Claude
  Dialect <- ClaudesDialect
  Replies <- NoScript
  Manners <- OneManner
  Sayings <- OneSaying
  MaxMessages = 1
  MaxStreamed = 1
  MaxText = 1
  MaxBlocks = 2
INVARIANTS
  AnswerKept
