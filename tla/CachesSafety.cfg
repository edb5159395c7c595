\* Two requests at a time of nine kinds: three prompts of which only neighbours
\* are near, another tenant, another shape, an image, a route that is never
\* cached, a stream and a bypass.  The embedder may change its dimension.
SPECIFICATION Spec
CONSTANTS
  r1 = r1
  r2 = r2
  t1 = t1
  t2 = t2
  chat = chat
  dry = dry
  warm = warm
  cold = cold
  p = p
  q = q
  w = w
  image = image
  d1 = d1
  d2 = d2
  NoDim = NoDim
  Everyone = Everyone
  Absent = Absent
  NoKey = NoKey
  NoIndex = NoIndex
  NoAnswer = NoAnswer
  NoText = NoText
  Requests <- TwoRequests
  Tenants <- TwoTenants
  Paths <- TwoPaths
  Shapes <- TwoShapes
  Prompts <- FourPrompts
  Texts <- ThreeTexts
  Text <- SomeText
  Score <- SomeScores
  Threshold = 2
  Asks <- SomeAsks
  Ttls <- NeverDry
  DefaultTtl = 1
  Scope = "key"
  HasRedis = TRUE
  HasEmbedder = TRUE
  Dims <- TwoDims
  InitialCapacity = 1
  MaxCalls = 2
SYMMETRY Symmetry
INVARIANTS
  TypeOK
  AnswersStayHome
  NoDrift
  OptOutsLeaveNoTrace
