\* Two requests that meet in a chain of three or at its second member alone,
\* so that each runs into the breaker the other opened; a window of one tick,
\* so that either may be the other's trial.
SPECIFICATION Spec
CONSTANTS
  r1 = r1
  r2 = r2
  openai = openai
  anthropic = anthropic
  ollama = ollama
  gpt = gpt
  claude = claude
  unclaimed = unclaimed
  NoPermit = NoPermit
  Admitted = Admitted
  NoProvider = NoProvider
  Callers <- TwoRequests
  Threshold = 1
  BaseOpen = 1
  Multiplier = 1
  MaxOpen = 1
  Providers <- ThreeProviders
  Models <- ThreeModels
  Routes <- SomeRoutes
  Default = NoProvider
  Chains <- OneChain
  MaxAttempts = 2
  Failings <- SomeFailings
SYMMETRY RequestSymmetry
INVARIANTS
  TypeOK
  TriedInOrder
  NoSplice
  CallerNotBlamed
  NoCallLeftOpen
PROPERTIES
  VerdictsStayHome
  KeepsGates
