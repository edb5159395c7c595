\* Requests share the key database and the label budget and nothing else, so one
\* slot that request after request passes through meets every state of both.
SPECIFICATION Spec
CONSTANTS
  r1 = r1
  k1 = k1
  k2 = k2
  m1 = m1
  m2 = m2
  trace = trace
  Nobody = Nobody
  Requests <- OneRequest
  Keys <- TwoKeys
  Models <- TwoModels
  InboundIds <- OneId
  MaxBody = 2
  LabelLimit = 1
  MaxChunk = 2
  MaxMessages = 3
SYMMETRY Symmetries
INVARIANTS
  TypeOK
  OnlyKeysAreServed
  AnsweredAndCounted
  BodyIntact
