\* Two requests for one prompt: one may be served by what the other stored, or
\* promoted.  A request is served once, so the system stops when both are done.
SPECIFICATION Spec
CONSTANTS
  r1 = r1
  r2 = r2
  Nobody = Nobody
  Requests <- TwoRequests
CHECK_DEADLOCK FALSE
SYMMETRY RequestSymmetry
INVARIANTS
  EndingsAccounted
  CachesHoldWhatWasPaid
  RecordMatchesDelivery
  NoUpstreamLeft
PROPERTIES
  KeepsAccounts
