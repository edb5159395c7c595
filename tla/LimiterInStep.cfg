\* One key, two requests, two ticks to a window: buckets of two requests and
\* four tokens, so either can be the one that refuses.
SPECIFICATION Spec
CONSTANTS
  r1 = r1
  r2 = r2
  Absent = Absent
  NoHold = NoHold
  Requests <- TwoRequests
  Window = 2
  Rpm = 1
  Tpm = 2
  Estimates <- SmallEstimates
  Usages <- SmallUsages
  Offsets <- InStep
SYMMETRY RequestSymmetry
INVARIANTS
  AdmittedWithinAllowance
  RetryAfterIsExact
PROPERTIES
  RefusalCostsNothing
