\* The same buckets with worker clocks a tick apart.
SPECIFICATION Spec
CONSTANTS
  r1 = r1
  r2 = r2
  Absent = Absent
  NoHold = NoHold
  Requests <- TwoRequests
  Window = 2
  Rpm = 1
  Tpm = 2
  Estimates <- SmallEstimates
  Usages <- SmallUsages
  Offsets <- Skewed
SYMMETRY RequestSymmetry
VIEW WithoutHistory
PROPERTIES
  ClocksNeverDrain
