\* Expected to be violated: see the README.
SPECIFICATION Spec
CONSTANTS
  r1 = r1
  r2 = r2
  Nobody = Nobody
  Requests <- TwoRequests
CHECK_DEADLOCK FALSE
INVARIANT
  EveryEndingSettles
