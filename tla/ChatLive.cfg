\* One request under fairness: what its hang-up leaves behind is its own affair.
SPECIFICATION FairSpec
CONSTANTS
  r1 = r1
  r2 = r2
  Nobody = Nobody
  Requests <- OneRequest
CHECK_DEADLOCK FALSE
PROPERTIES
  OrphansReleased
  AbandonedIsRecorded
