\* Two keys, two jobs at a time, two days kept, three days lived through: a hash
\* is written on one day, read on the next and expires on the third.  With a day
\* to a tick every write is on the stroke of midnight, the earliest a hash can go.
SPECIFICATION Spec
CONSTANTS
  k1 = k1
  k2 = k2
  j1 = j1
  j2 = j2
  Nobody = Nobody
  Keys <- TwoKeys
  Jobs <- TwoJobs
  Models <- TwoModels
  RetentionDays = 2
  TicksPerDay = 1
  MaxTicks = 2
  MaxRecords = 2
  Spent <- OneOfEach
  AskedDays <- Asked
  Overrides <- Corrected
  BuiltIn <- Vendor
SYMMETRY Symmetries
INVARIANTS
  TypeOK
  ReportsAddUp
PROPERTIES
  WindowIsKept
