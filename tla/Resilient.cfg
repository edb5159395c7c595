\* Three callers, so that a straggler from the closed era, the trial and a
\* bystander can meet; two attempts, so that a sequence can be cut short.  Under
\* fairness, so without symmetry: a tick every action of the environment can
\* wait for, and a zero-length backoff among the sleeps.
SPECIFICATION TrafficSpec
CONSTANTS
  c1 = c1
  c2 = c2
  c3 = c3
  NoPermit = NoPermit
  Admitted = Admitted
  Callers <- ThreeCallers
  Threshold = 2
  BaseOpen = 1
  Multiplier = 2
  MaxOpen = 2
  MaxAttempts = 2
  BackoffBase = 1
  MaxBackoff = 1
  Deadline = 2
  RetryAfters <- OneWait
  BudgetEnabled = TRUE
  BudgetCapacity = 1
  BudgetRefill = 1
INVARIANTS
  TrialSlotOwned
  ClosedBelowThreshold
PROPERTIES
  SlotFreedByOwner
  KeepsGate
  EveryRequestEnds
  Recovers
