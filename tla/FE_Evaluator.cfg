CONSTANTS
  w1 = w1
  b1 = b1
  b2 = b2
  NoBoot = NoBoot
  Workers = {w1}
  Boots = {b1, b2}
  Requests <- SomeRequests
  Strategies <- Strategy
  Amounts = {0, 1}
  Needed = {1}
  Generations = {1, 2}
  WorkloadGenerations = {1}
  MaxEpoch = 2
  MaxDefects = 1
SPECIFICATION Spec
INVARIANTS
  TypeOK
  RestartEndsFeasibility
  FeasibleIsAuthorizable
  AbsenceNeverFeasible
  UnknownStatusRejected
PROPERTIES
  LossNeverHelps
