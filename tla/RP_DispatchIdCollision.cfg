SPECIFICATION Spec
CONSTANTS
  w1 = w1  w2 = w2  b1 = b1  b2 = b2  r1 = r1  r2 = r2
  Workers = {w1}
  Boots = {b1}
  NoBoot = NoBoot
  Requests = {r1, r2}
  WorkloadGenerations = {1}
  FallbackVerdicts = {TRUE}
  HasStore = FALSE
  CompletionOutcomes = {"SUCCEEDED", "AMBIGUOUS"}
  Reports <- NoReports
  ExecutorThrows = TRUE
  RepeatedReports = FALSE
  MaxPlans = 2
  MaxEpoch = 1
  MaxSends = 1
  MaxInFlight = 2
INVARIANTS SuccessIsEarned
