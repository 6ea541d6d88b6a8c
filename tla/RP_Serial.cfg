SPECIFICATION FairSpec
CONSTANTS
  w1 = w1  w2 = w2  b1 = b1  b2 = b2  r1 = r1  r2 = r2
  Workers = {w1}
  Boots = {b1}
  NoBoot = NoBoot
  Requests = {r1, r2}
  WorkloadGenerations = {1}
  FallbackVerdicts = {FALSE}
  HasStore = FALSE
  CompletionOutcomes = {"SUCCEEDED", "AMBIGUOUS"}
  Reports <- NoReports
  ExecutorThrows = FALSE
  RepeatedReports = FALSE
  MaxPlans = 2
  MaxEpoch = 2
  MaxSends = 1
  MaxInFlight = 1
INVARIANTS SuccessIsEarned LivePlansAreOfThisEpoch
PROPERTIES DispatchedConcludes ImplementsLedger
