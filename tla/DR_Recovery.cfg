SPECIFICATION DistributedSpec
CONSTANTS
  WorkerA = WorkerA  WorkerB = WorkerB
  BootA = BootA  BootB = BootB  BootC = BootC
  Req = Req
  Workers = {WorkerA, WorkerB}
  Boots = {BootA, BootB, BootC}
  NoBoot = NoBoot
  Requests = {Req}
  Scenarios = {"RESTORE", "RECOMPUTE", "SHADOW", "RESTART"}
  Unknown = Unknown
  MaxInt = 1000000
  WorkloadGenerations = {1}
  FallbackVerdicts = {FALSE, TRUE}
  HasStore = TRUE
  CompletionOutcomes = {"SUCCEEDED"}
  Reports = {}
  ExecutorThrows = FALSE
  RepeatedReports = FALSE
  MaxPlans = 1
  MaxEpoch = 1
  MaxSends = 1
  MaxInFlight = 1
INVARIANTS VerdictIsTheWorkers PlannerNeverToBlame FailureHasCause
PROPERTIES CoordinatorEnds NoOrphans
CHECK_DEADLOCK FALSE
