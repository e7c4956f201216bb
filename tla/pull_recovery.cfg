\* One worker, one job that may be stopped or cancelled; two faults.
CONSTANTS
  Jobs = {j1}
  Workers = {w1}
  Me = w1
  NoWorker = NoWorker
  Phase <- WholePhase
  Requests = {"stop_now", "cancel"}
  MaxRetries = 1
  MaxAttempts = 2
  MaxLooks = 1
  MaxFaults = 2
SPECIFICATION PullFairSpec
INVARIANTS
  PullTypeOK
  SettledIsFinal
PROPERTIES
  NothingDropped
  RetainedSettles
  WorkerSettlesJobs
CHECK_DEADLOCK FALSE
