\* Three items in two shards and a merge, or one post-hoc fit.
CONSTANTS
  Jobs = {j1, j2, j3}
  Workers = {w1}
  NoWorker = NoWorker
  Phase <- AllWhole
  Requests = {"cancel", "stop_now"}
  MaxRetries = 1
  MaxAttempts = 1
  MaxLooks = 1
  Population = 3
  ShardSize = 2
  JobsApi = FALSE
  MaxCalls = 1
SYMMETRY Rows
SPECIFICATION InferSpec
INVARIANTS
  OneUnitAtATime
  StatusMatchesResult
PROPERTIES
  CancelledUnitEndsRun
  ImplementsPrediction
CHECK_DEADLOCK FALSE
