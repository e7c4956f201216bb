\* One worker, one lost message, no request of an operator.
CONSTANTS
  Jobs = {j1}
  Workers = {w1}
  Me = w1
  NoWorker = NoWorker
  Phase <- WholePhase
  Requests = {}
  MaxRetries = 1
  MaxAttempts = 2
  MaxLooks = 1
  MaxFaults = 1
SPECIFICATION PullSpec
PROPERTIES
  FinishedWorkIsKept
CHECK_DEADLOCK FALSE
