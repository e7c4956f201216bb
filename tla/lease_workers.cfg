\* Two jobs of one pool contend for one worker.
CONSTANTS
  j1 = j1
  j2 = j2
  Jobs = {j1, j2}
  Workers = {w1}
  NoWorker = NoWorker
  Phase <- MixedPhase
  Requests = {}
  MaxRetries = 1
  MaxAttempts = 1
  MaxLooks = 1
SPECIFICATION Spec
INVARIANTS
  OneLeasePerWorker
