\* One training unit, one worker, every request.
CONSTANTS
  j1 = j1
  j2 = j2
  Jobs = {j1}
  Workers = {w1}
  NoWorker = NoWorker
  Phase <- TrainPhase
  Requests = {"pause", "stop_now", "restart", "resume", "cancel"}
  MaxRetries = 1
  MaxAttempts = 2
  MaxLooks = 1
SPECIFICATION Spec
INVARIANTS
  TypeOK
  FencedLease
  HeldJobHasOwner
  OneOutput
  AttemptOpenIffLive
PROPERTIES
  StoppedNeverCommits
  ImplementsRegister
