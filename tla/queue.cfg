\* Two workers that may be started again, four jobs, three requests and two faults.
CONSTANTS
  Workers = {w1, w2}
  NoWorker = NoWorker
  Starts = 2
  Asked = {"verify", "start", "cancel", "cancel_job", "archive", "stop", "clear",
           "restart", "pause", "resume"}
  CommitMayFail = FALSE
  MaxRetries = 1
  MaxJobs = 4
  MaxRequests = 3
  MaxFaults = 2
SPECIFICATION FairSpec
INVARIANTS
  QueueTypeOK
  RunningAsVerified
  OneLiveJob
PROPERTIES
  QueueSettles
CHECK_DEADLOCK FALSE
